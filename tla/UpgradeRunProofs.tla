-------------------------- MODULE UpgradeRunProofs --------------------------
(***************************************************************************)
(* Theorems about UpgradeRun, for every set of findings and every          *)
(* configuration.                                                          *)
(***************************************************************************)
EXTENDS UpgradeRun, TLAPS

-----------------------------------------------------------------------------
\* The invariant behind every theorem, part by part.

\* The control state, and everything else a run accumulates.
ControlTyped ==
  /\ options \in Configurations
  /\ node \in Phases \cup {"end"} /\ phase \in Phases
  /\ step \in 0 .. Budget
  /\ attempts \in [Workers -> Nat]

FindingsTyped ==
  /\ findings \subseteq Findings
  /\ unreached \subseteq findings /\ uncovered \subseteq findings
  /\ addressed \subseteq findings /\ verifiedIds \subseteq findings

RecordTyped ==
  /\ baseline \in {"none", "passed", "failed"}
  /\ changes \subseteq {"test_author", "implementer", "ci_author"}
  /\ tree \in {"pristine", "edited", "verified"}
  /\ lastVerification \in {"not_run", "failed", "passed"}
  /\ publication \in {"none", "pushed", "open"}
  /\ result \in {"none", "verified", "partial", "human_required", "blocked", "indeterminate"}

FlagsTyped ==
  /\ testsPending \in BOOLEAN /\ assessed \in BOOLEAN /\ moved \in BOOLEAN
  /\ resolved \in BOOLEAN /\ diffOk \in BOOLEAN /\ checksFailing \in BOOLEAN
  /\ ciAssessed \in BOOLEAN /\ blocking \in BOOLEAN /\ prohibited \in BOOLEAN
  /\ uncertain \in BOOLEAN /\ requested \in BOOLEAN /\ pending \in BOOLEAN

Prologue == {"inspect", "baseline_verify", "research"}

\* Before research has returned, nothing the later nodes accumulate is there.
PrologueIsFresh ==
  node \in Prologue =>
    /\ findings = {} /\ uncovered = {} /\ addressed = {} /\ verifiedIds = {}
    /\ changes = {} /\ ~moved /\ ~requested /\ ~pending
    /\ lastVerification = "not_run" /\ publication = "none" /\ result = "none"

Shape == ControlTyped /\ FindingsTyped /\ RecordTyped /\ FlagsTyped /\ PrologueIsFresh

LEMMA ShapeIsTyped == Shape => TypeOK
BY DEF Shape, ControlTyped, FindingsTyped, RecordTyped, FlagsTyped, TypeOK

-----------------------------------------------------------------------------
\* How a node is left.

LEMMA BudgetIsNat ==
  ASSUME options \in Configurations
  PROVE  Budget \in Nat
<1>1. options.maxWorkerAttempts \in Nat
  BY OptionsAssumption DEF Options
<1>2. QED BY <1>1 DEF Budget

LEMMA Edges ==
  /\ Transitions["inspect"] = {"baseline_verify", "finalize"}
  /\ Transitions["baseline_verify"] = {"research", "finalize"}
  /\ Transitions["research"] = {"route", "finalize"}
  /\ Transitions["route"] = RoutableActions
  /\ Transitions["publish_draft"] = {"finalize"}
  /\ \A n \in {"assess_verification", "author_tests", "implement", "configure_ci", "verify"} :
        Transitions[n] = {"route", "finalize"}
BY DEF Transitions, Phases, RoutableActions

\* A node that is not the last leads to the phase it intended or to finalize, and no
\* move is illegal: a phase that is no successor is only left behind with a stop.
LEMMA LeaveIsLegal ==
  ASSUME ControlTyped, UNCHANGED options,
         NEW n \in Phases \ {"finalize"}, NEW intended \in Phases,
         Visit(n), Leave(n, intended),
         intended \in Transitions[n] \/ blocking' \/ prohibited'
  PROVE  /\ node' \in Transitions[n]
         /\ node' = IF blocking' \/ prohibited' THEN "finalize" ELSE intended
         /\ node' \in Phases /\ phase' = intended
         /\ step' = step + 1 /\ step' \in 0 .. Budget'
<1>1. "finalize" \in Transitions[n] /\ Transitions[n] \subseteq Phases
  BY Edges DEF Phases, RoutableActions
<1>2. node' \in Transitions[n] /\ node' = IF blocking' \/ prohibited' THEN "finalize" ELSE intended
  BY <1>1 DEF Leave
<1>3. Budget' = Budget /\ Budget \in Nat
  BY BudgetIsNat DEF Budget, ControlTyped
<1>4. step \in Nat /\ step < Budget
  BY <1>3 DEF Visit, ControlTyped
<1>5. step' = step + 1 /\ step' \in 0 .. Budget'
  BY <1>3, <1>4 DEF Leave
<1>6. QED BY <1>1, <1>2, <1>5 DEF Leave

LEMMA CompletesIsTyped ==
  ASSUME ControlTyped, UNCHANGED options,
         NEW w \in Workers, NEW n \in Phases \ {"finalize"}, NEW successor \in Transitions[n],
         Visit(n), Completes(w, n, successor)
  PROVE  /\ ControlTyped' /\ phase' = successor
         /\ node' = IF blocking' \/ prohibited' THEN "finalize" ELSE successor
<1>1. successor \in Phases
  BY Edges DEF Phases, RoutableActions
<1>2. /\ node' \in Phases /\ phase' = successor /\ step' \in 0 .. Budget'
      /\ node' = IF blocking' \/ prohibited' THEN "finalize" ELSE successor
  BY <1>1, LeaveIsLegal DEF Completes
<1>3. attempts' \in [Workers -> Nat]
  BY DEF Completes, Attempt, ControlTyped
<1>4. QED BY <1>1, <1>2, <1>3 DEF ControlTyped

LEMMA HaltsIsTyped ==
  ASSUME ControlTyped, 
         NEW w \in Workers, NEW n \in Phases \ {"finalize"}, NEW successor \in Transitions[n],
         Visit(n), Halts(w, n, successor)
  PROVE  ControlTyped' /\ node' = "finalize"
<1>1. PICK intended \in {n, successor} : Leave(n, intended)
  BY DEF Halts
<1>2. successor \in Phases /\ UNCHANGED options /\ blocking'
  BY Edges DEF Phases, RoutableActions, Halts
<1>3. node' \in Phases /\ node' = "finalize" /\ phase' = intended /\ step' \in 0 .. Budget'
  BY <1>1, <1>2, LeaveIsLegal
<1>4. attempts' \in [Workers -> Nat]
  BY DEF Halts, Attempt, ControlTyped
<1>5. QED BY <1>2, <1>3, <1>4 DEF ControlTyped

\* A worker that halts leaves what the run has recorded so far.
LEMMA HaltsKeepsRecords ==
  ASSUME FindingsTyped, FlagsTyped, requested' \in BOOLEAN,
         NEW w, NEW n, NEW successor, Halts(w, n, successor)
  PROVE  FindingsTyped' /\ FlagsTyped'
<1>1. FindingsTyped'
  BY DEF Halts, FindingsTyped, research, coverage, verdict
<1>2. FlagsTyped'
  BY DEF Halts, FlagsTyped, coverage, verdict
<1>3. QED BY <1>1, <1>2

-----------------------------------------------------------------------------
\* Where control goes: the prologue in its order, route after a worker, a worker only
\* from route, finalize after a stop or the draft.

Successor ==
  \/ UNCHANGED vars
  \/ Inspect /\ node' \in {"baseline_verify", "finalize"}
  \/ BaselineVerify /\ node' \in {"research", "finalize"}
  \/ Route /\ node' \in Selectable \cup {"finalize"}
  \/ node' = "route"
  \/ PublishDraft /\ node' = "finalize"
  \/ node' = "end" /\ (Finalize \/ RecursionLimit)
  \/ node' = "finalize"

LEMMA SelectableIsRoutable == Selectable \subseteq RoutableActions
BY DEF Selectable, Eligible, DeterministicFallback, IsFirstEligible, RoutableActions

LEMMA ControlStep ==
  ASSUME ControlTyped, [Next]_vars
  PROVE  /\ ControlTyped' /\ Successor
         /\ node' = "finalize" => Stopped' \/ Route \/ PublishDraft \/ UNCHANGED vars
         /\ Stopped' => node' \in {"finalize", "end"} \/ UNCHANGED vars
         /\ node' \notin {"finalize", "end"} => phase' = node' \/ UNCHANGED vars
<1> USE Edges DEF Phases, RoutableActions, Workers, Stopped
<1>1. CASE RejectRequest
  <2>1. ControlTyped' /\ node' = "finalize" /\ Stopped'
    BY <1>1, LeaveIsLegal DEF RejectRequest, ControlTyped
  <2>2. QED BY <2>1 DEF Successor
<1>2. CASE Inspect
  <2>1. ControlTyped' /\ phase' = "baseline_verify" /\ node' = IF Stopped' THEN "finalize" ELSE phase'
    BY <1>2, CompletesIsTyped DEF Inspect
  <2>2. QED BY <1>2, <2>1 DEF Successor
<1>3. CASE BaselineVerify
  <2>1. ControlTyped' /\ phase' = "research" /\ node' = IF Stopped' THEN "finalize" ELSE phase'
    BY <1>3, CompletesIsTyped DEF BaselineVerify
  <2>2. QED BY <1>3, <2>1 DEF Successor
<1>4. CASE Research
  <2>1. ControlTyped' /\ phase' = "route" /\ node' = IF Stopped' THEN "finalize" ELSE phase'
    BY <1>4, CompletesIsTyped DEF Research
  <2>2. QED BY <1>4, <2>1 DEF Successor
<1>5. CASE PrologueFails
  <2>1. ControlTyped' /\ node' = "finalize" /\ Stopped'
    BY <1>5, HaltsIsTyped DEF PrologueFails, Halts
  <2>2. QED BY <2>1 DEF Successor
<1>6. CASE Route
  <2>1. PICK a \in Selectable : Leave("route", a)
    BY <1>6 DEF Route
  <2>2. ControlTyped' /\ phase' = a /\ node' = IF Stopped' THEN "finalize" ELSE a
    BY <1>6, <2>1, LeaveIsLegal, SelectableIsRoutable DEF Route, ControlTyped
  <2>3. QED BY <1>6, <2>2 DEF Successor
<1>7. CASE AssessVerification
  <2>1. ControlTyped' /\ phase' = "route" /\ node' = IF Stopped' THEN "finalize" ELSE phase'
    BY <1>7, CompletesIsTyped DEF AssessVerification
  <2>2. QED BY <1>7, <2>1 DEF Successor
<1>8. CASE AuthorTests
  <2>1. ControlTyped' /\ phase' = "route" /\ node' = IF Stopped' THEN "finalize" ELSE phase'
    BY <1>8, CompletesIsTyped DEF AuthorTests
  <2>2. QED BY <1>8, <2>1 DEF Successor
<1>9. CASE TestAuthorFails
  <2>1. ControlTyped' /\ node' = "finalize" /\ Stopped'
    BY <1>9, HaltsIsTyped DEF TestAuthorFails, Halts
  <2>2. QED BY <2>1 DEF Successor
<1>10. CASE Implement
  <2>1. ControlTyped' /\ phase' = "route" /\ node' = IF Stopped' THEN "finalize" ELSE phase'
    BY <1>10, CompletesIsTyped DEF Implement
  <2>2. QED BY <1>10, <2>1 DEF Successor
<1>11. CASE ImplementerStops
  <2>1. ControlTyped' /\ node' = "finalize" /\ Stopped'
    BY <1>11, HaltsIsTyped DEF ImplementerStops, Halts
  <2>2. QED BY <2>1 DEF Successor
<1>12. CASE ConfigureCi
  <2>1. ControlTyped' /\ phase' = "route" /\ node' = IF Stopped' THEN "finalize" ELSE phase'
    BY <1>12, CompletesIsTyped DEF ConfigureCi
  <2>2. QED BY <1>12, <2>1 DEF Successor
<1>13. CASE CiAuthorFails
  <2>1. ControlTyped' /\ node' = "finalize" /\ Stopped'
    BY <1>13, HaltsIsTyped DEF CiAuthorFails, Halts
  <2>2. QED BY <2>1 DEF Successor
<1>14. CASE Verify
  <2>1. ControlTyped' /\ phase' = "route" /\ node' = IF Stopped' THEN "finalize" ELSE phase'
    BY <1>14, CompletesIsTyped DEF Verify
  <2>2. QED BY <1>14, <2>1 DEF Successor
<1>15. CASE InstallFails
  <2>1. ControlTyped' /\ phase' = "route" /\ node' = IF Stopped' THEN "finalize" ELSE phase'
    BY <1>15, CompletesIsTyped DEF InstallFails
  <2>2. QED BY <1>15, <2>1 DEF Successor
<1>16. CASE VerifierFails
  <2>1. ControlTyped' /\ node' = "finalize" /\ Stopped'
    BY <1>16, HaltsIsTyped DEF VerifierFails, Halts
  <2>2. QED BY <2>1 DEF Successor
<1>17. CASE PublishDraft
  <2>1. ControlTyped' /\ phase' = "finalize" /\ node' = IF Stopped' THEN "finalize" ELSE phase'
    BY <1>17, CompletesIsTyped DEF PublishDraft
  <2>2. QED BY <1>17, <2>1 DEF Successor
<1>18. CASE PublisherFails
  <2>1. ControlTyped' /\ node' = "finalize" /\ Stopped'
    BY <1>18, HaltsIsTyped DEF PublisherFails, Halts
  <2>2. QED BY <2>1 DEF Successor
<1>19. CASE Finalize
  <2>1. step' \in 0 .. Budget' /\ node' = "end"
    BY <1>19, BudgetIsNat DEF Finalize, Ends, Visit, Budget, ControlTyped
  <2>2. ControlTyped'
    BY <1>19, <2>1 DEF Finalize, Ends, ControlTyped
  <2>3. QED BY <1>19, <2>1, <2>2 DEF Successor
<1>20. CASE RecursionLimit
  <2>1. step' \in 0 .. Budget' /\ node' = "end"
    BY <1>20, BudgetIsNat DEF RecursionLimit, Ends, Visit, Budget, ControlTyped
  <2>2. ControlTyped'
    BY <1>20, <2>1 DEF RecursionLimit, Ends, ControlTyped
  <2>3. QED BY <1>20, <2>1, <2>2 DEF Successor
<1>21. CASE UNCHANGED vars
  BY <1>21 DEF vars, control, ControlTyped, Budget, Successor
<1>22. QED
  BY <1>1, <1>2, <1>3, <1>4, <1>5, <1>6, <1>7, <1>8, <1>9, <1>10, <1>11, <1>12, <1>13,
     <1>14, <1>15, <1>16, <1>17, <1>18, <1>19, <1>20, <1>21 DEF Next

-----------------------------------------------------------------------------
\* Which steps write what.

LEMMA WhoWrites ==
  ASSUME [Next]_vars
  PROVE  /\ UNCHANGED options
         /\ Research \/ UNCHANGED findings
         /\ BaselineVerify \/ UNCHANGED baseline
         /\ Implement \/ ConfigureCi \/ UNCHANGED addressed
         /\ Implement \/ UNCHANGED moved
         /\ AuthorTests \/ Implement \/ ConfigureCi \/ UNCHANGED changes
         /\ \/ AuthorTests \/ TestAuthorFails \/ Implement \/ ImplementerStops
            \/ ConfigureCi \/ CiAuthorFails \/ Verify \/ UNCHANGED tree
         /\ Verify \/ InstallFails \/ UNCHANGED verdict
         /\ Implement \/ ImplementerStops \/ UNCHANGED requested
         /\ Route \/ UNCHANGED pending
         /\ PublishDraft \/ PublisherFails \/ UNCHANGED publication
         /\ Finalize \/ RecursionLimit \/ UNCHANGED result
<1> USE DEF research, coverage, progress, verdict, stops, approval, outcome, vars,
            RejectRequest, Inspect, BaselineVerify, Research, PrologueFails, Route,
            AssessVerification, AuthorTests, TestAuthorFails, Implement, ImplementerStops,
            ConfigureCi, CiAuthorFails, Verify, VerifyCandidate, InstallFails, VerifierFails,
            PublishDraft, PublisherFails, Finalize, RecursionLimit, Ends, Halts, Next
<1>1. UNCHANGED options OBVIOUS
<1>2. Research \/ UNCHANGED findings OBVIOUS
<1>3. BaselineVerify \/ UNCHANGED baseline OBVIOUS
<1>4. Implement \/ ConfigureCi \/ UNCHANGED addressed OBVIOUS
<1>5. Implement \/ UNCHANGED moved OBVIOUS
<1>6. AuthorTests \/ Implement \/ ConfigureCi \/ UNCHANGED changes OBVIOUS
<1>7. Verify \/ InstallFails \/ UNCHANGED verdict OBVIOUS
<1>8. Implement \/ ImplementerStops \/ UNCHANGED requested OBVIOUS
<1>9. Route \/ UNCHANGED pending OBVIOUS
<1>10. PublishDraft \/ PublisherFails \/ UNCHANGED publication OBVIOUS
<1>11. Finalize \/ RecursionLimit \/ UNCHANGED result OBVIOUS
<1>12. \/ AuthorTests \/ TestAuthorFails \/ Implement \/ ImplementerStops
       \/ ConfigureCi \/ CiAuthorFails \/ Verify \/ UNCHANGED tree OBVIOUS
<1>13. QED
  BY ONLY <1>1, <1>2, <1>3, <1>4, <1>5, <1>6, <1>7, <1>8, <1>9, <1>10, <1>11, <1>12

-----------------------------------------------------------------------------
\* What a step records stays well formed.

LEMMA DataStep ==
  ASSUME ControlTyped, FindingsTyped, RecordTyped, FlagsTyped, PrologueIsFresh, [Next]_vars
  PROVE  FindingsTyped' /\ RecordTyped' /\ FlagsTyped'
<1> USE DEF research, coverage, progress, verdict, stops, approval, outcome
<1>1. CASE RejectRequest
  <2>1. FindingsTyped'
    BY <1>1 DEF RejectRequest, FindingsTyped
  <2>2. RecordTyped'
    BY <1>1 DEF RejectRequest, RecordTyped
  <2>3. FlagsTyped'
    BY <1>1 DEF RejectRequest, FlagsTyped
  <2>4. QED BY <2>1, <2>2, <2>3
<1>2. CASE Inspect
  <2>1. FindingsTyped'
    BY <1>2 DEF Inspect, FindingsTyped
  <2>2. RecordTyped'
    BY <1>2 DEF Inspect, RecordTyped
  <2>3. FlagsTyped'
    BY <1>2 DEF Inspect, FlagsTyped
  <2>4. QED BY <2>1, <2>2, <2>3
<1>3. CASE BaselineVerify
  <2>1. FindingsTyped'
    BY <1>3 DEF BaselineVerify, FindingsTyped
  <2>2. RecordTyped'
    BY <1>3 DEF BaselineVerify, RecordTyped
  <2>3. FlagsTyped'
    BY <1>3 DEF BaselineVerify, FlagsTyped
  <2>4. QED BY <2>1, <2>2, <2>3
<1>4. CASE Research
  <2>1. FindingsTyped'
    BY <1>4, FindingsAssumption DEF Research, FindingsTyped, PrologueIsFresh, Prologue,
       Visit, HasFiles
  <2>2. RecordTyped'
    BY <1>4 DEF Research, RecordTyped, HasFiles
  <2>3. FlagsTyped'
    BY <1>4 DEF Research, FlagsTyped, HasFiles
  <2>4. QED BY <2>1, <2>2, <2>3
<1>5. CASE PrologueFails
  <2>1. requested' \in BOOLEAN
    BY <1>5 DEF PrologueFails, FlagsTyped
  <2>2. FindingsTyped' /\ FlagsTyped'
    BY <1>5, <2>1, HaltsKeepsRecords DEF PrologueFails
  <2>3. RecordTyped'
    BY <1>5 DEF PrologueFails, RecordTyped, Halts
  <2>4. QED BY <2>2, <2>3
<1>6. CASE Route
  <2>1. FindingsTyped'
    BY <1>6 DEF Route, FindingsTyped
  <2>2. RecordTyped'
    BY <1>6 DEF Route, RecordTyped
  <2>3. FlagsTyped'
    BY <1>6 DEF Route, FlagsTyped
  <2>4. QED BY <2>1, <2>2, <2>3
<1>7. CASE AssessVerification
  <2>1. FindingsTyped'
    BY <1>7 DEF AssessVerification, FindingsTyped, Assessments
  <2>2. RecordTyped'
    BY <1>7 DEF AssessVerification, RecordTyped, Assessments
  <2>3. FlagsTyped'
    BY <1>7 DEF AssessVerification, FlagsTyped, Assessments
  <2>4. QED BY <2>1, <2>2, <2>3
<1>8. CASE AuthorTests
  <2>1. FindingsTyped'
    BY <1>8 DEF AuthorTests, FindingsTyped, Assessments, AddsTests, ConvertsTests,
       NoSource, HasFiles
  <2>2. RecordTyped'
    BY <1>8 DEF AuthorTests, RecordTyped, Assessments, AddsTests, ConvertsTests,
       NoSource, HasFiles
  <2>3. FlagsTyped'
    BY <1>8 DEF AuthorTests, FlagsTyped, Assessments, AddsTests, ConvertsTests,
       NoSource, HasFiles
  <2>4. QED BY <2>1, <2>2, <2>3
<1>9. CASE TestAuthorFails
  <2>1. requested' \in BOOLEAN
    BY <1>9 DEF TestAuthorFails, FlagsTyped
  <2>2. FindingsTyped' /\ FlagsTyped'
    BY <1>9, <2>1, HaltsKeepsRecords DEF TestAuthorFails
  <2>3. RecordTyped'
    BY <1>9 DEF TestAuthorFails, RecordTyped, Halts, EditsOrNot
  <2>4. QED BY <2>2, <2>3
<1>10. CASE Implement
  <2>1. FindingsTyped'
    BY <1>10 DEF Implement, FindingsTyped, ApplyModelMigration, MoveDependencyOnly,
       MigrateToEsm, RequestElevation, Migrates, ForAPerson, NoWrites, EsmMoves, Renames
  <2>2. RecordTyped'
    BY <1>10 DEF Implement, RecordTyped, ApplyModelMigration, MoveDependencyOnly,
       MigrateToEsm, RequestElevation, Migrates, ForAPerson, NoWrites, EsmMoves, Renames
  <2>3. FlagsTyped'
    BY <1>10 DEF Implement, FlagsTyped, ApplyModelMigration, MoveDependencyOnly,
       MigrateToEsm, RequestElevation, Migrates, ForAPerson, NoWrites, EsmMoves, Renames
  <2>4. QED BY <2>1, <2>2, <2>3
<1>11. CASE ImplementerStops
  <2>1. requested' \in BOOLEAN
    BY <1>11 DEF ImplementerStops, FlagsTyped
  <2>2. FindingsTyped' /\ FlagsTyped'
    BY <1>11, <2>1, HaltsKeepsRecords DEF ImplementerStops
  <2>3. RecordTyped'
    BY <1>11 DEF ImplementerStops, RecordTyped, Halts, EditsOrNot
  <2>4. QED BY <2>2, <2>3
<1>12. CASE ConfigureCi
  <2>1. FindingsTyped'
    BY <1>12 DEF ConfigureCi, FindingsTyped
  <2>2. RecordTyped'
    BY <1>12 DEF ConfigureCi, RecordTyped
  <2>3. FlagsTyped'
    BY <1>12 DEF ConfigureCi, FlagsTyped
  <2>4. QED BY <2>1, <2>2, <2>3
<1>13. CASE CiAuthorFails
  <2>1. requested' \in BOOLEAN
    BY <1>13 DEF CiAuthorFails, FlagsTyped
  <2>2. FindingsTyped' /\ FlagsTyped'
    BY <1>13, <2>1, HaltsKeepsRecords DEF CiAuthorFails
  <2>3. RecordTyped'
    BY <1>13 DEF CiAuthorFails, RecordTyped, Halts, EditsOrNot
  <2>4. QED BY <2>2, <2>3
<1>14. CASE Verify
  <2>1. PICK failing, violating \in BOOLEAN, rejected \in SUBSET Reviewable :
          VerifyCandidate(failing, violating, rejected)
    BY <1>14 DEF Verify
  <2>2. FindingsTyped'
    BY <1>14, <2>1 DEF Verify, VerifyCandidate, FindingsTyped, Established
  <2>3. RecordTyped'
    BY <1>14, <2>1 DEF Verify, VerifyCandidate, RecordTyped
  <2>4. /\ prohibited' \in BOOLEAN /\ uncertain' \in BOOLEAN /\ resolved' \in BOOLEAN
        /\ diffOk' \in BOOLEAN /\ checksFailing' \in BOOLEAN /\ blocking' \in BOOLEAN
    BY <2>1 DEF VerifyCandidate, FlagsTyped
  <2>5. FlagsTyped'
    BY <1>14, <2>4 DEF Verify, FlagsTyped
  <2>6. QED BY <2>2, <2>3, <2>5
<1>15. CASE InstallFails
  <2>1. FindingsTyped'
    BY <1>15 DEF InstallFails, FindingsTyped
  <2>2. RecordTyped'
    BY <1>15 DEF InstallFails, RecordTyped
  <2>3. FlagsTyped'
    BY <1>15 DEF InstallFails, FlagsTyped
  <2>4. QED BY <2>1, <2>2, <2>3
<1>16. CASE VerifierFails
  <2>1. requested' \in BOOLEAN
    BY <1>16 DEF VerifierFails, FlagsTyped
  <2>2. FindingsTyped' /\ FlagsTyped'
    BY <1>16, <2>1, HaltsKeepsRecords DEF VerifierFails
  <2>3. RecordTyped'
    BY <1>16 DEF VerifierFails, RecordTyped, Halts
  <2>4. QED BY <2>2, <2>3
<1>17. CASE PublishDraft
  <2>1. FindingsTyped'
    BY <1>17 DEF PublishDraft, FindingsTyped
  <2>2. RecordTyped'
    BY <1>17 DEF PublishDraft, RecordTyped
  <2>3. FlagsTyped'
    BY <1>17 DEF PublishDraft, FlagsTyped
  <2>4. QED BY <2>1, <2>2, <2>3
<1>18. CASE PublisherFails
  <2>1. requested' \in BOOLEAN
    BY <1>18 DEF PublisherFails, FlagsTyped
  <2>2. FindingsTyped' /\ FlagsTyped'
    BY <1>18, <2>1, HaltsKeepsRecords DEF PublisherFails
  <2>3. RecordTyped'
    BY <1>18 DEF PublisherFails, RecordTyped, Halts
  <2>4. QED BY <2>2, <2>3
<1>19. CASE Finalize
  <2>1. FindingsTyped'
    BY <1>19 DEF Finalize, FindingsTyped, Ends, Classification
  <2>2. RecordTyped'
    BY <1>19 DEF Finalize, RecordTyped, Ends, Classification
  <2>3. FlagsTyped'
    BY <1>19 DEF Finalize, FlagsTyped, Ends, Classification
  <2>4. QED BY <2>1, <2>2, <2>3
<1>20. CASE RecursionLimit
  <2>1. FindingsTyped'
    BY <1>20 DEF RecursionLimit, FindingsTyped, Ends, Classification
  <2>2. RecordTyped'
    BY <1>20 DEF RecursionLimit, RecordTyped, Ends, Classification
  <2>3. FlagsTyped'
    BY <1>20 DEF RecursionLimit, FlagsTyped, Ends, Classification
  <2>4. QED BY <2>1, <2>2, <2>3
<1>21. CASE UNCHANGED vars
  BY <1>21 DEF vars, FindingsTyped, RecordTyped, FlagsTyped
<1>22. QED
  BY <1>1, <1>2, <1>3, <1>4, <1>5, <1>6, <1>7, <1>8, <1>9, <1>10, <1>11, <1>12, <1>13,
     <1>14, <1>15, <1>16, <1>17, <1>18, <1>19, <1>20, <1>21 DEF Next

-----------------------------------------------------------------------------
\* Type correctness.

LEMMA InitShape == Init => Shape
<1> SUFFICES ASSUME Init PROVE Shape OBVIOUS
<1>1. Budget \in Nat
  BY BudgetIsNat DEF Init
<1>2. ControlTyped
  BY <1>1 DEF Init, ControlTyped, Phases
<1>3. FindingsTyped /\ RecordTyped /\ FlagsTyped /\ PrologueIsFresh
  BY DEF Init, FindingsTyped, RecordTyped, FlagsTyped, PrologueIsFresh
<1>4. QED BY <1>2, <1>3 DEF Shape

LEMMA StepShape ==
  ASSUME Shape, [Next]_vars
  PROVE  Shape'
<1>1. ControlTyped' /\ FindingsTyped' /\ RecordTyped' /\ FlagsTyped'
  BY ControlStep, DataStep DEF Shape
<1>2. PrologueIsFresh'
  <2>1. SUFFICES ASSUME node' \in Prologue, ~UNCHANGED vars
                 PROVE  PrologueIsFresh'
    BY DEF PrologueIsFresh, Prologue, Shape, vars, control, research, coverage, progress,
           verdict, approval, outcome
  <2>2. Inspect \/ BaselineVerify
    BY <2>1, ControlStep, SelectableIsRoutable
       DEF Shape, Successor, Prologue, RoutableActions
  <2>3. node \in Prologue
    BY <2>2 DEF Inspect, BaselineVerify, Visit, Prologue
  <2>4. QED
    BY <2>2, <2>3 DEF Shape, PrologueIsFresh, Inspect, BaselineVerify, research, coverage,
                      progress, verdict, approval, outcome
<1>3. QED BY <1>1, <1>2 DEF Shape

\* Every state of every run is well formed: no move is illegal, and what is recorded
\* of a finding is recorded of a finding research returned.
THEOREM TypeCorrect == Spec => []TypeOK
<1>1. Shape => TypeOK BY ShapeIsTyped
<1>2. Shape /\ [Next]_vars => Shape' BY StepShape
<1>3. QED BY InitShape, <1>1, <1>2, PTL DEF Spec

\* A worker that serves two phases is told which one it is in.
THEOREM PhaseIsCurrent == Spec => []PhaseNamesTheVisit
<1>1. Init => PhaseNamesTheVisit
  BY DEF Init, PhaseNamesTheVisit
<1>2. Shape /\ PhaseNamesTheVisit /\ [Next]_vars => (Shape /\ PhaseNamesTheVisit)'
  BY StepShape, ControlStep DEF Shape, PhaseNamesTheVisit, vars, control
<1>3. QED BY InitShape, <1>1, <1>2, PTL DEF Spec

-----------------------------------------------------------------------------
\* The safety invariant.

\* A worker runs only while routing would offer it: nothing the rules read changes
\* between the choice and the visit.
VisitIsOffered == \A a \in WorkerActions : node = a => Offered(a)

\* Once the branch is pushed, the run is over.
PublicationIsLast ==
  publication # "none" =>
    options.draft /\ lastVerification = "passed" /\ node \in {"finalize", "end"}

\* Only an ESM move that nothing else forestalls asks, and only a grant gets past it.
AskedForEsm  == requested => EsmMoves # {} /\ ForAPerson = {}
EsmByGrant   == EsmMoves \cap addressed # {} => options.granted
MovedByGrant == moved /\ EsmMoves # {} /\ ForAPerson = {} => options.granted

WritesFollowTheMove ==
  /\ "implementer" \in changes => moved
  /\ "ci_author" \in changes => Unresolved = {}

PendingIsWaiting == pending => requested /\ ~options.granted

Safety ==
  /\ Shape /\ VisitIsOffered /\ PassCoversTheMove /\ PublicationIsLast
  /\ AskedForEsm /\ EsmByGrant /\ MovedByGrant /\ WritesFollowTheMove /\ PendingIsWaiting

LEMMA InitSafety == Init => Safety
<1> SUFFICES ASSUME Init PROVE Safety OBVIOUS
<1>1. Shape BY InitShape
<1>2. VisitIsOffered BY DEF Init, VisitIsOffered, WorkerActions, ActionWorker
<1>3. QED
  BY <1>1, <1>2 DEF Init, Safety, PassCoversTheMove, PublicationIsLast, AskedForEsm,
       EsmByGrant, MovedByGrant, WritesFollowTheMove, PendingIsWaiting

LEMMA WorkerActionsAre ==
  WorkerActions = {"assess_verification", "author_tests", "implement", "configure_ci",
                   "verify", "publish_draft"}
BY DEF WorkerActions, ActionWorker

\* What offering an action means, rule by rule.
LEMMA OfferedMeans ==
  /\ Offered("implement") => MayImplement /\ ~AwaitingApproval("implementer")
  /\ Offered("configure_ci") => MayConfigureCi
  /\ Offered("verify") => MayVerify
  /\ Offered("publish_draft") => MayPublish
  /\ options.assessmentOnly =>
       \A a \in WorkerActions : Offered(a) => a = "assess_verification"
<1>1. /\ Rule["implement"] = MayImplement /\ Rule["configure_ci"] = MayConfigureCi
      /\ Rule["verify"] = MayVerify /\ Rule["publish_draft"] = MayPublish
  BY DEF Rule
<1>2. ActionWorker["implement"] = "implementer"
  BY DEF ActionWorker
<1>3. QED BY <1>1, <1>2, WorkerActionsAre DEF Offered, WithinAttempts

\* What the rules of the workers read; routing leaves all of it alone.
RuleState == <<options, attempts, requested, findings, assessed, uncovered, verifiedIds,
               changes, moved, addressed, lastVerification, publication, ciAssessed>>

LEMMA OffersDependOnRuleState ==
  ASSUME UNCHANGED RuleState, NEW a \in WorkerActions, Offered(a)
  PROVE  Offered(a)'
<1> USE DEF RuleState
<1>1. Rule[a]' <=> Rule[a]
  <2>1. Unverified' = Unverified /\ Unresolved' = Unresolved
    BY DEF Unverified, Unresolved
  <2>2. TestsGoFirst' <=> TestsGoFirst
    BY <2>1 DEF TestsGoFirst
  <2>3. (MayAssess' <=> MayAssess) /\ (MayAuthor' <=> MayAuthor)
    BY <2>1 DEF MayAssess, MayAuthor, Sufficient
  <2>4. (MayImplement' <=> MayImplement) /\ (MayPublish' <=> MayPublish)
    BY <2>1, <2>2 DEF MayImplement, MayPublish
  <2>5. (MayVerify' <=> MayVerify) /\ (MayConfigureCi' <=> MayConfigureCi)
    BY <2>1 DEF MayVerify, MayConfigureCi
  <2>6. QED BY <2>2, <2>3, <2>4, <2>5, WorkerActionsAre DEF Rule
<1>2. QED BY <1>1 DEF Offered, WithinAttempts, AwaitingApproval

LEMMA SelectableIsOffered ==
  ASSUME NEW a \in Selectable, a # "finalize"
  PROVE  Offered(a)
BY DEF Selectable, Eligible, DeterministicFallback, IsFirstEligible

LEMMA StepVisits ==
  ASSUME Safety, [Next]_vars
  PROVE  VisitIsOffered'
<1> SUFFICES ASSUME NEW a \in WorkerActions, node' = a PROVE Offered(a)'
  BY WorkerActionsAre DEF VisitIsOffered, WorkerActions
<1>1. a \in RoutableActions \ {"finalize"}
  BY WorkerActionsAre DEF RoutableActions
<1>2. UNCHANGED vars \/ Route
  BY <1>1, ControlStep DEF Safety, Shape, Successor, RoutableActions
<1>3. UNCHANGED RuleState
  BY <1>2 DEF RuleState, Route, vars, control, research, coverage, progress, verdict, stops,
              approval, outcome
<1>4. Offered(a)
  <2>1. CASE UNCHANGED vars
    BY <2>1 DEF vars, control, Safety, VisitIsOffered
  <2>2. CASE Route
    <3>1. PICK b \in Selectable : Leave("route", b)
      BY <2>2 DEF Route
    <3>2. a = b
      BY <1>1, <2>2, <3>1, LeaveIsLegal, SelectableIsRoutable, Edges
         DEF Route, Leave, Phases, RoutableActions, Safety, Shape
    <3>3. QED BY <1>1, <3>2, SelectableIsOffered
  <2>3. QED BY <1>2, <2>1, <2>2
<1>5. QED BY <1>3, <1>4, OffersDependOnRuleState

\* A finding is of one kind, and a rule that looks for one kind leaves the others alone.
LEMMA KindsAreApart ==
  /\ EsmMoves \cap (ForAPerson \cup NoWrites \cup Renames) = {}
  /\ EsmMoves \cap {f \in findings : Kind[f] = "node"} = {}
BY DEF EsmMoves, ForAPerson, NoWrites, Renames, Esm, NeedsHuman, NoSource, Renamed

\* What each way through the implementer presupposes.
LEMMA ApproachMeans ==
  /\ Approach = "model" => ForAPerson # {}
  /\ Approach = "move" => EsmMoves = {}
  /\ Approach = "convert" => EsmMoves # {} /\ ForAPerson = {} /\ options.granted
  /\ Approach = "ask" => EsmMoves # {} /\ ForAPerson = {}
BY DEF Approach

\* What one visit to the implementer may do.
LEMMA ImplementDoes ==
  ASSUME Implement
  PROVE  /\ node = "implement"
         /\ UNCHANGED <<options, findings, verdict, pending>>
         /\ addressed \subseteq addressed'
         /\ changes' \in {changes, changes \cup {"implementer"}}
         /\ moved => moved'
         /\ requested => requested'
         /\ \/ Approach = "model" /\ requested' = requested /\ moved'
               /\ addressed' = addressed \cup ForAPerson \cup NoWrites \cup Renames
            \/ Approach = "move" /\ requested' = requested /\ moved'
               /\ addressed' = addressed \cup NoWrites \cup Renames
            \/ Approach = "convert" /\ moved'
            \/ Approach = "ask" /\ UNCHANGED progress
BY DEF Implement, ApplyModelMigration, MoveDependencyOnly, MigrateToEsm, RequestElevation,
       Migrates, research, verdict, progress, Visit

LEMMA ConfigureCiDoes ==
  ASSUME ConfigureCi
  PROVE  /\ node = "configure_ci"
         /\ UNCHANGED <<options, findings, verdict, moved, requested, pending>>
         /\ addressed \subseteq addressed'
         /\ addressed' \subseteq addressed \cup {f \in findings : Kind[f] = "node"}
         /\ changes' \in {changes, changes \cup {"ci_author"}}
BY DEF ConfigureCi, research, verdict, progress, approval, Visit

\* Research only ever runs on a fresh record.
LEMMA ResearchIsFresh ==
  ASSUME Safety, Research
  PROVE  /\ addressed' = {} /\ changes' = {} /\ ~moved' /\ ~requested'
         /\ lastVerification' = "not_run" /\ publication' = "none"
BY DEF Safety, Shape, PrologueIsFresh, Prologue, Research, Visit, progress, verdict, approval,
       outcome

LEMMA FinalizeEnds ==
  ASSUME node \in {"finalize", "end"}, Next
  PROVE  node = "finalize" /\ (Finalize \/ RecursionLimit)
BY DEF Next, Visit, RejectRequest, Inspect, BaselineVerify, Research, PrologueFails, Route,
       AssessVerification, AuthorTests, TestAuthorFails, Implement, ImplementerStops,
       ConfigureCi, CiAuthorFails, Verify, InstallFails, VerifierFails, PublishDraft,
       PublisherFails, Finalize, RecursionLimit

LEMMA StepPass ==
  ASSUME Safety, [Next]_vars
  PROVE  PassCoversTheMove'
<1> SUFFICES ASSUME lastVerification' = "passed"
             PROVE  moved' /\ Unresolved' = {} /\ diffOk' /\ ~checksFailing'
  BY DEF PassCoversTheMove
<1>1. CASE Research
  BY <1>1, ResearchIsFresh
<1>2. CASE Verify
  <2>1. PICK failing, violating \in BOOLEAN, rejected \in SUBSET Reviewable :
          VerifyCandidate(failing, violating, rejected)
    BY <1>2 DEF Verify
  <2>2. ~failing /\ ~violating /\ resolved' /\ moved
    BY <2>1 DEF VerifyCandidate
  <2>3. UNCHANGED <<findings, addressed, moved>> /\ MayVerify
    BY <1>2, OfferedMeans, WorkerActionsAre
       DEF Verify, Visit, research, Safety, VisitIsOffered
  <2>4. QED BY <2>1, <2>2, <2>3 DEF VerifyCandidate, MayVerify, Unresolved
<1>3. CASE InstallFails
  BY <1>3 DEF InstallFails
<1>4. CASE Implement
  BY <1>4, ImplementDoes DEF Safety, PassCoversTheMove, Unresolved, verdict
<1>5. CASE ConfigureCi
  BY <1>5, ConfigureCiDoes DEF Safety, PassCoversTheMove, Unresolved, verdict
<1>6. CASE UNCHANGED <<findings, addressed, moved, verdict>>
  BY <1>6 DEF Safety, PassCoversTheMove, Unresolved, verdict
<1>7. QED BY <1>1, <1>2, <1>3, <1>4, <1>5, <1>6, WhoWrites

LEMMA StepPublication ==
  ASSUME Safety, [Next]_vars
  PROVE  PublicationIsLast'
<1> SUFFICES ASSUME publication' # "none"
             PROVE  /\ options'.draft /\ lastVerification' = "passed"
                    /\ node' \in {"finalize", "end"}
  BY DEF PublicationIsLast
<1>1. CASE PublishDraft \/ PublisherFails
  <2>1. node = "publish_draft" /\ UNCHANGED <<options, lastVerification>>
    BY <1>1 DEF PublishDraft, PublisherFails, Visit, Halts, verdict
  <2>2. options.draft /\ lastVerification = "passed"
    BY <2>1, OfferedMeans, WorkerActionsAre DEF Safety, VisitIsOffered, MayPublish
  <2>3. node' = "finalize"
    <3>1. CASE PublishDraft
      BY <3>1, CompletesIsTyped, Edges DEF PublishDraft, Phases, Workers, RoutableActions, Safety, Shape
    <3>2. CASE PublisherFails
      BY <3>2, HaltsIsTyped, Edges DEF PublisherFails, Phases, Workers, RoutableActions, Safety, Shape
    <3>3. QED BY <1>1, <3>1, <3>2
  <2>4. QED BY <2>1, <2>2, <2>3
<1>2. CASE UNCHANGED publication
  <2>1. options.draft /\ lastVerification = "passed" /\ node \in {"finalize", "end"}
    BY <1>2 DEF Safety, PublicationIsLast
  <2>2. UNCHANGED vars \/ Finalize \/ RecursionLimit
    BY <2>1, FinalizeEnds
  <2>3. UNCHANGED <<options, lastVerification>> /\ node' \in {node, "end"}
    BY <2>2 DEF vars, control, verdict, Finalize, RecursionLimit, Ends
  <2>4. QED BY <2>1, <2>3
<1>3. QED BY <1>1, <1>2, WhoWrites

LEMMA StepApproval ==
  ASSUME Safety, [Next]_vars
  PROVE  AskedForEsm' /\ EsmByGrant' /\ MovedByGrant' /\ PendingIsWaiting'
<1> USE DEF Safety, AskedForEsm, EsmByGrant, MovedByGrant, PendingIsWaiting
<1>1. UNCHANGED findings => UNCHANGED <<EsmMoves, ForAPerson>>
  BY DEF EsmMoves, ForAPerson
<1>2. CASE Research
  BY <1>2, ResearchIsFresh, WhoWrites DEF Research, approval
<1>3. CASE Implement
  BY <1>1, <1>3, ImplementDoes, ApproachMeans, KindsAreApart DEF progress
<1>4. CASE ImplementerStops
  <2>1. /\ UNCHANGED <<options, findings, addressed, moved, pending>>
        /\ requested' # requested => Approach = "convert"
        /\ requested => requested'
    BY <1>4 DEF ImplementerStops, Halts, research
  <2>2. QED BY <1>1, <2>1, ApproachMeans
<1>5. CASE ConfigureCi
  BY <1>1, <1>5, ConfigureCiDoes, KindsAreApart
<1>6. CASE Route
  BY <1>1, <1>6 DEF Route, research, progress
<1>7. CASE UNCHANGED <<options, findings, addressed, moved, requested, pending>>
  BY <1>1, <1>7
<1>8. QED BY <1>2, <1>3, <1>4, <1>5, <1>6, <1>7, WhoWrites

LEMMA StepWrites ==
  ASSUME Safety, [Next]_vars
  PROVE  WritesFollowTheMove'
<1> USE DEF Safety, WritesFollowTheMove, Unresolved
<1>1. CASE Research
  BY <1>1, ResearchIsFresh
<1>2. CASE Implement
  BY <1>2, ImplementDoes DEF progress
<1>3. CASE ConfigureCi
  <2>1. MayConfigureCi
    BY <1>3, ConfigureCiDoes, OfferedMeans, WorkerActionsAre DEF VisitIsOffered
  <2>2. QED BY <1>3, <2>1, ConfigureCiDoes DEF MayConfigureCi
<1>4. CASE AuthorTests
  BY <1>4 DEF AuthorTests, research
<1>5. CASE UNCHANGED <<findings, addressed, moved, changes>>
  BY <1>5
<1>6. QED BY <1>1, <1>2, <1>3, <1>4, <1>5, WhoWrites

LEMMA StepSafety ==
  ASSUME Safety, [Next]_vars
  PROVE  Safety'
<1>1. Shape' BY StepShape DEF Safety
<1>2. QED
  BY <1>1, StepVisits, StepPass, StepPublication, StepApproval, StepWrites DEF Safety

LEMMA SafetyHolds == Spec => []Safety
<1>1. Safety /\ [Next]_vars => Safety' BY StepSafety
<1>2. QED BY InitSafety, <1>1, PTL DEF Spec

\* A passing verification covers a moved dependency with no source change outstanding, to
\* the end of the run, whichever actions are chosen.
THEOREM PassCovers == Spec => []PassCoversTheMove
<1>1. Safety => PassCoversTheMove BY DEF Safety
<1>2. QED BY SafetyHolds, <1>1, PTL

-----------------------------------------------------------------------------
\* The superstep budget: an account of the supersteps taken, kept in terms of the
\* attempts spent.

\* The workers routing hands out, whose attempts are capped.
Routed == {"test_author", "implementer", "ci_author", "verifier", "publisher"}

Spent ==
  attempts["test_author"] + attempts["implementer"] + attempts["ci_author"]
    + attempts["verifier"] + attempts["publisher"]

Cap == options.maxWorkerAttempts

\* Three supersteps of prologue; then each attempt costs one to route and one to work.
BudgetAccount ==
  /\ \A w \in Routed : attempts[w] <= Cap
  /\ node = "inspect" => step = 0 /\ Spent = 0
  /\ node = "baseline_verify" => step = 1 /\ Spent = 0
  /\ node = "research" => step = 2 /\ Spent = 0
  /\ node = "route" => step = 3 + 2 * Spent
  /\ node \in WorkerActions => step = 4 + 2 * Spent
  /\ node = "finalize" => step <= 4 + 2 * Spent

LEMMA InitBudget == Init => BudgetAccount
<1> SUFFICES ASSUME Init PROVE BudgetAccount OBVIOUS
<1>1. Cap \in Nat BY OptionsAssumption DEF Init, Options, Cap
<1>2. \A w \in Workers : attempts[w] = 0 BY DEF Init
<1>3. Spent = 0 BY <1>2 DEF Spent, Workers
<1>4. QED
  BY <1>1, <1>2, <1>3, WorkerActionsAre DEF Init, BudgetAccount, Routed, Workers

LEMMA CountsAreNat ==
  ASSUME Safety
  PROVE  /\ Cap \in Nat /\ step \in Nat /\ Spent \in Nat
         /\ \A w \in Workers : attempts[w] \in Nat
<1>1. Cap \in Nat
  BY OptionsAssumption DEF Safety, Shape, ControlTyped, Options, Cap
<1>2. Budget \in Nat
  BY BudgetIsNat DEF Safety, Shape, ControlTyped
<1>3. step \in Nat /\ \A w \in Workers : attempts[w] \in Nat
  BY <1>2 DEF Safety, Shape, ControlTyped
<1>4. Spent \in Nat
  BY <1>3 DEF Spent, Workers
<1>5. QED BY <1>1, <1>3, <1>4

\* An attempt by a routed worker is one more spent, and is within the cap when the worker
\* was offered; an attempt by another worker is not counted.
LEMMA RoutedAttempt ==
  ASSUME Safety, NEW w \in Routed, Attempt(w)
  PROVE  /\ Spent' = Spent + 1
         /\ \A x \in Routed : attempts'[x] = IF x = w THEN attempts[x] + 1 ELSE attempts[x]
<1>1. \A x \in Workers : attempts'[x] = IF x = w THEN attempts[x] + 1 ELSE attempts[x]
  BY DEF Attempt, Safety, Shape, ControlTyped
<1>2. QED BY <1>1, CountsAreNat DEF Spent, Routed, Workers

LEMMA PrologueAttempt ==
  ASSUME Safety, NEW w \in Workers \ Routed, Attempt(w)
  PROVE  Spent' = Spent /\ \A x \in Routed : attempts'[x] = attempts[x]
BY DEF Attempt, Safety, Shape, ControlTyped, Spent, Routed, Workers

LEMMA OfferedIsWithinCap ==
  ASSUME Safety, node \in WorkerActions
  PROVE  ActionWorker[node] \in Routed /\ attempts[ActionWorker[node]] < Cap
<1>1. Offered(node) BY DEF Safety, VisitIsOffered
<1>2. attempts[ActionWorker[node]] < Cap BY <1>1 DEF Offered, WithinAttempts, Cap
<1>3. QED BY <1>2, WorkerActionsAre DEF ActionWorker, Routed

LEMMA WorkerCounts ==
  ASSUME Safety, BudgetAccount, node \in WorkerActions, Attempt(ActionWorker[node]),
         step' = step + 1, UNCHANGED options, node' \in {"route", "finalize"}
  PROVE  BudgetAccount'
<1> DEFINE w == ActionWorker[node]
<1>1. w \in Routed /\ attempts[w] < Cap
  BY OfferedIsWithinCap
<1>2. /\ Spent' = Spent + 1
      /\ \A x \in Routed : attempts'[x] = IF x = w THEN attempts[x] + 1 ELSE attempts[x]
  BY <1>1, RoutedAttempt
<1>3. Cap' = Cap BY DEF Cap
<1>4. \A x \in Routed : attempts'[x] <= Cap'
  BY <1>1, <1>2, <1>3, CountsAreNat DEF BudgetAccount, Routed, Workers
<1>5. step' = 3 + 2 * Spent'
  BY <1>2, CountsAreNat DEF BudgetAccount
<1>6. step' <= 4 + 2 * Spent' /\ node' \notin WorkerActions
  BY <1>2, <1>5, CountsAreNat, WorkerActionsAre
<1>7. WorkerActions' = WorkerActions BY DEF WorkerActions
<1>8. QED BY <1>4, <1>5, <1>6, <1>7 DEF BudgetAccount

\* How a worker is left, whether it completes or halts.
LEMMA LeavesWorker ==
  ASSUME Safety, NEW n \in WorkerActions,
         NEW successor \in Transitions[n], Visit(n),
         \/ UNCHANGED options /\ Completes(ActionWorker[n], n, successor)
         \/ Halts(ActionWorker[n], n, successor)
  PROVE  /\ node = n /\ Attempt(ActionWorker[n]) /\ step' = step + 1
         /\ UNCHANGED options /\ node' \in {successor, "finalize"}
<1>1. n \in Phases \ {"finalize"} /\ successor \in Phases
  BY Edges, WorkerActionsAre DEF Phases, RoutableActions
<1>2. CASE UNCHANGED options /\ Completes(ActionWorker[n], n, successor)
  BY <1>1, <1>2, LeaveIsLegal DEF Completes, Visit, Safety, Shape
<1>3. CASE Halts(ActionWorker[n], n, successor)
  <2>1. PICK intended \in {n, successor} : Leave(n, intended)
    BY <1>3 DEF Halts
  <2>2. UNCHANGED options /\ blocking'
    BY <1>3 DEF Halts
  <2>3. node' = "finalize" /\ step' = step + 1
    BY <1>1, <2>1, <2>2, LeaveIsLegal DEF Safety, Shape
  <2>4. QED BY <1>3, <2>2, <2>3 DEF Halts, Visit
<1>4. QED BY <1>2, <1>3

LEMMA PrologueCounts ==
  ASSUME Safety, BudgetAccount, NEW w \in Workers \ Routed, Attempt(w),
         step' = step + 1, UNCHANGED options,
         \/ node \in Prologue /\ node' = "finalize"
         \/ node = "inspect" /\ node' \in {"baseline_verify", "finalize"}
         \/ node = "baseline_verify" /\ node' \in {"research", "finalize"}
         \/ node = "research" /\ node' \in {"route", "finalize"}
  PROVE  BudgetAccount'
<1>1. Spent' = Spent /\ \A x \in Routed : attempts'[x] = attempts[x]
  BY PrologueAttempt
<1>2. Cap' = Cap /\ WorkerActions' = WorkerActions BY DEF Cap, WorkerActions
<1>3. QED BY <1>1, <1>2, WorkerActionsAre, CountsAreNat DEF BudgetAccount, Prologue

LEMMA StepBudget ==
  ASSUME Safety, BudgetAccount, [Next]_vars
  PROVE  BudgetAccount'
<1>1. /\ ActionWorker["assess_verification"] = "test_author"
      /\ ActionWorker["author_tests"] = "test_author"
      /\ ActionWorker["implement"] = "implementer"
      /\ ActionWorker["configure_ci"] = "ci_author"
      /\ ActionWorker["verify"] = "verifier"
      /\ ActionWorker["publish_draft"] = "publisher"
  BY DEF ActionWorker
<1> USE WorkerActionsAre, Edges
<1>2. CASE AssessVerification
  BY <1>1, <1>2, LeavesWorker, WorkerCounts DEF AssessVerification
<1>3. CASE AuthorTests
  BY <1>1, <1>3, LeavesWorker, WorkerCounts DEF AuthorTests
<1>4. CASE Implement
  BY <1>1, <1>4, LeavesWorker, WorkerCounts DEF Implement
<1>5. CASE ImplementerStops
  BY <1>1, <1>5, LeavesWorker, WorkerCounts DEF ImplementerStops
<1>6. CASE ConfigureCi
  BY <1>1, <1>6, LeavesWorker, WorkerCounts DEF ConfigureCi
<1>7. CASE CiAuthorFails
  BY <1>1, <1>7, LeavesWorker, WorkerCounts DEF CiAuthorFails
<1>8. CASE Verify
  BY <1>1, <1>8, LeavesWorker, WorkerCounts DEF Verify
<1>9. CASE InstallFails
  BY <1>1, <1>9, LeavesWorker, WorkerCounts DEF InstallFails
<1>10. CASE VerifierFails
  BY <1>1, <1>10, LeavesWorker, WorkerCounts DEF VerifierFails
<1>11. CASE PublishDraft
  BY <1>1, <1>11, LeavesWorker, WorkerCounts DEF PublishDraft
<1>12. CASE PublisherFails
  BY <1>1, <1>12, LeavesWorker, WorkerCounts DEF PublisherFails
<1>13. CASE TestAuthorFails
  <2>1. \/ Visit("assess_verification") /\ Halts("test_author", "assess_verification", "route")
        \/ Visit("author_tests") /\ Halts("test_author", "author_tests", "route")
    BY <1>13 DEF TestAuthorFails
  <2>2. QED BY <1>1, <2>1, LeavesWorker, WorkerCounts
<1>14. CASE Route
  <2>1. PICK a \in Selectable : Leave("route", a)
    BY <1>14 DEF Route
  <2>2. /\ node = "route" /\ step' = step + 1 /\ node' \in RoutableActions
        /\ UNCHANGED <<options, attempts>>
    BY <1>14, <2>1, LeaveIsLegal, SelectableIsRoutable
       DEF Route, Visit, Phases, RoutableActions, Safety, Shape
  <2>3. Spent' = Spent /\ Cap' = Cap /\ WorkerActions' = WorkerActions
    BY <2>2 DEF Spent, Cap, WorkerActions
  <2>4. QED BY <2>2, <2>3, CountsAreNat DEF BudgetAccount, RoutableActions
<1>15. CASE Inspect
  <2>1. /\ node = "inspect" /\ Attempt("inspector") /\ step' = step + 1 /\ UNCHANGED options
        /\ node' \in {"baseline_verify", "finalize"}
    BY <1>15, LeaveIsLegal
       DEF Inspect, Completes, Visit, Safety, Shape, Phases, RoutableActions
  <2>2. QED BY <2>1, PrologueCounts DEF Workers, Routed
<1>16. CASE BaselineVerify
  <2>1. /\ node = "baseline_verify" /\ Attempt("inspector") /\ step' = step + 1 /\ UNCHANGED options
        /\ node' \in {"research", "finalize"}
    BY <1>16, LeaveIsLegal
       DEF BaselineVerify, Completes, Visit, Safety, Shape, Phases, RoutableActions
  <2>2. QED BY <2>1, PrologueCounts DEF Workers, Routed
<1>17. CASE Research
  <2>1. /\ node = "research" /\ Attempt("researcher") /\ step' = step + 1 /\ UNCHANGED options
        /\ node' \in {"route", "finalize"}
    BY <1>17, LeaveIsLegal
       DEF Research, Completes, Visit, Safety, Shape, Phases, RoutableActions
  <2>2. QED BY <2>1, PrologueCounts DEF Workers, Routed
<1>18. CASE PrologueFails
  <2>1. PICK n \in Prologue, w \in {"inspector", "researcher"}, s \in Phases :
          /\ Visit(n) /\ Halts(w, n, s) /\ s \in Transitions[n]
    BY <1>18 DEF PrologueFails, Prologue, Phases
  <2>2. PICK intended \in {n, s} : Leave(n, intended)
    BY <2>1 DEF Halts
  <2>3. /\ node = n /\ Attempt(w) /\ step' = step + 1 /\ UNCHANGED options
        /\ node' = "finalize"
    BY <2>1, <2>2, LeaveIsLegal
       DEF Halts, Visit, Safety, Shape, Phases, RoutableActions, Prologue
  <2>4. QED BY <2>3, PrologueCounts DEF Prologue, Workers, Routed
<1>19. CASE RejectRequest
  <2>1. /\ node = "inspect" /\ step' = step + 1 /\ UNCHANGED <<options, attempts>>
        /\ node' = "finalize"
    BY <1>19, LeaveIsLegal DEF RejectRequest, Visit, Safety, Shape, ControlTyped, Phases
  <2>2. Spent' = Spent /\ Cap' = Cap /\ WorkerActions' = WorkerActions
    BY <2>1 DEF Spent, Cap, WorkerActions
  <2>3. QED BY <2>1, <2>2, CountsAreNat DEF BudgetAccount
<1>20. CASE Finalize \/ RecursionLimit
  <2>1. UNCHANGED <<options, attempts>> /\ node' = "end"
    BY <1>20 DEF Finalize, RecursionLimit, Ends
  <2>2. Cap' = Cap /\ WorkerActions' = WorkerActions
    BY <2>1 DEF Cap, WorkerActions
  <2>3. QED BY <2>1, <2>2 DEF BudgetAccount
<1>21. CASE UNCHANGED vars
  BY <1>21 DEF vars, control, BudgetAccount, Spent, Cap, WorkerActions
<1>22. QED
  BY <1>2, <1>3, <1>4, <1>5, <1>6, <1>7, <1>8, <1>9, <1>10, <1>11, <1>12, <1>13, <1>14,
     <1>15, <1>16, <1>17, <1>18, <1>19, <1>20, <1>21 DEF Next

\* LangGraph's recursion limit is never what stops a run that may attempt anything.
THEOREM BudgetAlwaysSuffices == Spec => []BudgetSuffices
<1>1. Safety /\ BudgetAccount => BudgetSuffices
  <2> SUFFICES ASSUME Safety, BudgetAccount, Cap > 0, node # "end" PROVE step < Budget
    BY DEF BudgetSuffices, Cap
  <2>1. node \in Phases
    BY DEF Safety, Shape, ControlTyped
  <2>2. step <= 4 + 2 * Spent
    BY <2>1, WorkerActionsAre, CountsAreNat DEF BudgetAccount, Phases, RoutableActions
  <2>3. Spent <= 5 * Cap
    BY CountsAreNat DEF BudgetAccount, Spent, Routed, Workers
  <2>4. QED BY <2>2, <2>3, CountsAreNat DEF Budget, Cap
<1>2. Safety /\ BudgetAccount /\ [Next]_vars => BudgetAccount'
  BY StepBudget
<1>3. QED BY InitBudget, SafetyHolds, <1>1, <1>2, PTL DEF Spec

\* No node is taken for nothing: each costs one of the supersteps the budget counts, and a
\* classified run takes none.  As `step` never exceeds the budget (TypeCorrect), a run has
\* at most one step more than that (build-graph.ts; nodes.ts, transitionTo).
THEOREM EveryStepIsCounted ==
  Spec => [][node # "end" /\ (step' = step + 1 \/ (node' = "end" /\ step' = step))]_vars
<1>1. ASSUME Next PROVE step' = step + 1 \/ (node' = "end" /\ step' = step)
  <2> USE DEF Completes, Halts, Leave
  <2>1. CASE RejectRequest \/ Inspect \/ BaselineVerify \/ Research \/ PrologueFails
    BY <2>1 DEF RejectRequest, Inspect, BaselineVerify, Research, PrologueFails
  <2>2. CASE Route
    BY <2>2 DEF Route
  <2>3. CASE AssessVerification \/ AuthorTests \/ TestAuthorFails
    BY <2>3 DEF AssessVerification, AuthorTests, ConvertsTests, TestAuthorFails
  <2>4. CASE Implement \/ ImplementerStops
    BY <2>4 DEF Implement, ApplyModelMigration, MoveDependencyOnly, MigrateToEsm,
       RequestElevation, ImplementerStops
  <2>5. CASE ConfigureCi \/ CiAuthorFails
    BY <2>5 DEF ConfigureCi, CiAuthorFails
  <2>6. CASE Verify \/ InstallFails \/ VerifierFails
    BY <2>6 DEF Verify, VerifyCandidate, InstallFails, VerifierFails
  <2>7. CASE PublishDraft \/ PublisherFails
    BY <2>7 DEF PublishDraft, PublisherFails
  <2>8. CASE Finalize \/ RecursionLimit
    BY <2>8 DEF Finalize, RecursionLimit, Ends
  <2>9. QED BY <1>1, <2>1, <2>2, <2>3, <2>4, <2>5, <2>6, <2>7, <2>8 DEF Next
<1>2. ASSUME Next PROVE node # "end"
  BY <1>2, FinalizeEnds
<1>3. [Next]_vars =>
        [node # "end" /\ (step' = step + 1 \/ (node' = "end" /\ step' = step))]_vars
  BY <1>1, <1>2
<1>4. QED BY <1>3, PTL DEF Spec
=============================================================================
