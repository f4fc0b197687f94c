----------------------- MODULE UpgradeRunOutcomeProofs -----------------------
(***************************************************************************)
(* How a run ends: what its classification and its draft owe to the steps  *)
(* before, whatever the engine answers, and what they owe to the fixed     *)
(* order where no engine is asked.  The safety invariant and the account   *)
(* of UpgradeRunProofs are assumed in every state.                         *)
(***************************************************************************)
EXTENDS UpgradeRunProofs, SequenceTheorems, WellFoundedInduction

-----------------------------------------------------------------------------
\* The parts of the invariant.

\* A recorded stop leaves nothing but finalize.
StopIsObeyed == Stopped => node \in {"finalize", "end"}

\* A run is classified in its last step and only there.
ResultIsLast == result # "none" <=> node = "end"

BaselineIsOnRecord ==
  baseline = "none" => node \in {"inspect", "baseline_verify", "end"} \/ Stopped

\* Routing reports an outstanding approval before it lets the run finalize.
WaitIsReported ==
  node = "finalize" /\ ~Stopped /\ requested /\ ~options.granted => pending

VerifiedIdsFollowAPass == verifiedIds # {} => lastVerification = "passed"

\* An ESM move that left a test file behind says so.
LeftoversAreKnown == EsmMoves \cap addressed # {} /\ testsPending => uncertain

\* What the classification owes to the rest of the record.
ResultAgrees ==
  /\ requested /\ ~options.granted => result \in {"none", "human_required", "blocked"}
  /\ result = "human_required" => lastVerification # "passed"
  /\ Stopped /\ result # "none" => result = "blocked"
  /\ VerifiedWasEstablished

Ending ==
  /\ StopIsObeyed /\ ResultIsLast /\ BaselineIsOnRecord /\ WaitIsReported
  /\ VerifiedIdsFollowAPass /\ LeftoversAreKnown /\ ResultAgrees

LEMMA InitEnding == Init => Ending
BY DEF Init, Ending, StopIsObeyed, ResultIsLast, BaselineIsOnRecord, WaitIsReported,
       VerifiedIdsFollowAPass, LeftoversAreKnown, ResultAgrees, VerifiedWasEstablished, Stopped

-----------------------------------------------------------------------------
\* Consequences of the safety invariant in one state.

\* As long as an approval is outstanding the ESM finding is unresolved, and so nothing that
\* presupposes a resolved finding has happened.
LEMMA WaitingHasNotMoved ==
  ASSUME Safety, requested, ~options.granted
  PROVE  /\ ~moved /\ changes \subseteq {"test_author"} /\ lastVerification # "passed"
         /\ publication = "none" /\ Unresolved # {}
<1>1. EsmMoves # {} /\ ForAPerson = {} /\ EsmMoves \cap addressed = {} /\ ~moved
  BY DEF Safety, AskedForEsm, EsmByGrant, MovedByGrant
<1>2. EsmMoves \subseteq Unresolved
  BY <1>1 DEF EsmMoves, Unresolved, Esm, NoSource
<1>3. changes \subseteq {"test_author"}
  BY <1>1, <1>2 DEF Safety, Shape, RecordTyped, WritesFollowTheMove
<1>4. lastVerification # "passed" /\ publication = "none"
  BY <1>1 DEF Safety, PassCoversTheMove, PublicationIsLast
<1>5. QED BY <1>1, <1>2, <1>3, <1>4

LEMMA PendingHasNotPassed ==
  ASSUME Safety, pending
  PROVE  lastVerification # "passed"
BY WaitingHasNotMoved DEF Safety, PendingIsWaiting

\* After the last step nothing is left to run.
LEMMA EndIsQuiet ==
  ASSUME node = "end", [Next]_vars
  PROVE  UNCHANGED vars
BY FinalizeEnds


-----------------------------------------------------------------------------
\* Every step keeps the ending in order.

LEMMA StepStops ==
  ASSUME Safety, Ending, [Next]_vars
  PROVE  StopIsObeyed' /\ (Stopped => Stopped' /\ node' \in {node, "end"})
<1>1. CASE UNCHANGED vars
  BY <1>1 DEF vars, control, stops, Stopped, StopIsObeyed, Ending
<1>2. CASE Next /\ Stopped
  <2>1. Finalize \/ RecursionLimit
    BY <1>2, FinalizeEnds DEF Ending, StopIsObeyed
  <2>2. QED BY <1>2, <2>1 DEF Finalize, RecursionLimit, Ends, stops, Stopped, StopIsObeyed
<1>3. CASE Next /\ ~Stopped
  BY <1>3, ControlStep DEF Safety, Shape, StopIsObeyed, vars, stops, Stopped
<1>4. QED BY <1>1, <1>2, <1>3

LEMMA StepResultIsLast ==
  ASSUME Safety, Ending, [Next]_vars
  PROVE  ResultIsLast'
<1> USE DEF Ending, ResultIsLast
<1>1. CASE UNCHANGED vars
  BY <1>1 DEF vars, control, outcome
<1>2. CASE Finalize \/ RecursionLimit
  <2>1. \E stopped \in BOOLEAN : result' = Classification(stopped) /\ node' = "end"
    BY <1>2 DEF Finalize, RecursionLimit, Ends, Safety, Shape, FlagsTyped, Stopped
  <2>2. QED BY <2>1 DEF Classification
<1>3. CASE Next /\ ~(Finalize \/ RecursionLimit) /\ ~UNCHANGED vars
  <2>1. node' # "end"
    BY <1>3, ControlStep, SelectableIsRoutable DEF Successor, RoutableActions, Safety, Shape
  <2>2. result' = result /\ node # "end"
    BY <1>3, WhoWrites, EndIsQuiet
  <2>3. QED BY <2>1, <2>2
<1>4. QED BY <1>1, <1>2, <1>3

LEMMA StepBaseline ==
  ASSUME Safety, Ending, [Next]_vars
  PROVE  BaselineIsOnRecord'
<1> USE DEF Ending, BaselineIsOnRecord
<1>1. CASE UNCHANGED vars
  BY <1>1 DEF vars, control, research, stops, Stopped
<1>2. CASE BaselineVerify
  BY <1>2 DEF BaselineVerify
<1>3. CASE ~BaselineVerify /\ ~UNCHANGED vars /\ baseline' = "none"
  <2>1. baseline = "none"
    BY <1>3, WhoWrites
  <2>2. CASE Stopped
    BY <2>2, StepStops
  <2>3. CASE ~Stopped /\ node \in {"inspect", "baseline_verify"}
    <3>1. RejectRequest \/ Inspect \/ PrologueFails \/ RecursionLimit
      BY <1>3, <2>3 DEF Next, Visit, Research, Route, AssessVerification, AuthorTests,
         TestAuthorFails, Implement, ImplementerStops, ConfigureCi, CiAuthorFails, Verify,
         InstallFails, VerifierFails, PublishDraft, PublisherFails, Finalize
    <3>2. CASE RejectRequest \/ PrologueFails
      BY <3>2 DEF RejectRequest, PrologueFails, Halts, Stopped
    <3>3. CASE RecursionLimit
      BY <3>3 DEF RecursionLimit, Ends
    <3>4. CASE Inspect
      BY <3>4, CompletesIsTyped, Edges DEF Inspect, Phases, Workers, Safety, Shape, Stopped
    <3>5. QED BY <3>1, <3>2, <3>3, <3>4
  <2>4. CASE node = "end"
    BY <1>3, <2>4, EndIsQuiet
  <2>5. QED BY <2>1, <2>2, <2>3, <2>4
<1>4. QED BY <1>1, <1>2, <1>3

LEMMA StepWait ==
  ASSUME Safety, Ending, [Next]_vars
  PROVE  WaitIsReported'
<1> SUFFICES ASSUME node' = "finalize", ~Stopped', requested', ~options'.granted
             PROVE  pending'
  BY DEF WaitIsReported
<1>1. CASE UNCHANGED vars
  BY <1>1 DEF vars, control, stops, approval, Stopped, Ending, WaitIsReported
<1>2. CASE Route
  BY <1>2 DEF Route
<1>3. CASE PublishDraft
  <2>1. lastVerification = "passed" /\ UNCHANGED <<options, requested>>
    BY <1>3, OfferedMeans, WorkerActionsAre
       DEF PublishDraft, Visit, approval, Safety, VisitIsOffered, MayPublish
  <2>2. QED BY <2>1, WaitingHasNotMoved
<1>4. QED BY <1>1, <1>2, <1>3, ControlStep DEF Safety, Shape

LEMMA StepVerifiedIds ==
  ASSUME Safety, Ending, [Next]_vars
  PROVE  VerifiedIdsFollowAPass'
<1> USE DEF Ending, VerifiedIdsFollowAPass
<1>1. CASE Verify \/ InstallFails
  <2>1. lastVerification # "passed"
    BY <1>1, OfferedMeans, WorkerActionsAre
       DEF Verify, InstallFails, Visit, Safety, VisitIsOffered, MayVerify
  <2>2. CASE InstallFails
    BY <2>1, <2>2 DEF InstallFails
  <2>3. CASE Verify
    <3>1. PICK failing, violating \in BOOLEAN, rejected \in SUBSET Reviewable :
            VerifyCandidate(failing, violating, rejected)
      BY <2>3 DEF Verify
    <3>2. QED BY <2>1, <3>1 DEF VerifyCandidate
  <2>4. QED BY <1>1, <2>2, <2>3
<1>2. CASE UNCHANGED verdict
  BY <1>2 DEF verdict
<1>3. QED BY <1>1, <1>2, WhoWrites


LEMMA UncertaintyStays ==
  ASSUME [Next]_vars
  PROVE  /\ Inspect \/ (uncertain => uncertain')
         /\ Research \/ (testsPending' => testsPending)
<1> USE DEF research, coverage, progress, verdict, stops, approval, outcome, vars,
            RejectRequest, Inspect, BaselineVerify, Research, PrologueFails, Route,
            AssessVerification, AuthorTests, ConvertsTests, TestAuthorFails, Implement,
            ApplyModelMigration, MoveDependencyOnly, MigrateToEsm, RequestElevation,
            ImplementerStops, ConfigureCi, CiAuthorFails, Verify, VerifyCandidate,
            InstallFails, VerifierFails, PublishDraft, PublisherFails, Finalize,
            RecursionLimit, Ends, Halts, Next
<1>1. Inspect \/ (uncertain => uncertain') OBVIOUS
<1>2. Research \/ (testsPending' => testsPending) OBVIOUS
<1>3. QED BY ONLY <1>1, <1>2

LEMMA StepLeftovers ==
  ASSUME Safety, Ending, [Next]_vars
  PROVE  LeftoversAreKnown'
<1> USE DEF Ending, LeftoversAreKnown
<1>1. UNCHANGED findings => UNCHANGED EsmMoves
  BY DEF EsmMoves
<1>2. CASE Research
  BY <1>2, ResearchIsFresh
<1>3. CASE Inspect
  BY <1>3, WhoWrites
     DEF Inspect, Visit, progress, research, Safety, Shape, PrologueIsFresh, Prologue
<1>4. CASE Implement
  <2>1. CASE Approach = "convert"
    BY <1>4, <2>1 DEF Implement, ApplyModelMigration, MoveDependencyOnly, MigrateToEsm,
                      RequestElevation, coverage
  <2>2. CASE Approach # "convert"
    <3>1. EsmMoves' \cap addressed' \subseteq EsmMoves \cap addressed
      BY <1>1, <1>4, <2>2, ImplementDoes, ApproachMeans, KindsAreApart DEF progress
    <3>2. QED BY <1>4, <3>1, UncertaintyStays DEF Implement, Inspect, Research, Visit
  <2>3. QED BY <2>1, <2>2
<1>5. CASE ConfigureCi
  <2>1. EsmMoves' \cap addressed' \subseteq EsmMoves \cap addressed
    BY <1>1, <1>5, ConfigureCiDoes, KindsAreApart
  <2>2. QED BY <1>5, <2>1, UncertaintyStays DEF ConfigureCi, Inspect, Research, Visit
<1>6. CASE UNCHANGED <<findings, addressed>> /\ ~Inspect /\ ~Research
  BY <1>1, <1>6, UncertaintyStays
<1>7. QED BY <1>2, <1>3, <1>4, <1>5, <1>6, WhoWrites

\* The classification of the final step, read off the record that led to it.
LEMMA StepResult ==
  ASSUME Safety, Ending, [Next]_vars
  PROVE  ResultAgrees'
<1> USE DEF Ending, ResultAgrees
<1>1. CASE UNCHANGED vars
  BY <1>1 DEF vars, control, research, coverage, progress, verdict, stops, approval, outcome,
              Stopped, VerifiedWasEstablished, AwaitingApproval, EsmMoves
<1>2. CASE ~UNCHANGED vars /\ result' = "none"
  BY <1>2 DEF VerifiedWasEstablished
<1>3. CASE RecursionLimit
  BY <1>3 DEF RecursionLimit, Ends, Classification, VerifiedWasEstablished
<1>4. CASE Finalize
  <2>1. /\ result' = Classification(Stopped) /\ node = "finalize"
        /\ UNCHANGED <<options, research, coverage, progress, verdict, stops, approval>>
    BY <1>4 DEF Finalize, Ends, Visit
  <2>2. requested /\ ~options.granted => result' \in {"human_required", "blocked"}
    <3>1. baseline # "none" \/ Stopped
      BY <2>1 DEF BaselineIsOnRecord
    <3>2. requested /\ ~options.granted => pending \/ Stopped
      BY <2>1 DEF WaitIsReported
    <3>3. QED BY <2>1, <3>1, <3>2 DEF Classification
  <2>3. result' = "human_required" => lastVerification # "passed"
    <3>1. result' = "human_required" => pending
      BY <2>1 DEF Classification
    <3>2. QED BY <3>1, PendingHasNotPassed
  <2>4. Stopped => result' = "blocked"
    BY <2>1 DEF Classification
  <2>5. result' = "verified" =>
          /\ moved /\ lastVerification = "passed" /\ baseline = "passed"
          /\ ~AwaitingApproval("implementer")
          /\ EsmMoves = {} \/ ~testsPending
    <3>1. SUFFICES ASSUME result' = "verified"
                   PROVE  /\ moved /\ lastVerification = "passed" /\ baseline = "passed"
                          /\ ~AwaitingApproval("implementer")
                          /\ EsmMoves = {} \/ ~testsPending
      OBVIOUS
    <3>2. ~pending /\ ~uncertain /\ findings # {} /\ ~Shortfall /\ baseline # "none"
      BY <2>1, <3>1 DEF Classification
    <3>3. baseline = "passed" /\ findings \subseteq addressed /\ Unverified = {}
      BY <3>2 DEF Shortfall, Safety, Shape, RecordTyped
    <3>4. lastVerification = "passed" /\ moved
      BY <3>2, <3>3 DEF Unverified, VerifiedIdsFollowAPass, Safety, PassCoversTheMove
    <3>5. ~AwaitingApproval("implementer")
      BY <3>4, WaitingHasNotMoved DEF AwaitingApproval
    <3>6. EsmMoves = {} \/ ~testsPending
      BY <3>2, <3>3 DEF EsmMoves, LeftoversAreKnown
    <3>7. QED BY <3>3, <3>4, <3>5, <3>6
  <2>6. UNCHANGED <<EsmMoves, Stopped, AwaitingApproval("implementer")>>
    BY <2>1 DEF research, stops, approval, EsmMoves, Stopped, AwaitingApproval
  <2>7. QED
    BY <2>1, <2>2, <2>3, <2>4, <2>5, <2>6
       DEF VerifiedWasEstablished, research, coverage, progress, verdict, approval
<1>5. CASE ~Finalize /\ ~RecursionLimit /\ ~UNCHANGED vars /\ result' # "none"
  BY <1>5, WhoWrites, EndIsQuiet DEF ResultIsLast
<1>6. QED BY <1>1, <1>2, <1>3, <1>4, <1>5

LEMMA StepEnding ==
  ASSUME Safety, Ending, [Next]_vars
  PROVE  Ending'
BY StepStops, StepResultIsLast, StepBaseline, StepWait, StepVerifiedIds, StepLeftovers,
   StepResult DEF Ending

LEMMA EndingHolds == Spec => [](Safety /\ Ending)
<1>1. Init => Safety /\ Ending BY InitSafety, InitEnding
<1>2. Safety /\ Ending /\ [Next]_vars => (Safety /\ Ending)'
  BY StepSafety, StepEnding
<1>3. QED BY <1>1, <1>2, PTL DEF Spec


-----------------------------------------------------------------------------
\* The theorems.

\* `verified` is never reached around the verifier, the baseline or an approval.
THEOREM VerifiedIsEstablished == Spec => []VerifiedWasEstablished
<1>1. Ending => VerifiedWasEstablished BY DEF Ending, ResultAgrees
<1>2. QED BY EndingHolds, <1>1, PTL

\* A run that waits for an approval has written neither source, manifest nor CI, has
\* published nothing, and says that it waits.
THEOREM WaitingIsHarmless == Spec => []WaitingWritesNoSource
<1>1. Safety /\ Ending => WaitingWritesNoSource
  BY WaitingHasNotMoved DEF Ending, ResultAgrees, Safety, Shape, RecordTyped,
     WaitingWritesNoSource
<1>2. QED BY EndingHolds, <1>1, PTL

\* What leaves the machine was asked for and verified.
THEOREM PublishedIsVerified == Spec => []PublishedOnlyVerified
<1>1. Safety /\ Ending => PublishedOnlyVerified
  BY DEF Safety, PublicationIsLast, Ending, ResultAgrees, PublishedOnlyVerified
<1>2. QED BY EndingHolds, <1>1, PTL

\* A recorded stop is obeyed by the next step, which writes and publishes nothing.
THEOREM StopIsObserved == Spec => StopIsFinal
<1>1. ASSUME Safety /\ Ending, Next, Stopped
      PROVE  Stopped' /\ node' = "end" /\ UNCHANGED <<progress, verdict, publication>>
  <2>1. Finalize \/ RecursionLimit
    BY <1>1, FinalizeEnds DEF Ending, StopIsObeyed
  <2>2. QED BY <1>1, <2>1 DEF Finalize, RecursionLimit, Ends, stops, Stopped
<1>2. Safety /\ Ending /\ [Next]_vars =>
        [Stopped => /\ Stopped' /\ node' = "end"
                    /\ UNCHANGED <<progress, verdict, publication>>]_vars
  BY <1>1
<1>3. QED BY EndingHolds, <1>2, PTL DEF Spec, StopIsFinal

\* The nodes an assessment-only run visits do not write.
LEMMA AssessmentVisits ==
  ASSUME Safety, options.assessmentOnly, node \in WorkerActions
  PROVE  node = "assess_verification"
BY OfferedMeans DEF Safety, VisitIsOffered

LEMMA StepAssessment ==
  ASSUME Safety, AssessmentOnlyReads, [Next]_vars
  PROVE  AssessmentOnlyReads'
<1> SUFFICES ASSUME options.assessmentOnly
             PROVE  tree' = "pristine" /\ changes' = {} /\ ~moved' /\ publication' = "none"
  BY WhoWrites DEF AssessmentOnlyReads
<1>1. node \notin {"author_tests", "implement", "configure_ci", "verify", "publish_draft"}
  BY AssessmentVisits, WorkerActionsAre
<1>2. TestAuthorFails => UNCHANGED tree
  BY <1>1 DEF TestAuthorFails, Visit
<1>3. UNCHANGED <<tree, changes, moved, publication>>
  BY <1>1, <1>2, WhoWrites
     DEF AuthorTests, Implement, ImplementerStops, ConfigureCi, CiAuthorFails, Verify,
         PublishDraft, PublisherFails, Visit
<1>4. QED BY <1>3 DEF AssessmentOnlyReads

\* An assessment-only run writes nothing, whatever the engine answers.
THEOREM AssessmentReads == Spec => []AssessmentOnlyReads
<1>1. Init => AssessmentOnlyReads BY DEF Init, AssessmentOnlyReads
<1>2. Safety /\ AssessmentOnlyReads /\ [Next]_vars => AssessmentOnlyReads'
  BY StepAssessment
<1>3. QED BY SafetyHolds, <1>1, <1>2, PTL DEF Spec

\* A draft that was left half way is on record as a stop.
HalfPublishedIsStopped == publication = "pushed" => Stopped

LEMMA StepHalfPublished ==
  ASSUME Safety, Ending, HalfPublishedIsStopped, [Next]_vars
  PROVE  HalfPublishedIsStopped'
<1>1. CASE PublishDraft
  BY <1>1 DEF PublishDraft, HalfPublishedIsStopped
<1>2. CASE PublisherFails
  BY <1>2 DEF PublisherFails, Halts, HalfPublishedIsStopped, Stopped
<1>3. CASE UNCHANGED publication
  BY <1>3, StepStops DEF HalfPublishedIsStopped
<1>4. QED BY <1>1, <1>2, <1>3, WhoWrites DEF vars, outcome

\* What RunLifecycle takes the inside of a run to be (RunGraph, CreateBranch, PushBranch):
\* a publisher's visit is the last before the classification and only a run that was asked
\* for a draft has one; one that throws half way leaves the run blocked; an assessment
\* publishes nothing, and is not verified (run.ts, runUpgrade; publisher.ts).
THEOREM FitsTheLifecycle ==
  Spec => [](/\ publication # "none" => options.draft /\ node \in {"finalize", "end"}
             /\ publication = "pushed" => Stopped /\ result \in {"none", "blocked"}
             /\ options.assessmentOnly => result # "verified" /\ publication = "none")
<1>1. Init => HalfPublishedIsStopped BY DEF Init, HalfPublishedIsStopped
<1>2. Safety /\ Ending /\ HalfPublishedIsStopped /\ [Next]_vars => HalfPublishedIsStopped'
  BY StepHalfPublished
<1>3. Safety /\ Ending /\ AssessmentOnlyReads /\ HalfPublishedIsStopped =>
        /\ publication # "none" => options.draft /\ node \in {"finalize", "end"}
        /\ publication = "pushed" => Stopped /\ result \in {"none", "blocked"}
        /\ options.assessmentOnly => result # "verified" /\ publication = "none"
  BY DEF Safety, PublicationIsLast, Ending, ResultAgrees, VerifiedWasEstablished,
         AssessmentOnlyReads, HalfPublishedIsStopped
<1>4. QED BY EndingHolds, AssessmentReads, <1>1, <1>2, <1>3, PTL DEF Spec

-----------------------------------------------------------------------------
\* Every step of a run is a step of RunPromise, or none.

LEMMA InitPromise == Init => Promise!Init
BY DEF Init, Promise!Init, Stopped

LEMMA StepPromise ==
  ASSUME Safety, Ending, Safety', Ending', [Next]_vars
  PROVE  [Promise!Next]_(Promise!vars)
<1> USE DEF Promise!Next, Promise!vars
<1>1. CASE UNCHANGED vars
  BY <1>1 DEF vars, stops, verdict, outcome, Stopped
<1>2. CASE Finalize \/ RecursionLimit
  <2>0. node # "end" /\ node' = "end" /\ UNCHANGED <<blocking, prohibited, lastVerification, publication>>
    BY <1>2 DEF Finalize, RecursionLimit, Visit, Ends, stops, verdict
  <2>1. node # "end" /\ node' = "end" /\ UNCHANGED <<Stopped, lastVerification, publication>>
    BY <2>0 DEF Stopped
  <2>2. result = "none" /\ result' # "none"
    BY <2>1 DEF Ending, ResultIsLast
  <2>3. result' \in Promise!Statuses
    BY <2>2 DEF Promise!Statuses, Safety, Shape, RecordTyped
  <2>4. /\ Stopped' => result' = "blocked"
        /\ result' = "verified" => lastVerification' = "passed"
        /\ result' = "human_required" => lastVerification' # "passed"
    BY <2>2 DEF Ending, ResultAgrees, VerifiedWasEstablished
  <2>5. result' = "human_required" => publication = "none"
    BY <2>1, <2>4 DEF Safety, PublicationIsLast
  <2>6. Promise!Settle
    BY <2>1, <2>2, <2>3, <2>4, <2>5 DEF Promise!Settle
  <2>7. QED BY <2>6
<1>3. CASE Next /\ ~(Finalize \/ RecursionLimit)
  <2>1. node \notin {"finalize", "end"} /\ ~Stopped /\ result = "none" /\ publication = "none"
    BY <1>3, FinalizeEnds
       DEF Ending, StopIsObeyed, ResultIsLast, Safety, PublicationIsLast
  <2>2. Promise!Running /\ UNCHANGED result
    BY <1>3, <2>1, WhoWrites DEF Promise!Running
  <2>3. CASE Verify
    <3>1. PICK failing, violating \in BOOLEAN, rejected \in SUBSET Reviewable :
            VerifyCandidate(failing, violating, rejected)
      BY <2>3 DEF Verify
    <3>2. lastVerification # "passed" /\ UNCHANGED publication
      BY <2>3, OfferedMeans, WorkerActionsAre
         DEF Verify, Visit, outcome, Safety, VisitIsOffered, MayVerify
    <3>3. \/ lastVerification' = "failed" /\ Stopped' \in BOOLEAN
          \/ lastVerification' = "passed" /\ Stopped' = Stopped
      BY <3>1 DEF VerifyCandidate, Stopped
    <3>4. Promise!Judge
      BY <2>2, <3>2, <3>3 DEF Promise!Judge
    <3>5. QED BY <3>4
  <2>4. CASE InstallFails
    <3>1. lastVerification # "passed" /\ UNCHANGED publication
      BY <2>4, OfferedMeans, WorkerActionsAre
         DEF InstallFails, Visit, outcome, Safety, VisitIsOffered, MayVerify
    <3>2. lastVerification' = "failed" /\ Stopped'
      BY <2>4 DEF InstallFails, Stopped
    <3>3. Promise!Judge
      BY <2>2, <3>1, <3>2 DEF Promise!Judge
    <3>4. QED BY <3>3
  <2>5. CASE PublishDraft \/ PublisherFails
    <3>1. lastVerification = "passed" /\ UNCHANGED lastVerification
      BY <2>5, OfferedMeans, WorkerActionsAre
         DEF PublishDraft, PublisherFails, Halts, Visit, verdict, Safety, VisitIsOffered,
             MayPublish
    <3>2. \/ publication' = "open" /\ UNCHANGED Stopped
          \/ publication' = "pushed" /\ Stopped'
          \/ publication' = publication /\ Stopped'
      BY <2>5 DEF PublishDraft, PublisherFails, Halts, stops, Stopped
    <3>3. Promise!Publish \/ Promise!Stop
      BY <2>1, <2>2, <3>1, <3>2 DEF Promise!Publish, Promise!Stop
    <3>4. QED BY <3>3
  <2>6. CASE UNCHANGED <<lastVerification, publication>>
    <3>1. Stopped' \in BOOLEAN
      BY DEF Stopped
    <3>2. CASE Stopped'
      BY <2>2, <2>6, <3>2 DEF Promise!Stop
    <3>3. CASE ~Stopped'
      <4>1. Stopped' = Stopped
        BY <2>1, <3>3 DEF Stopped
      <4>2. QED BY <2>2, <2>6, <4>1
    <3>4. QED BY <3>1, <3>2, <3>3
  <2>7. QED BY <1>3, <2>3, <2>4, <2>5, <2>6, WhoWrites DEF verdict
<1>4. QED BY <1>1, <1>2, <1>3

\* The safety half of KeepsPromise: a run starts as RunPromise does and makes only its
\* steps.  That it settles is left to the runs.
THEOREM RunKeepsPromise == Spec => Promise!Init /\ [][Promise!Next]_(Promise!vars)
<1>1. Safety /\ Ending /\ (Safety /\ Ending)' /\ [Next]_vars => [Promise!Next]_(Promise!vars)
  BY StepPromise
<1>2. QED BY InitPromise, EndingHolds, <1>1, PTL DEF Spec

-----------------------------------------------------------------------------
\* The fixed order, place by place.

\* Three sequences in a row, place by place.
LEMMA ConcatThree ==
  ASSUME NEW S, NEW a \in Seq(S), NEW b \in Seq(S), NEW c \in Seq(S)
  PROVE  /\ (a \o b) \o c \in Seq(S)
         /\ Len(a) \in Nat /\ Len(b) \in Nat /\ Len(c) \in Nat
         /\ Len((a \o b) \o c) = Len(a) + Len(b) + Len(c)
         /\ \A i \in 1 .. Len(a) : ((a \o b) \o c)[i] = a[i]
         /\ \A i \in 1 .. Len(b) : ((a \o b) \o c)[Len(a) + i] = b[i]
         /\ \A i \in 1 .. Len(c) : ((a \o b) \o c)[Len(a) + Len(b) + i] = c[i]
<1>1. /\ a \o b \in Seq(S) /\ Len(a \o b) = Len(a) + Len(b)
      /\ \A i \in 1 .. Len(a) + Len(b) :
           (a \o b)[i] = IF i <= Len(a) THEN a[i] ELSE b[i - Len(a)]
  BY ConcatProperties
<1> DEFINE ab == a \o b
<1> HIDE DEF ab
<1>2. /\ ab \o c \in Seq(S) /\ Len(ab \o c) = Len(ab) + Len(c)
      /\ \A i \in 1 .. Len(ab) + Len(c) :
           (ab \o c)[i] = IF i <= Len(ab) THEN ab[i] ELSE c[i - Len(ab)]
  BY <1>1, ConcatProperties DEF ab
<1>3. Len(a) \in Nat /\ Len(b) \in Nat /\ Len(c) \in Nat
  BY LenProperties
<1>4. /\ Len(ab) = Len(a) + Len(b)
      /\ \A i \in 1 .. Len(a) + Len(b) : ab[i] = IF i <= Len(a) THEN a[i] ELSE b[i - Len(a)]
  BY <1>1 DEF ab
<1>5. ab \o c = (a \o b) \o c
  BY DEF ab
<1>6. \A i \in 1 .. Len(a) : (ab \o c)[i] = a[i]
  BY <1>2, <1>3, <1>4
<1>7. \A i \in 1 .. Len(b) : (ab \o c)[Len(a) + i] = b[i]
  BY <1>2, <1>3, <1>4
<1>8. \A i \in 1 .. Len(c) : (ab \o c)[Len(a) + Len(b) + i] = c[i]
  BY <1>2, <1>3, <1>4
<1>9. QED BY <1>2, <1>3, <1>4, <1>5, <1>6, <1>7, <1>8

LEMMA UrgentIs ==
  /\ Urgent \in Seq(RoutableActions) /\ Len(Urgent) \in Nat
  /\ \A i \in 1 .. Len(Urgent) : Urgent[i] \in {"implement", "author_tests"}
  /\ (\E i \in 1 .. Len(Urgent) : Urgent[i] = "author_tests")
       <=> lastVerification = "failed" \/ Unresolved \ verifiedIds # {}
  /\ (\E i \in 1 .. Len(Urgent) : Urgent[i] = "implement")
       <=> lastVerification = "failed" \/ ~moved \/ Unresolved # {}
<1> DEFINE retry == IF lastVerification = "failed" THEN <<"implement", "author_tests">> ELSE <<>>
           cover == IF Unresolved \ verifiedIds # {} THEN <<"author_tests">> ELSE <<>>
           move  == IF ~moved \/ Unresolved # {} THEN <<"implement">> ELSE <<>>
<1>1. /\ retry \in Seq(RoutableActions)
      /\ Len(retry) = IF lastVerification = "failed" THEN 2 ELSE 0
      /\ lastVerification = "failed" => retry[1] = "implement" /\ retry[2] = "author_tests"
  <2>1. CASE lastVerification = "failed"
    <3>1. retry = <<"implement", "author_tests">> BY <2>1
    <3> HIDE DEF retry
    <3>2. QED BY <2>1, <3>1 DEF RoutableActions
  <2>2. CASE lastVerification # "failed"
    <3>1. retry = <<>> BY <2>2
    <3> HIDE DEF retry
    <3>2. QED BY <2>2, <3>1
  <2>3. QED BY <2>1, <2>2
<1>2. /\ cover \in Seq(RoutableActions)
      /\ Len(cover) = IF Unresolved \ verifiedIds # {} THEN 1 ELSE 0
      /\ Unresolved \ verifiedIds # {} => cover[1] = "author_tests"
  <2>1. CASE Unresolved \ verifiedIds # {}
    <3>1. cover = <<"author_tests">> BY <2>1
    <3> HIDE DEF cover
    <3>2. QED BY <2>1, <3>1 DEF RoutableActions
  <2>2. CASE Unresolved \ verifiedIds = {}
    <3>1. cover = <<>> BY <2>2
    <3> HIDE DEF cover
    <3>2. QED BY <2>2, <3>1
  <2>3. QED BY <2>1, <2>2
<1>3. /\ move \in Seq(RoutableActions)
      /\ Len(move) = IF ~moved \/ Unresolved # {} THEN 1 ELSE 0
      /\ ~moved \/ Unresolved # {} => move[1] = "implement"
  BY DEF RoutableActions
<1>4. Urgent = (retry \o cover) \o move
  BY DEF Urgent
<1> DEFINE r == Len(retry)
           c == Len(cover)
           m == Len(move)
<1>5. r \in {0, 2} /\ c \in {0, 1} /\ m \in {0, 1}
  BY <1>1, <1>2, <1>3
<1> HIDE DEF retry, cover, move
<1>6. /\ Urgent \in Seq(RoutableActions) /\ Len(Urgent) = r + c + m
      /\ \A i \in 1 .. r : Urgent[i] = retry[i]
      /\ \A i \in 1 .. c : Urgent[r + i] = cover[i]
      /\ \A i \in 1 .. m : Urgent[r + c + i] = move[i]
  <2>1. retry \in Seq(RoutableActions) /\ cover \in Seq(RoutableActions)
        /\ move \in Seq(RoutableActions)
    BY <1>1, <1>2, <1>3
  <2> DEFINE order == (retry \o cover) \o move
  <2>2. /\ order \in Seq(RoutableActions)
        /\ Len(order) = Len(retry) + Len(cover) + Len(move)
        /\ \A i \in 1 .. Len(retry) : order[i] = retry[i]
        /\ \A i \in 1 .. Len(cover) : order[Len(retry) + i] = cover[i]
        /\ \A i \in 1 .. Len(move) : order[Len(retry) + Len(cover) + i] = move[i]
    BY ONLY <2>1, ConcatThree, SMT
  <2>3. Urgent = order
    BY <1>4
  <2> HIDE DEF order
  <2>4. QED BY <2>2, <2>3
<1> HIDE DEF r, c, m
<1>7. ASSUME NEW i \in 1 .. Len(Urgent)
      PROVE  /\ Urgent[i] \in {"implement", "author_tests"}
             /\ Urgent[i] = "author_tests" =>
                  lastVerification = "failed" \/ Unresolved \ verifiedIds # {}
             /\ Urgent[i] = "implement" =>
                  lastVerification = "failed" \/ ~moved \/ Unresolved # {}
  <2>1. \/ i \in 1 .. r
         \/ (\E k \in 1 .. c : i = r + k)
         \/ (\E k \in 1 .. m : i = r + c + k)
    <3>1. i \in Nat /\ i >= 1 /\ i <= r + c + m
      BY <1>5, <1>6
    <3>2. CASE i <= r
      BY <3>1, <3>2, <1>5
    <3>3. CASE i > r /\ i <= r + c
      <4>1. i - r \in 1 .. c /\ i = r + (i - r)
        BY <3>1, <3>3, <1>5
      <4>2. QED BY <4>1
    <3>4. CASE i > r + c
      <4>1. i - (r + c) \in 1 .. m /\ i = r + c + (i - (r + c))
        BY <3>1, <3>4, <1>5
      <4>2. QED BY <4>1
    <3>5. QED BY <3>1, <3>2, <3>3, <3>4, <1>5
  <2>2. CASE i \in 1 .. r
    <3>1. i \in {1, 2} /\ lastVerification = "failed"
      BY <2>2, <1>1, <1>5 DEF r
    <3>2. QED BY <2>2, <3>1, <1>1, <1>6
  <2>3. ASSUME NEW k \in 1 .. c, i = r + k
        PROVE  Urgent[i] = "author_tests" /\ Unresolved \ verifiedIds # {}
    <3>1. k = 1 /\ Unresolved \ verifiedIds # {}
      BY <1>2, <1>5 DEF c
    <3>2. QED BY <2>3, <3>1, <1>2, <1>6
  <2>4. ASSUME NEW k \in 1 .. m, i = r + c + k
        PROVE  Urgent[i] = "implement" /\ (~moved \/ Unresolved # {})
    <3>1. k = 1 /\ (~moved \/ Unresolved # {})
      BY <1>3, <1>5 DEF m
    <3>2. QED BY <2>4, <3>1, <1>3, <1>6
  <2>5. QED BY <2>1, <2>2, <2>3, <2>4
<1>8. lastVerification = "failed" =>
        /\ 1 \in 1 .. Len(Urgent) /\ Urgent[1] = "implement"
        /\ 2 \in 1 .. Len(Urgent) /\ Urgent[2] = "author_tests"
  BY <1>1, <1>5, <1>6 DEF r
<1>9. Unresolved \ verifiedIds # {} =>
        r + 1 \in 1 .. Len(Urgent) /\ Urgent[r + 1] = "author_tests"
  BY <1>2, <1>5, <1>6 DEF c
<1>10. ~moved \/ Unresolved # {} =>
         r + c + 1 \in 1 .. Len(Urgent) /\ Urgent[r + c + 1] = "implement"
  BY <1>3, <1>5, <1>6 DEF m
<1>11. Len(Urgent) \in Nat
  BY <1>5, <1>6
<1>12. QED BY <1>6, <1>7, <1>8, <1>9, <1>10, <1>11

LEMMA MissingCiIs ==
  /\ MissingCi \in Seq(RoutableActions)
  /\ Len(MissingCi) = IF ~ciAssessed THEN 1 ELSE 0
  /\ ~ciAssessed => MissingCi[1] = "configure_ci"
BY DEF MissingCi, RoutableActions

\* What is urgent, then CI where it is missing, then the four that close every order.
LEMMA PreferencesAre ==
  LET u == Len(Urgent)
      m == Len(MissingCi)
  IN /\ DOMAIN Preferences = 1 .. (u + m + 4)
     /\ \A i \in 1 .. u : Preferences[i] = Urgent[i]
     /\ ~ciAssessed => m = 1 /\ Preferences[u + 1] = "configure_ci"
     /\ ciAssessed => m = 0
     /\ Preferences[u + m + 1] = "assess_verification"
     /\ Preferences[u + m + 2] = "verify"
     /\ Preferences[u + m + 3] = "publish_draft"
     /\ Preferences[u + m + 4] = "finalize"
<1> DEFINE u == Len(Urgent)
           m == Len(MissingCi)
           tail == <<"assess_verification", "verify", "publish_draft", "finalize">>
<1>1. /\ tail \in Seq(RoutableActions) /\ Len(tail) = 4
      /\ tail[1] = "assess_verification" /\ tail[2] = "verify"
      /\ tail[3] = "publish_draft" /\ tail[4] = "finalize"
  BY DEF RoutableActions
<1>2. u \in Nat /\ m \in {0, 1} /\ (~ciAssessed => m = 1) /\ (ciAssessed => m = 0)
  BY UrgentIs, MissingCiIs
<1>3. Preferences = (Urgent \o MissingCi) \o tail
  BY DEF Preferences
<1> HIDE DEF tail
<1>4. /\ Preferences \in Seq(RoutableActions) /\ Len(Preferences) = u + m + 4
      /\ \A i \in 1 .. u : Preferences[i] = Urgent[i]
      /\ \A i \in 1 .. m : Preferences[u + i] = MissingCi[i]
      /\ \A i \in 1 .. 4 : Preferences[u + m + i] = tail[i]
  <2>1. Urgent \in Seq(RoutableActions) /\ MissingCi \in Seq(RoutableActions)
        /\ tail \in Seq(RoutableActions)
    BY <1>1, UrgentIs, MissingCiIs
  <2> DEFINE order == (Urgent \o MissingCi) \o tail
  <2>2. /\ order \in Seq(RoutableActions)
        /\ Len(order) = Len(Urgent) + Len(MissingCi) + Len(tail)
        /\ \A i \in 1 .. Len(Urgent) : order[i] = Urgent[i]
        /\ \A i \in 1 .. Len(MissingCi) : order[Len(Urgent) + i] = MissingCi[i]
        /\ \A i \in 1 .. Len(tail) : order[Len(Urgent) + Len(MissingCi) + i] = tail[i]
    BY ONLY <2>1, ConcatThree, SMT
  <2>3. Preferences = order
    BY <1>3
  <2> HIDE DEF order
  <2>4. QED BY <2>2, <2>3, <1>1
<1>5. DOMAIN Preferences = 1 .. (u + m + 4)
  BY <1>4, LenProperties
<1>6. ~ciAssessed => Preferences[u + 1] = "configure_ci"
  BY <1>2, <1>4, MissingCiIs
<1>7. QED BY <1>1, <1>2, <1>4, <1>5, <1>6

-----------------------------------------------------------------------------
\* What the fixed order chooses.

LEMMA OffersAre ==
  /\ Offered("finalize") <=> MayFinalize
  /\ Offered("assess_verification") <=> attempts["test_author"] < Cap /\ MayAssess
  /\ Offered("author_tests") <=>
       ~options.assessmentOnly /\ attempts["test_author"] < Cap /\ MayAuthor
  /\ Offered("implement") <=>
       /\ ~options.assessmentOnly /\ attempts["implementer"] < Cap
       /\ ~AwaitingApproval("implementer") /\ MayImplement
  /\ Offered("configure_ci") <=>
       ~options.assessmentOnly /\ attempts["ci_author"] < Cap /\ MayConfigureCi
  /\ Offered("verify") <=>
       ~options.assessmentOnly /\ attempts["verifier"] < Cap /\ MayVerify
  /\ Offered("publish_draft") <=>
       ~options.assessmentOnly /\ attempts["publisher"] < Cap /\ MayPublish
<1>1. /\ Rule["finalize"] = MayFinalize /\ Rule["assess_verification"] = MayAssess
      /\ Rule["author_tests"] = MayAuthor /\ Rule["implement"] = MayImplement
      /\ Rule["configure_ci"] = MayConfigureCi /\ Rule["verify"] = MayVerify
      /\ Rule["publish_draft"] = MayPublish
  BY DEF Rule
<1>2. /\ ActionWorker["assess_verification"] = "test_author"
      /\ ActionWorker["author_tests"] = "test_author"
      /\ ActionWorker["implement"] = "implementer"
      /\ ActionWorker["configure_ci"] = "ci_author"
      /\ ActionWorker["verify"] = "verifier"
      /\ ActionWorker["publish_draft"] = "publisher"
  BY DEF ActionWorker
<1>3. QED
  BY <1>1, <1>2, Edges, WorkerActionsAre
     DEF Offered, WithinAttempts, AwaitingApproval, RoutableActions, Cap

LEMMA EligibleIs ==
  /\ Eligible \subseteq RoutableActions /\ Eligible # {}
  /\ \A a \in RoutableActions : Offered(a) => a \in Eligible
  /\ \A a \in Eligible : Offered(a) \/ a = "finalize"
BY DEF Eligible, RoutableActions

\* Where there is a choice, one of the actions on offer has a place in the order: only
\* author_tests may be offered without one.
LEMMA OrderReachesEligible ==
  ASSUME ~\E a \in RoutableActions : Eligible = {a}
  PROVE  \E i \in DOMAIN Preferences : Preferences[i] \in Eligible
<1> DEFINE u == Len(Urgent)
           m == Len(MissingCi)
<1>1. PICK a \in Eligible : a # "author_tests"
  BY EligibleIs DEF RoutableActions
<1>2. u \in Nat /\ m \in {0, 1}
  BY UrgentIs, MissingCiIs
<1>3. CASE a = "implement"
  <2>1. MayImplement
    BY <1>3, OffersAre, EligibleIs
  <2>2. PICK i \in 1 .. u : Urgent[i] = "implement"
    BY <2>1, UrgentIs DEF MayImplement
  <2>3. i \in DOMAIN Preferences /\ Preferences[i] = "implement"
    BY <1>2, <2>2, PreferencesAre
  <2>4. QED BY <1>1, <1>3, <2>3
<1>4. CASE a = "configure_ci"
  <2>1. MayConfigureCi
    BY <1>4, OffersAre, EligibleIs
  <2>2. u + 1 \in DOMAIN Preferences /\ Preferences[u + 1] = "configure_ci"
    BY <1>2, <2>1, PreferencesAre DEF MayConfigureCi
  <2>3. QED BY <1>1, <1>4, <2>2
<1>5. CASE a \in {"assess_verification", "verify", "publish_draft", "finalize"}
  <2>1. \A k \in 1 .. 4 : u + m + k \in DOMAIN Preferences
    BY <1>2, PreferencesAre
  <2>2. \E k \in 1 .. 4 : Preferences[u + m + k] = a
    BY <1>5, PreferencesAre
  <2>3. QED BY <1>1, <2>1, <2>2
<1>6. QED BY <1>1, <1>3, <1>4, <1>5, EligibleIs DEF RoutableActions

LEMMA OrderFindsEligible ==
  ASSUME ~\E a \in RoutableActions : Eligible = {a}
  PROVE  \E i \in DOMAIN Preferences : IsFirstEligible(Preferences, i)
<1> DEFINE places == {i \in DOMAIN Preferences : Preferences[i] \in Eligible}
<1>1. places # {} /\ places \subseteq Nat
  BY OrderReachesEligible, PreferencesAre, UrgentIs, MissingCiIs
<1>2. PICK least \in places : \A i \in places : ~(<<i, least>> \in OpToRel(<, Nat))
  BY <1>1, NatLessThanWellFounded, WFMin
<1>3. \A i \in places : ~(i < least)
  BY <1>1, <1>2, Zenon DEF OpToRel
<1>4. \A i \in 1 .. (least - 1) : Preferences[i] \notin Eligible
  <2>1. SUFFICES ASSUME NEW i \in 1 .. (least - 1), Preferences[i] \in Eligible PROVE FALSE
    OBVIOUS
  <2>2. i < least /\ i \in DOMAIN Preferences
    BY <1>1, PreferencesAre, UrgentIs, MissingCiIs
  <2>3. QED BY <1>3, <2>1, <2>2
<1>5. QED BY <1>4 DEF IsFirstEligible

LEMMA SelectableIsEligible == Selectable \subseteq Eligible
<1>1. CASE \E a \in RoutableActions : Eligible = {a}
  BY <1>1 DEF Selectable
<1>2. CASE ~\E a \in RoutableActions : Eligible = {a}
  <2>1. \E i \in DOMAIN Preferences : IsFirstEligible(Preferences, i)
    BY <1>2, OrderFindsEligible
  <2>2. DeterministicFallback \in Eligible
    BY <2>1 DEF DeterministicFallback, IsFirstEligible
  <2>3. QED BY <1>2, <2>2 DEF Selectable
<1>3. QED BY <1>1, <1>2

\* A choice of the deterministic engine has no alternative, or is the first in the
\* order that is eligible.
LEMMA FixedChoice ==
  ASSUME ~options.jev, NEW a \in Selectable
  PROVE  \/ Eligible = {a}
         \/ \E i \in DOMAIN Preferences : a = Preferences[i] /\ IsFirstEligible(Preferences, i)
<1>1. CASE \E b \in RoutableActions : Eligible = {b}
  BY <1>1 DEF Selectable
<1>2. CASE ~\E b \in RoutableActions : Eligible = {b}
  <2>1. \E i \in DOMAIN Preferences : IsFirstEligible(Preferences, i)
    BY <1>2, OrderFindsEligible
  <2>2. a = DeterministicFallback
    BY <1>2 DEF Selectable
  <2>3. QED BY <2>1, <2>2 DEF DeterministicFallback
<1>3. QED BY <1>1, <1>2

\* What the choice says of the actions it was preferred to.
LEMMA FixedChoiceMeans ==
  ASSUME ~options.jev, NEW a \in Selectable
  PROVE  /\ a = "author_tests" =>
              \/ Eligible = {a} \/ lastVerification = "failed" \/ Unresolved \ verifiedIds # {}
         /\ a \in {"assess_verification", "verify", "publish_draft", "finalize"} =>
              /\ Unresolved \ verifiedIds # {} => "author_tests" \notin Eligible
              /\ ~moved => "implement" \notin Eligible
              /\ ~ciAssessed => "configure_ci" \notin Eligible
         /\ a = "finalize" => "publish_draft" \notin Eligible
<1> DEFINE u == Len(Urgent)
           m == Len(MissingCi)
<1>1. CASE Eligible = {a}
  BY <1>1
<1>2. CASE Eligible # {a}
  <2>1. PICK i \in DOMAIN Preferences : a = Preferences[i] /\ IsFirstEligible(Preferences, i)
    BY <1>2, FixedChoice
  <2>2. u \in Nat /\ m \in {0, 1} /\ i \in Nat /\ i >= 1 /\ i <= u + m + 4
    BY <2>1, UrgentIs, MissingCiIs, PreferencesAre
  <2>3. \A j \in 1 .. (i - 1) : Preferences[j] \notin Eligible
    BY <2>1 DEF IsFirstEligible
  <2>4. i <= u => a \in {"implement", "author_tests"} /\ a = Urgent[i]
    BY <2>1, <2>2, UrgentIs, PreferencesAre
  <2>5. i > u /\ i <= u + m => a = "configure_ci"
    <3>1. SUFFICES ASSUME i > u, i <= u + m PROVE a = "configure_ci" OBVIOUS
    <3>2. i = u + 1 /\ m = 1
      <4> HIDE DEF u, m
      <4>1. QED BY <2>2, <3>1
    <3>3. QED BY <2>1, <3>2, PreferencesAre, MissingCiIs
  <2>6. i > u + m =>
          \/ a = "assess_verification" /\ i = u + m + 1
          \/ a = "verify" /\ i = u + m + 2
          \/ a = "publish_draft" /\ i = u + m + 3
          \/ a = "finalize" /\ i = u + m + 4
    <3>1. SUFFICES ASSUME i > u + m
                   PROVE  \/ a = "assess_verification" /\ i = u + m + 1
                          \/ a = "verify" /\ i = u + m + 2
                          \/ a = "publish_draft" /\ i = u + m + 3
                          \/ a = "finalize" /\ i = u + m + 4
      OBVIOUS
    <3>2. i \in {u + m + 1, u + m + 2, u + m + 3, u + m + 4}
      BY <2>2, <3>1
    <3>3. QED BY <2>1, <3>2, PreferencesAre
  <2>7. a = "author_tests" => lastVerification = "failed" \/ Unresolved \ verifiedIds # {}
    BY <2>2, <2>4, <2>5, <2>6, UrgentIs
  <2>8. ASSUME a \in {"assess_verification", "verify", "publish_draft", "finalize"}
        PROVE  /\ Unresolved \ verifiedIds # {} => "author_tests" \notin Eligible
               /\ ~moved => "implement" \notin Eligible
               /\ ~ciAssessed => "configure_ci" \notin Eligible
    <3>1. i > u + m
      BY <2>2, <2>4, <2>5, <2>8
    <3>2. \A j \in 1 .. u : Urgent[j] \notin Eligible
      BY <2>2, <2>3, <3>1, PreferencesAre
    <3>3. ~ciAssessed => "configure_ci" \notin Eligible
      <4>1. SUFFICES ASSUME ~ciAssessed PROVE "configure_ci" \notin Eligible OBVIOUS
      <4>2. m = 1 /\ Preferences[u + 1] = "configure_ci"
        BY <4>1, PreferencesAre
      <4>3. u + 1 \in 1 .. (i - 1)
        BY <2>2, <3>1, <4>2
      <4>4. QED BY <2>3, <4>2, <4>3
    <3>4. QED BY <3>2, <3>3, UrgentIs
  <2>9. a = "finalize" => "publish_draft" \notin Eligible
    <3>1. SUFFICES ASSUME a = "finalize" PROVE "publish_draft" \notin Eligible OBVIOUS
    <3>2. i = u + m + 4
      BY <2>2, <2>4, <2>5, <2>6, <3>1
    <3>3. u + m + 3 \in 1 .. (i - 1)
      BY <2>2, <3>2
    <3>4. QED BY <2>3, <3>3, PreferencesAre
  <2>10. QED BY <2>7, <2>8, <2>9
<1>3. QED BY <1>1, <1>2

\* An engine's answer never runs an action that is not eligible, and the fixed order
\* never gets past its end.
THEOREM FallbackAlwaysEligible == Spec => []FallbackIsEligible
<1>1. FallbackIsEligible
  BY SelectableIsEligible, OrderFindsEligible DEF FallbackIsEligible
<1>2. QED BY <1>1, PTL

-----------------------------------------------------------------------------
\* The invariant of runs in the fixed order, part by part.

\* What the attempts spent say of the record.
AttemptsTell ==
  /\ attempts["test_author"] = 0 => ~assessed
  /\ ~Stopped /\ attempts["implementer"] > 0 => moved \/ requested
  /\ ~Stopped /\ requested /\ options.granted /\ options.honoured => moved
  /\ node \notin {"finalize", "end"} => attempts["publisher"] = 0
  /\ lastVerification = "passed" => Cap > 0 /\ ~options.assessmentOnly

\* CI has been assessed, or may not be tried again.
CiSettled == ciAssessed \/ attempts["ci_author"] >= Cap

\* The order puts tests before an assessment, both before a verification, and nothing
\* but publication after one.
VisitsInOrder ==
  ~options.jev =>
    /\ node = "assess_verification" /\ ~options.assessmentOnly => Unresolved = {}
    /\ node = "author_tests" => lastVerification # "passed"
    /\ node = "verify" => CiSettled

TestsWereTried ==
  ~options.jev /\ ~options.assessmentOnly /\ ~Stopped =>
    (attempts["test_author"] > 0 /\ TestsGoFirst => uncertain)

PassIsLast == ~options.jev /\ lastVerification = "passed" => tree = "verified" /\ CiSettled

\* A run that attempts nothing has no budget left for the step that ends it.
MayEnd == Cap > 0 \/ step < 4

NothingIsLeftOut ==
  node = "finalize" /\ ~Stopped /\ ~options.jev =>
    /\ ~options.assessmentOnly /\ (options.granted => options.honoured) /\ MayEnd =>
         moved \/ uncertain \/ pending
    /\ lastVerification = "passed" /\ options.draft => publication = "open"

FixedOrder ==
  /\ AttemptsTell /\ VisitsInOrder /\ TestsWereTried /\ PassIsLast /\ NothingIsLeftOut
  /\ MovedInFixedOrder /\ VerifiedDraftIsOpened

Run == Safety /\ Ending /\ BudgetAccount

LEMMA InitFixedOrder == Init => FixedOrder
<1> SUFFICES ASSUME Init PROVE FixedOrder OBVIOUS
<1>1. \A w \in Workers : attempts[w] = 0 BY DEF Init
<1>2. QED
  BY <1>1 DEF Init, FixedOrder, AttemptsTell, VisitsInOrder, TestsWereTried, PassIsLast,
     NothingIsLeftOut, MovedInFixedOrder, MovedOrUncertain, VerifiedDraftIsOpened, Workers

LEMMA WhoAttempts ==
  ASSUME Run, [Next]_vars
  PROVE  /\ \A w \in Workers : attempts[w] \in Nat /\ attempts'[w] \in Nat
                                 /\ attempts[w] <= attempts'[w]
         /\ \/ AssessVerification \/ AuthorTests \/ TestAuthorFails
            \/ attempts'["test_author"] = attempts["test_author"]
         /\ AssessVerification \/ AuthorTests => attempts'["test_author"] > 0
         /\ Implement \/ ImplementerStops \/ attempts'["implementer"] = attempts["implementer"]
         /\ PublishDraft \/ PublisherFails \/ attempts'["publisher"] = attempts["publisher"]
<1>1. attempts \in [Workers -> Nat]
  BY DEF Run, Safety, Shape, ControlTyped
<1>2. UNCHANGED attempts \/ \E w \in Workers : Attempt(w)
  BY DEF Workers, vars, control, RejectRequest, Inspect, BaselineVerify, Research,
         PrologueFails, Route, AssessVerification, AuthorTests, TestAuthorFails, Implement,
         ImplementerStops, ConfigureCi, CiAuthorFails, Verify, InstallFails, VerifierFails,
         PublishDraft, PublisherFails, Finalize, RecursionLimit, Ends, Halts, Completes, Next
<1>3. \/ AssessVerification \/ AuthorTests \/ TestAuthorFails
      \/ UNCHANGED attempts \/ \E w \in Workers \ {"test_author"} : Attempt(w)
  BY DEF Workers, vars, control, RejectRequest, Inspect, BaselineVerify, Research,
         PrologueFails, Route, Implement, ImplementerStops, ConfigureCi, CiAuthorFails,
         Verify, InstallFails, VerifierFails, PublishDraft, PublisherFails, Finalize,
         RecursionLimit, Ends, Halts, Completes, Next
<1>4. \/ Implement \/ ImplementerStops
      \/ UNCHANGED attempts \/ \E w \in Workers \ {"implementer"} : Attempt(w)
  BY DEF Workers, vars, control, RejectRequest, Inspect, BaselineVerify, Research,
         PrologueFails, Route, AssessVerification, AuthorTests, TestAuthorFails, ConfigureCi,
         CiAuthorFails, Verify, InstallFails, VerifierFails, PublishDraft, PublisherFails,
         Finalize, RecursionLimit, Ends, Halts, Completes, Next
<1>5. \/ PublishDraft \/ PublisherFails
      \/ UNCHANGED attempts \/ \E w \in Workers \ {"publisher"} : Attempt(w)
  BY DEF Workers, vars, control, RejectRequest, Inspect, BaselineVerify, Research,
         PrologueFails, Route, AssessVerification, AuthorTests, TestAuthorFails, Implement,
         ImplementerStops, ConfigureCi, CiAuthorFails, Verify, InstallFails, VerifierFails,
         Finalize, RecursionLimit, Ends, Halts, Completes, Next
<1>6. AssessVerification \/ AuthorTests => Attempt("test_author")
  BY DEF AssessVerification, AuthorTests, Completes
<1>7. \A w \in Workers : Attempt(w) =>
        \A x \in Workers : attempts'[x] = IF x = w THEN attempts[x] + 1 ELSE attempts[x]
  BY <1>1 DEF Attempt
<1>8. \A w \in Workers : attempts[w] \in Nat /\ attempts'[w] \in Nat
                            /\ attempts[w] <= attempts'[w]
  BY <1>1, <1>2, <1>7
<1>9. AssessVerification \/ AuthorTests => attempts'["test_author"] > 0
  BY <1>1, <1>6, <1>7 DEF Workers
<1>10. QED BY <1>3, <1>4, <1>5, <1>7, <1>8, <1>9 DEF Workers

\* What only ever grows.
LEMMA RecordGrows ==
  ASSUME [Next]_vars
  PROVE  /\ addressed \subseteq addressed' /\ changes \subseteq changes'
         /\ AssessVerification \/ AuthorTests \/ UNCHANGED assessed
<1> USE DEF research, coverage, progress, verdict, stops, approval, outcome, vars,
            RejectRequest, Inspect, BaselineVerify, Research, PrologueFails, Route,
            AssessVerification, AuthorTests, TestAuthorFails, Implement,
            ApplyModelMigration, MoveDependencyOnly, MigrateToEsm, RequestElevation, Migrates,
            ImplementerStops, ConfigureCi, CiAuthorFails, Verify, VerifyCandidate,
            InstallFails, VerifierFails, PublishDraft, PublisherFails, Finalize,
            RecursionLimit, Ends, Halts, Next
<1>1. addressed \subseteq addressed' OBVIOUS
<1>2. changes \subseteq changes' OBVIOUS
<1>3. AssessVerification \/ AuthorTests \/ UNCHANGED assessed OBVIOUS
<1>4. QED BY ONLY <1>1, <1>2, <1>3

LEMMA StepAttemptsTell ==
  ASSUME Run, AttemptsTell, [Next]_vars
  PROVE  AttemptsTell'
<1> USE DEF AttemptsTell
<1>1. (~Stopped' => ~Stopped) /\ UNCHANGED options /\ Cap' = Cap
  BY StepStops, WhoWrites DEF Run, Cap
<1>2. attempts'["test_author"] = 0 => ~assessed'
  BY WhoAttempts, RecordGrows DEF Workers
<1>3. /\ ~Stopped' /\ attempts'["implementer"] > 0 => moved' \/ requested'
      /\ ~Stopped' /\ requested' /\ options'.granted /\ options'.honoured => moved'
  <2>1. CASE Implement
    <3>1. moved' \/ requested'
      BY <2>1 DEF Implement, ApplyModelMigration, MoveDependencyOnly, MigrateToEsm,
         RequestElevation, Migrates
    <3>2. options.granted /\ options.honoured => moved'
      BY <2>1 DEF Approach, Implement, ApplyModelMigration, MoveDependencyOnly,
         MigrateToEsm, RequestElevation, Migrates
    <3>3. QED BY <1>1, <3>1, <3>2
  <2>2. CASE ImplementerStops
    BY <2>2 DEF ImplementerStops, Halts, Stopped
  <2>3. CASE ~Implement /\ ~ImplementerStops
    <3>1. UNCHANGED <<moved, requested>> /\ attempts'["implementer"] = attempts["implementer"]
      BY <2>3, WhoWrites, WhoAttempts
    <3>2. QED BY <1>1, <3>1
  <2>4. QED BY <2>1, <2>2, <2>3
<1>4. node' \notin {"finalize", "end"} => attempts'["publisher"] = 0
  <2>1. CASE PublishDraft \/ PublisherFails
    <3>1. node' = "finalize"
      BY <2>1, CompletesIsTyped, HaltsIsTyped, Edges
         DEF PublishDraft, PublisherFails, Halts, Run, Safety, Shape, Phases, RoutableActions,
             Workers
    <3>2. QED BY <3>1
  <2>2. CASE UNCHANGED attempts["publisher"] /\ ~UNCHANGED vars
    <3>1. node \in {"finalize", "end"} => node' = "end"
      BY <2>2, FinalizeEnds DEF Finalize, RecursionLimit, Ends
    <3>2. QED BY <2>2, <3>1
  <2>3. CASE UNCHANGED vars
    BY <2>3 DEF vars, control
  <2>4. QED BY <2>1, <2>2, <2>3, WhoAttempts
<1>5. lastVerification' = "passed" => Cap' > 0 /\ ~options'.assessmentOnly
  <2>1. CASE Verify
    <3>1. attempts["verifier"] < Cap /\ ~options.assessmentOnly
      BY <2>1, OffersAre, WorkerActionsAre DEF Verify, Visit, Run, Safety, VisitIsOffered
    <3>2. attempts["verifier"] \in Nat /\ Cap \in Nat
      BY CountsAreNat DEF Run, Workers
    <3>3. QED BY <1>1, <3>1, <3>2
  <2>2. CASE InstallFails
    BY <2>2 DEF InstallFails
  <2>3. CASE ~Verify /\ ~InstallFails
    BY <1>1, <2>3, WhoWrites DEF verdict
  <2>4. QED BY <2>1, <2>2, <2>3
<1>6. QED BY <1>2, <1>3, <1>4, <1>5

\* Control gets to a worker from route only, by a choice of the router's.
LEMMA RouteChooses ==
  ASSUME Run, [Next]_vars, ~UNCHANGED vars, NEW a \in RoutableActions, node' = a,
         a = "finalize" => ~Stopped' /\ ~PublishDraft
  PROVE  /\ Route /\ a \in Selectable
         /\ UNCHANGED <<options, attempts, research, coverage, progress, verdict, ciAssessed,
                        stops, requested, outcome>>
<1>1. Route
  BY ControlStep, WorkerActionsAre DEF Run, Safety, Shape, Successor, RoutableActions
<1>2. PICK b \in Selectable : Leave("route", b)
  BY <1>1 DEF Route
<1>3. a = b
  BY <1>1, <1>2, LeaveIsLegal, SelectableIsRoutable, Edges
     DEF Route, Leave, Phases, RoutableActions, Run, Safety, Shape, Stopped
<1>4. QED BY <1>1, <1>2, <1>3 DEF Route

LEMMA StepVisitsInOrder ==
  ASSUME Run, AttemptsTell, VisitsInOrder, [Next]_vars
  PROVE  VisitsInOrder'
<1> USE DEF VisitsInOrder
<1>1. CASE UNCHANGED vars
  BY <1>1 DEF vars, control, research, progress, verdict, Unresolved, CiSettled, Cap
<1>2. CASE ~UNCHANGED vars /\ ~options'.jev
  <2>1. UNCHANGED options /\ ~options.jev
    BY <1>2, WhoWrites
  <2>2. ASSUME node' = "assess_verification", ~options'.assessmentOnly
        PROVE  Unresolved' = {}
    <3>1. /\ "assess_verification" \in Selectable
          /\ UNCHANGED <<findings, addressed>>
      BY <1>2, <2>2, RouteChooses DEF RoutableActions, research, progress
    <3>2. Offered("assess_verification")
      BY <3>1, SelectableIsOffered
    <3>3. attempts["test_author"] < Cap /\ ~assessed /\ Unverified # {}
      BY <3>2, OffersAre DEF MayAssess
    <3>4. Offered("author_tests")
      BY <2>1, <2>2, <3>3, OffersAre DEF MayAuthor, Sufficient
    <3>5. Unresolved \ verifiedIds = {}
      BY <2>1, <3>1, <3>4, FixedChoiceMeans, EligibleIs DEF RoutableActions
    <3>6. verifiedIds # {} => Unresolved = {}
      BY DEF Run, Ending, VerifiedIdsFollowAPass, Safety, PassCoversTheMove
    <3>7. Unresolved = {}
      BY <3>5, <3>6
    <3>8. QED BY <3>1, <3>7 DEF Unresolved
  <2>3. ASSUME node' = "author_tests"
        PROVE  lastVerification' # "passed"
    <3>1. "author_tests" \in Selectable /\ UNCHANGED lastVerification
      BY <1>2, <2>3, RouteChooses DEF RoutableActions, verdict
    <3>2. SUFFICES ASSUME lastVerification = "passed" PROVE FALSE
      BY <3>1
    <3>3. Unresolved = {}
      BY <3>2 DEF Run, Safety, PassCoversTheMove
    <3>4. "finalize" \in Eligible
      BY <3>2, OffersAre, EligibleIs DEF MayFinalize, RoutableActions
    <3>5. QED BY <2>1, <3>1, <3>2, <3>3, <3>4, FixedChoiceMeans
  <2>4. ASSUME node' = "verify"
        PROVE  CiSettled'
    <3>1. "verify" \in Selectable /\ UNCHANGED <<options, attempts, ciAssessed>>
      BY <1>2, <2>4, RouteChooses DEF RoutableActions
    <3>2. Offered("verify")
      BY <3>1, SelectableIsOffered
    <3>3. ~options.assessmentOnly /\ Unresolved = {}
      BY <3>2, OffersAre DEF MayVerify
    <3>4. ~ciAssessed => ~Offered("configure_ci")
      BY <2>1, <3>1, FixedChoiceMeans, EligibleIs DEF RoutableActions
    <3>5. ~ciAssessed => ~(attempts["ci_author"] < Cap)
      BY <3>3, <3>4, OffersAre DEF MayConfigureCi
    <3>6. CiSettled
      BY <3>5, CountsAreNat DEF CiSettled, Run, Workers
    <3>7. QED BY <3>1, <3>6 DEF CiSettled, Cap
  <2>5. QED BY <2>2, <2>3, <2>4
<1>3. QED BY <1>1, <1>2

LEMMA StepTests ==
  ASSUME Run, VisitsInOrder, TestsWereTried, [Next]_vars
  PROVE  TestsWereTried'
<1> SUFFICES ASSUME ~options'.jev, ~options'.assessmentOnly, ~Stopped',
                    attempts'["test_author"] > 0, TestsGoFirst'
             PROVE  uncertain'
  BY DEF TestsWereTried
<1>1. ~options.jev /\ ~options.assessmentOnly /\ ~Stopped
  BY WhoWrites, StepStops DEF Run
<1>2. CASE AssessVerification
  <2>1. Unresolved = {} /\ Unresolved' = Unresolved
    BY <1>1, <1>2 DEF AssessVerification, Visit, VisitsInOrder, research, progress, Unresolved
  <2>2. QED BY <2>1 DEF TestsGoFirst
<1>3. CASE AuthorTests
  BY <1>3 DEF AuthorTests, TestsGoFirst
<1>4. CASE TestAuthorFails
  BY <1>4 DEF TestAuthorFails, Halts, Stopped
<1>5. CASE ~AssessVerification /\ ~AuthorTests /\ ~TestAuthorFails
  <2>1. attempts["test_author"] > 0
    BY <1>5, WhoAttempts
  <2>2. node \notin {"inspect", "research"}
    BY <2>1, CountsAreNat DEF Run, BudgetAccount, Spent, Workers
  <2>3. ~Inspect /\ ~Research
    BY <2>2 DEF Inspect, Research, Visit
  <2>4. UNCHANGED findings /\ (uncertain => uncertain')
    BY <2>3, WhoWrites, UncertaintyStays
  <2>5. TestsGoFirst
    BY <2>4, RecordGrows DEF TestsGoFirst, Unresolved
  <2>6. QED BY <1>1, <2>1, <2>4, <2>5 DEF TestsWereTried
<1>6. QED BY <1>2, <1>3, <1>4, <1>5

\* In the fixed order no visit writes over a verified tree.
LEMMA VerifiedTreeStays ==
  ASSUME Run, VisitsInOrder, PassIsLast, ~options.jev, lastVerification = "passed",
         [Next]_vars
  PROVE  UNCHANGED tree /\ ~Verify /\ ~InstallFails
<1>1. moved /\ Unresolved = {} /\ CiSettled
  BY DEF Run, Safety, PassCoversTheMove, PassIsLast
<1>2. node \notin {"author_tests", "implement", "configure_ci", "verify"}
  <2>1. node # "author_tests"
    BY DEF VisitsInOrder
  <2>2. node # "implement"
    BY <1>1, OfferedMeans, WorkerActionsAre DEF Run, Safety, VisitIsOffered, MayImplement
  <2>3. node # "verify"
    BY OfferedMeans, WorkerActionsAre DEF Run, Safety, VisitIsOffered, MayVerify
  <2>4. node # "configure_ci"
    <3>1. SUFFICES ASSUME node = "configure_ci" PROVE FALSE OBVIOUS
    <3>2. Offered("configure_ci")
      BY <3>1, WorkerActionsAre DEF Run, Safety, VisitIsOffered
    <3>3. ~ciAssessed /\ attempts["ci_author"] < Cap
      BY <3>2, OffersAre DEF MayConfigureCi
    <3>4. QED BY <1>1, <3>3, CountsAreNat DEF CiSettled, Run, Workers
  <2>5. QED BY <2>1, <2>2, <2>3, <2>4
<1>3. /\ ~AuthorTests /\ ~Implement /\ ~ImplementerStops /\ ~ConfigureCi /\ ~CiAuthorFails
      /\ ~Verify /\ ~InstallFails
  BY <1>2 DEF AuthorTests, Implement, ImplementerStops, ConfigureCi, CiAuthorFails, Verify,
              InstallFails, Visit
<1>4. TestAuthorFails => UNCHANGED tree
  BY <1>2 DEF TestAuthorFails, Visit
<1>5. QED BY <1>3, <1>4, WhoWrites

\* Sufficient CI is not assessed again: no visit to configure it is offered.
LEMMA CiStaysAssessed ==
  ASSUME Run, ciAssessed, [Next]_vars
  PROVE  ciAssessed'
<1>1. ~ConfigureCi
  <2>1. node = "configure_ci" => ~ciAssessed
    BY OfferedMeans, WorkerActionsAre DEF Run, Safety, VisitIsOffered, MayConfigureCi
  <2>2. QED BY <2>1 DEF ConfigureCi, Visit
<1>2. ConfigureCi \/ UNCHANGED ciAssessed
  BY DEF research, coverage, progress, verdict, stops, approval, outcome, vars,
         RejectRequest, Inspect, BaselineVerify, Research, PrologueFails, Route,
         AssessVerification, AuthorTests, TestAuthorFails, Implement, ImplementerStops,
         CiAuthorFails, Verify, VerifyCandidate, InstallFails, VerifierFails, PublishDraft,
         PublisherFails, Finalize, RecursionLimit, Ends, Halts, Next
<1>3. QED BY <1>1, <1>2

LEMMA CiStaysSettled ==
  ASSUME Run, [Next]_vars, CiSettled
  PROVE  CiSettled'
<1>1. Cap' = Cap
  BY WhoWrites DEF Cap
<1>2. QED BY <1>1, WhoAttempts, CiStaysAssessed, CountsAreNat DEF CiSettled, Run, Workers

LEMMA StepPassIsLast ==
  ASSUME Run, VisitsInOrder, PassIsLast, [Next]_vars
  PROVE  PassIsLast'
<1> SUFFICES ASSUME ~options'.jev, lastVerification' = "passed"
             PROVE  tree' = "verified" /\ CiSettled'
  BY DEF PassIsLast
<1>1. ~options.jev
  BY WhoWrites
<1>2. CASE Verify
  <2>1. tree' = "verified"
    BY <1>2 DEF Verify, VerifyCandidate
  <2>2. CiSettled
    BY <1>1, <1>2 DEF Verify, Visit, VisitsInOrder
  <2>3. QED BY <2>1, <2>2, CiStaysSettled
<1>3. CASE InstallFails
  BY <1>3 DEF InstallFails
<1>4. CASE ~Verify /\ ~InstallFails
  <2>1. lastVerification = "passed"
    BY <1>4, WhoWrites DEF verdict
  <2>2. UNCHANGED tree
    BY <1>1, <2>1, VerifiedTreeStays
  <2>3. QED BY <1>1, <2>1, <2>2, CiStaysSettled DEF PassIsLast
<1>5. QED BY <1>2, <1>3, <1>4

\* When the fixed order comes to finalize, the implementer has had its turn and the
\* publisher a turn to take.
LEMMA FixedOrderFinalizes ==
  ASSUME Run, AttemptsTell, TestsWereTried, ~options.jev, ~Stopped, node = "route",
         "finalize" \in Selectable, ~options.assessmentOnly
  PROVE  /\ (options.granted => options.honoured) /\ Cap > 0 =>
              moved \/ uncertain \/ (requested /\ ~options.granted)
         /\ lastVerification = "passed" /\ options.draft => publication = "open"
<1> USE DEF Run
<1>1. ASSUME options.granted => options.honoured, Cap > 0, ~moved, ~uncertain,
             ~(requested /\ ~options.granted)
      PROVE  FALSE
  <2>1. ~requested /\ attempts["implementer"] = 0
    BY <1>1, CountsAreNat DEF AttemptsTell, Workers
  <2>2. ~Offered("implement")
    BY <1>1, FixedChoiceMeans, EligibleIs DEF RoutableActions
  <2>3. TestsGoFirst
    BY <1>1, <2>1, <2>2, OffersAre DEF AwaitingApproval, MayImplement
  <2>4. attempts["test_author"] = 0 /\ ~assessed
    BY <1>1, <2>3, CountsAreNat DEF TestsWereTried, AttemptsTell, Workers
  <2>5. lastVerification # "passed" /\ verifiedIds = {}
    BY <1>1 DEF Safety, PassCoversTheMove, Ending, VerifiedIdsFollowAPass
  <2>6. Unresolved # {} /\ Unresolved \subseteq Unverified
    BY <2>3, <2>5 DEF TestsGoFirst, Unresolved, Unverified
  <2>7. Offered("author_tests")
    BY <1>1, <2>4, <2>6, OffersAre DEF MayAuthor, Sufficient
  <2>8. QED
    BY <2>5, <2>6, <2>7, FixedChoiceMeans, EligibleIs DEF RoutableActions
<1>2. ASSUME lastVerification = "passed", options.draft, publication # "open"
      PROVE  FALSE
  <2>1. attempts["publisher"] < Cap
    BY <1>2 DEF AttemptsTell
  <2>2. Offered("publish_draft")
    BY <1>2, <2>1, OffersAre DEF MayPublish
  <2>3. QED BY <2>2, FixedChoiceMeans, EligibleIs DEF RoutableActions
<1>3. QED BY <1>1, <1>2

LEMMA StepNothingIsLeftOut ==
  ASSUME Run, AttemptsTell, TestsWereTried, NothingIsLeftOut, [Next]_vars
  PROVE  NothingIsLeftOut'
<1> SUFFICES ASSUME node' = "finalize", ~Stopped', ~options'.jev
             PROVE  /\ /\ ~options'.assessmentOnly
                       /\ options'.granted => options'.honoured
                       /\ MayEnd'
                       => moved' \/ uncertain' \/ pending'
                    /\ lastVerification' = "passed" /\ options'.draft => publication' = "open"
  BY DEF NothingIsLeftOut
<1>1. ~options.jev /\ ~Stopped /\ UNCHANGED options /\ Cap' = Cap
  BY WhoWrites, StepStops DEF Run, Cap
<1>2. CASE UNCHANGED vars
  BY <1>1, <1>2 DEF vars, control, progress, stops, approval, verdict, outcome,
                    NothingIsLeftOut, MayEnd
<1>3. CASE PublishDraft
  <2>1. lastVerification = "passed"
    BY <1>3, OfferedMeans, WorkerActionsAre
       DEF PublishDraft, Visit, Run, Safety, VisitIsOffered, MayPublish
  <2>2. moved' /\ publication' = "open"
    BY <1>3, <2>1 DEF PublishDraft, progress, Run, Safety, PassCoversTheMove
  <2>3. QED BY <2>2
<1>4. CASE ~UNCHANGED vars /\ ~PublishDraft
  <2>1. /\ Route /\ "finalize" \in Selectable
        /\ UNCHANGED <<progress, verdict, stops, requested, outcome>>
    BY <1>4, RouteChooses DEF RoutableActions
  <2>2. /\ node = "route" /\ step' = step + 1
        /\ pending' = (pending \/ (requested /\ ~options.granted))
    BY <2>1 DEF Route, Visit, Leave
  <2>3. MayEnd' => Cap > 0
    <3>1. step = 3 + 2 * Spent /\ step \in Nat /\ Spent \in Nat
      BY <2>2, CountsAreNat DEF Run, BudgetAccount
    <3>2. QED BY <1>1, <2>2, <3>1 DEF MayEnd
  <2>4. CASE ~options.assessmentOnly
    BY <1>1, <2>1, <2>2, <2>3, <2>4, FixedOrderFinalizes
       DEF progress, verdict, stops, outcome
  <2>5. CASE options.assessmentOnly
    BY <1>1, <2>1, <2>5 DEF AttemptsTell, verdict
  <2>6. QED BY <2>4, <2>5
<1>5. QED BY <1>2, <1>3, <1>4, ControlStep DEF Run, Safety, Shape

\* How a run in the fixed order is classified, read off the state it ends in.
LEMMA StepOutcome ==
  ASSUME Run, NothingIsLeftOut, MovedInFixedOrder, VerifiedDraftIsOpened, [Next]_vars
  PROVE  MovedInFixedOrder' /\ VerifiedDraftIsOpened'
<1>1. CASE UNCHANGED vars
  BY <1>1 DEF vars, control, progress, stops, approval, verdict, outcome,
              MovedInFixedOrder, MovedOrUncertain, VerifiedDraftIsOpened
<1>2. CASE result' \notin {"verified", "partial", "indeterminate"}
  BY <1>2 DEF MovedInFixedOrder, MovedOrUncertain, VerifiedDraftIsOpened
<1>3. CASE ~UNCHANGED vars /\ result' \in {"verified", "partial", "indeterminate"}
  <2>1. Finalize
    <3>1. node' = "end"
      BY <1>3, StepResultIsLast DEF Run, ResultIsLast
    <3>2. node # "end"
      BY <1>3, EndIsQuiet
    <3>3. Finalize \/ RecursionLimit
      BY <1>3, <3>1, <3>2, ControlStep, SelectableIsRoutable
         DEF Run, Safety, Shape, Successor, RoutableActions
    <3>4. ~RecursionLimit
      BY <1>3 DEF RecursionLimit, Ends, Classification
    <3>5. QED BY <3>3, <3>4
  <2>2. /\ node = "finalize" /\ step < Budget /\ result' = Classification(Stopped)
        /\ UNCHANGED <<options, progress, verdict, stops, publication>>
    BY <2>1 DEF Finalize, Visit, Ends
  <2>3. ~Stopped /\ ~pending
    <3>1. ~Stopped
      BY <1>3, <2>2 DEF Classification
    <3>2. baseline # "none"
      BY <2>2, <3>1 DEF Run, Ending, BaselineIsOnRecord
    <3>3. QED BY <1>3, <2>2, <3>1, <3>2 DEF Classification
  <2>4. MayEnd
    BY <2>2, CountsAreNat DEF MayEnd, Budget, Cap, Run
  <2>5. result' = "verified" => lastVerification = "passed"
    BY <2>2, StepResult DEF Run, ResultAgrees, VerifiedWasEstablished, verdict
  <2>6. ~options.jev =>
          /\ ~options.assessmentOnly /\ (options.granted => options.honoured) =>
               moved \/ uncertain
          /\ result' = "verified" /\ options.draft => publication = "open"
    BY <2>2, <2>3, <2>4, <2>5 DEF NothingIsLeftOut
  <2>7. QED
    BY <2>2, <2>6 DEF MovedInFixedOrder, MovedOrUncertain, VerifiedDraftIsOpened,
                      progress, stops
<1>4. QED BY <1>1, <1>2, <1>3

LEMMA StepFixedOrder ==
  ASSUME Run, FixedOrder, [Next]_vars
  PROVE  FixedOrder'
BY StepAttemptsTell, StepVisitsInOrder, StepTests, StepPassIsLast, StepNothingIsLeftOut,
   StepOutcome DEF FixedOrder

LEMMA FixedOrderHolds == Spec => [](Run /\ FixedOrder)
<1>1. Safety /\ BudgetAccount /\ [Next]_vars => BudgetAccount'
  BY StepBudget
<1>2. Safety /\ Ending /\ BudgetAccount => Run
  BY DEF Run
<1>3. Run /\ FixedOrder /\ [Next]_vars => FixedOrder'
  BY StepFixedOrder
<1>4. QED BY InitFixedOrder, InitBudget, EndingHolds, <1>1, <1>2, <1>3, PTL DEF Spec

\* A run in the fixed order that ends without a stop or an outstanding approval has
\* moved the dependency, unless it says what it is uncertain of.
THEOREM FixedOrderMoves == Spec => []MovedInFixedOrder
<1>1. FixedOrder => MovedInFixedOrder BY DEF FixedOrder
<1>2. QED BY FixedOrderHolds, <1>1, PTL

\* What it publishes is, to the last file, what the verifier saw.
THEOREM DraftHoldsWhatWasVerified == Spec => []DraftIsAsVerified
<1>1. Run /\ FixedOrder => DraftIsAsVerified
  BY DEF Run, Safety, PublicationIsLast, FixedOrder, PassIsLast, DraftIsAsVerified
<1>2. QED BY FixedOrderHolds, <1>1, PTL

\* A draft that was asked for is open before the run is called verified.
THEOREM DraftIsOpened == Spec => []VerifiedDraftIsOpened
<1>1. FixedOrder => VerifiedDraftIsOpened BY DEF FixedOrder
<1>2. QED BY FixedOrderHolds, <1>1, PTL

\* Verification follows both steps as long as the order is fixed: what VerificationFollowsBoth
\* says of every run, and an engine does not keep, holds of these.
THEOREM FixedOrderVerifiesLast ==
  Spec => [][~options.jev =>
               (lastVerification = "passed" /\ node \in {"author_tests", "implement"} =>
                  UNCHANGED tree)]_vars
<1>1. Run /\ FixedOrder /\ [Next]_vars =>
        [~options.jev =>
           (lastVerification = "passed" /\ node \in {"author_tests", "implement"} =>
              UNCHANGED tree)]_vars
  BY VerifiedTreeStays DEF FixedOrder
<1>2. QED BY FixedOrderHolds, <1>1, PTL DEF Spec

=============================================================================
