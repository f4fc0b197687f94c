----------------------------- MODULE UpgradeRun -----------------------------
(***************************************************************************)
(* One upgrade run: the state machine of packages/graph, the router that   *)
(* picks the next action, the workers of packages/workers seen through the *)
(* state updates they return, and the classification that ends the run.    *)
(*                                                                         *)
(* The graph executes one node per superstep.  `node` is the node that     *)
(* runs next; `phase`, like every other variable below, is a channel of    *)
(* UpgradeState that the nodes read and write.                             *)
(*                                                                         *)
(* What is abstracted: file contents, release text, reports.  A finding is *)
(* an opaque id with a Kind; a list the code only tests for emptiness      *)
(* (blocking conditions, uncertainty) is a boolean; recorded file changes  *)
(* are the set of their owners, which is all the rules look at.            *)
(***************************************************************************)
EXTENDS Naturals, Sequences

CONSTANTS
  Findings,           \* ids research may record
  Kind,               \* what each of them is, one of Kinds
  Researched,         \* the sets of findings research may return
  Configurations      \* the options a run may be started with

\* The shapes of finding deriveFindings produces.  "node" is a raised Node floor
\* the authored workflow satisfies and "node_high" one it does not; "renamed" is
\* a confirmed export rename reached from source only, "renamed_in_tests" one
\* that a test file reaches too; "removed" is a break only a person or the coding
\* model can fix in files that are known, "peer" one that names no file.
Kinds == {"esm", "deprecated", "node", "node_high", "no_sites",
          "renamed", "renamed_in_tests", "removed", "peer"}

Options == [jev : BOOLEAN,            \* --engine jev rather than the fixed order
            patchModel : BOOLEAN,     \* a coding model is configured
            granted : BOOLEAN,        \* the elevation the ESM move asks for is approved
            honoured : BOOLEAN,       \* the parent warrant can delegate that elevation
            assessmentOnly : BOOLEAN,
            draft : BOOLEAN,          \* createDraftPullRequest
            partialAllowed : BOOLEAN,
            maxWorkerAttempts : Nat,  \* RouterConfig
            maxGraphSteps : Nat]

ASSUME FindingsAssumption == /\ Kind \in [Findings -> Kinds]
                             /\ Researched \subseteq SUBSET Findings
ASSUME OptionsAssumption  == Configurations \subseteq Options

VARIABLES
  options,    \* fixed for the run
  node, phase, step, attempts,
  findings, baseline,
  unreached,      \* findings with an affected file no test reaches (repository fact)
  testsPending,   \* a test file still has to be converted (repository fact)
  assessed, uncovered,
  addressed, verifiedIds, moved, changes,
  tree,           \* history: what the worktree holds relative to the last passing verification
  lastVerification, resolved, diffOk, checksFailing, ciAssessed,
  blocking, prohibited, uncertain,
  requested, pending,
  publication,    \* "none", "pushed" (branch without a pull request) or "open"
  result

control  == <<node, phase, step, attempts>>
research == <<findings, baseline>>
coverage == <<unreached, testsPending, assessed, uncovered>>
progress == <<addressed, moved, changes, tree>>
verdict  == <<verifiedIds, lastVerification, resolved, diffOk, checksFailing>>
stops    == <<blocking, prohibited, uncertain>>
approval == <<requested, pending>>
outcome  == <<publication, result>>
vars == <<options, control, research, coverage, progress, verdict, ciAssessed,
          stops, approval, outcome>>

-----------------------------------------------------------------------------
\* Phases, legal moves and the worker behind each action (transitions.ts).

RoutableActions == {"assess_verification", "author_tests", "implement",
                    "configure_ci", "verify", "publish_draft", "finalize"}

Phases == {"inspect", "baseline_verify", "research", "route"} \cup RoutableActions

Workers == {"inspector", "researcher", "test_author", "implementer",
            "ci_author", "verifier", "publisher"}

TransitionsIfPublishReturns ==
  [p \in Phases |->
     CASE p = "inspect"         -> {"baseline_verify", "finalize"}
       [] p = "baseline_verify" -> {"research", "finalize"}
       [] p = "research"        -> {"route", "finalize"}
       [] p = "route"           -> RoutableActions
       [] p = "publish_draft"   -> {"route"}
       [] p = "finalize"        -> {}
       [] OTHER                 -> {"route", "finalize"}]
Transitions ==
  [p \in Phases |->
     CASE p = "inspect"         -> {"baseline_verify", "finalize"}
       [] p = "baseline_verify" -> {"research", "finalize"}
       [] p = "research"        -> {"route", "finalize"}
       [] p = "route"           -> RoutableActions
       [] p = "publish_draft"   -> {"finalize"}
       [] p = "finalize"        -> {}
       [] OTHER                 -> {"route", "finalize"}]

ActionWorker ==
  [assess_verification |-> "test_author", author_tests |-> "test_author",
   implement |-> "implementer", configure_ci |-> "ci_author",
   verify |-> "verifier", publish_draft |-> "publisher"]

WorkerActions == DOMAIN ActionWorker

-----------------------------------------------------------------------------
\* What a finding calls for (derive.ts), and the derived reads of state.ts.

SpansTests(f) == Kind[f] \in {"esm", "renamed_in_tests"}
NoSource(f)   == Kind[f] \in {"node", "node_high", "no_sites"}
NeedsHuman(f) == Kind[f] \in {"removed", "peer"}
Renamed(f)    == Kind[f] \in {"renamed", "renamed_in_tests"}
Esm(f)        == Kind[f] = "esm"
HasFiles(f)   == ~NoSource(f) /\ Kind[f] \notin {"deprecated", "peer"}

Unresolved == {f \in findings : ~NoSource(f) /\ f \notin addressed}
Unverified == findings \ verifiedIds
Sufficient == assessed /\ uncovered = {}
Stopped    == blocking \/ prohibited

-----------------------------------------------------------------------------
\* Eligibility (eligibility.ts).

AwaitingApproval(w) == w = "implementer" /\ requested /\ ~options.granted

\* RULES: when each action makes sense, attempt limits and approvals aside.  An
\* operator named ...If is the rule with a bug the runs have to notice.
MayAssess == findings # {} /\ ~assessed /\ Unverified # {}

MayAuthor == Unverified # {} /\ ~Sufficient

\* Findings that span test files wait until the test author has written something.
TestsGoFirst == "test_author" \notin changes /\ \E f \in Unresolved : SpansTests(f)

\* ... once waited for a finding before it moved the dependency
MayImplementIfFindings == ~TestsGoFirst /\ (Unresolved # {} \/ lastVerification = "failed")
MayImplement ==
  ~TestsGoFirst /\ (~moved \/ Unresolved # {} \/ lastVerification = "failed")

MayConfigureCiIfMissing == ~ciAssessed
MayConfigureCi == Unresolved = {} /\ ~ciAssessed

MayVerifyIfIncomplete ==
  changes \cap {"implementer", "test_author"} # {} /\ lastVerification # "passed"
MayVerifyIfRepeated ==
  changes \cap {"implementer", "test_author"} # {} /\ Unresolved = {}
MayVerify ==
  /\ changes \cap {"implementer", "test_author"} # {}
  /\ Unresolved = {}
  /\ lastVerification # "passed"

MayPublish == options.draft /\ lastVerification = "passed" /\ publication # "open"

MayFinalize == Stopped \/ step >= options.maxGraphSteps \/ lastVerification = "passed"

Rule ==
  [assess_verification |-> MayAssess, author_tests |-> MayAuthor,
   implement |-> MayImplement, configure_ci |-> MayConfigureCi, verify |-> MayVerify,
   publish_draft |-> MayPublish, finalize |-> MayFinalize]

WithinAttempts(a) ==
  a \in WorkerActions => /\ attempts[ActionWorker[a]] < options.maxWorkerAttempts
                         /\ ~AwaitingApproval(ActionWorker[a])

OfferedIfModeIgnored(a) == a \in Transitions["route"] /\ WithinAttempts(a) /\ Rule[a]
Offered(a) ==
  /\ a \in Transitions["route"]
  /\ options.assessmentOnly => a \in {"assess_verification", "finalize"}
  /\ WithinAttempts(a)
  /\ Rule[a]

\* `finalize` is appended when nothing else qualifies.
Eligible ==
  LET offered == {a \in RoutableActions : Offered(a)}
  IN IF offered = {} THEN {"finalize"} ELSE offered

-----------------------------------------------------------------------------
\* Routing (router.ts, fallback.ts).

Urgent ==
  (IF lastVerification = "failed" THEN <<"implement", "author_tests">> ELSE <<>>)
    \o (IF Unresolved \ verifiedIds # {} THEN <<"author_tests">> ELSE <<>>)
    \o (IF ~moved \/ Unresolved # {} THEN <<"implement">> ELSE <<>>)

MissingCi == IF ~ciAssessed THEN <<"configure_ci">> ELSE <<>>

PreferencesIfVerifyLeftOut ==
  Urgent \o MissingCi \o <<"assess_verification", "publish_draft", "finalize">>
PreferencesIfCiLast ==
  Urgent \o <<"assess_verification", "verify">> \o MissingCi \o <<"publish_draft", "finalize">>
PreferencesIfFinalizeFirst ==
  Urgent \o MissingCi \o <<"assess_verification", "verify", "finalize", "publish_draft">>
Preferences ==
  Urgent \o MissingCi \o <<"assess_verification", "verify", "publish_draft", "finalize">>

IsFirstEligible(order, i) ==
  /\ order[i] \in Eligible
  /\ \A j \in 1 .. (i - 1) : order[j] \notin Eligible

DeterministicFallback ==
  LET order == Preferences
  IN IF \E i \in DOMAIN order : IsFirstEligible(order, i)
     THEN order[CHOOSE i \in DOMAIN order : IsFirstEligible(order, i)]
     ELSE "finalize"

\* The deterministic engine refuses every question, so the fixed order decides.
\* Jev may name any offered action; a refused, malformed or low-confidence answer
\* falls back to the fixed order.  A list of one is never put to an engine.
Selectable ==
  IF \E a \in RoutableActions : Eligible = {a} THEN Eligible
  ELSE IF options.jev THEN Eligible \cup {DeterministicFallback}
  ELSE {DeterministicFallback}

-----------------------------------------------------------------------------
\* Nodes (nodes.ts) and the edge out of each (build-graph.ts).

\* The superstep budget handed to LangGraph as its recursion limit: four nodes of
\* prologue, and a route and a worker for each of seven routable actions per attempt.
BudgetIfOneNodeEach == 4 + 7 * options.maxWorkerAttempts
Budget == 4 + 14 * options.maxWorkerAttempts

Visit(n) == node = n /\ step < Budget

\* transitionTo: a recorded stop wins over whatever phase the node intended, and an
\* illegal move throws out of the graph.
LeaveIfPhaseKept(n, intended) ==
  LET next == IF blocking' \/ prohibited' THEN "finalize" ELSE intended
  IN step' = step + 1 /\ phase' = phase /\ node' = next
Leave(n, intended) ==
  LET next == IF blocking' \/ prohibited' THEN "finalize" ELSE intended
  IN /\ step' = step + 1
     /\ phase' = intended
     /\ node' = IF next \in Transitions[n] THEN next ELSE "illegal"

Attempt(w) == attempts' = [attempts EXCEPT ![w] = @ + 1]

\* A worker that returned normally; its node sets the successor phase.
Completes(w, n, successor) == Attempt(w) /\ Leave(n, successor)

\* A worker that returned only a blocking condition, or threw: its update is lost
\* (asBlockingCondition), what it had already written is not.  `phase` stays behind
\* when it threw.
Halts(w, n, successor) ==
  /\ Attempt(w)
  /\ blocking' = TRUE
  /\ UNCHANGED <<options, research, coverage, addressed, moved, changes, verdict,
                 ciAssessed, prohibited, uncertain, pending, result>>
  /\ \E intended \in {n, successor} : Leave(n, intended)

EditsOrNot == tree' \in {tree, "edited"}

Init ==
  /\ options \in Configurations
  /\ node = "inspect" /\ phase = "inspect" /\ step = 0
  /\ attempts = [w \in Workers |-> 0]
  /\ findings = {} /\ baseline = "none"
  /\ unreached = {} /\ testsPending = FALSE /\ assessed = FALSE /\ uncovered = {}
  /\ addressed = {} /\ moved = FALSE /\ changes = {} /\ tree = "pristine"
  /\ verifiedIds = {} /\ lastVerification = "not_run"
  /\ resolved = FALSE /\ diffOk = TRUE /\ checksFailing = FALSE
  /\ ciAssessed = FALSE
  /\ blocking = FALSE /\ prohibited = FALSE /\ uncertain = FALSE
  /\ requested = FALSE /\ pending = FALSE
  /\ publication = "none" /\ result = "none"

-----------------------------------------------------------------------------
\* The fixed prologue.

\* The request fails validation, before any worker runs.
RejectRequest ==
  /\ Visit("inspect")
  /\ blocking' = TRUE
  /\ UNCHANGED <<options, attempts, research, coverage, progress, verdict, ciAssessed,
                 prohibited, uncertain, approval, outcome>>
  /\ Leave("inspect", phase)

Inspect ==
  /\ Visit("inspect")
  /\ blocking' \in BOOLEAN      \* the worktree is dirty or at another commit
  /\ uncertain' \in BOOLEAN     \* uncommitted source, or no test script
  /\ UNCHANGED <<options, research, coverage, progress, verdict, ciAssessed,
                 prohibited, approval, outcome>>
  /\ Completes("inspector", "inspect", "baseline_verify")

BaselineVerify ==
  /\ Visit("baseline_verify")
  /\ baseline' \in {"passed", "failed"}
  /\ blocking' \in BOOLEAN      \* the install itself failed
  /\ blocking' => baseline' = "failed"
  /\ UNCHANGED <<options, findings, coverage, progress, verdict, ciAssessed,
                 prohibited, uncertain, approval, outcome>>
  /\ Completes("inspector", "baseline_verify", "research")

Research ==
  /\ Visit("research")
  /\ findings' \in Researched
  /\ unreached' \in SUBSET {f \in findings' : HasFiles(f)}
  /\ testsPending' \in BOOLEAN
  /\ testsPending' => \E f \in findings' : Esm(f)
  /\ uncertain' \in {uncertain, TRUE}
  /\ (\E f \in findings' : Kind[f] = "no_sites") => uncertain'
  /\ blocking' = \E f \in findings' : Kind[f] = "deprecated"
  /\ UNCHANGED <<options, baseline, assessed, uncovered, progress, verdict, ciAssessed,
                 prohibited, approval, outcome>>
  /\ Completes("researcher", "research", "route")

PrologueFails ==
  /\ \/ Visit("inspect") /\ Halts("inspector", "inspect", "baseline_verify")
     \/ Visit("baseline_verify") /\ Halts("inspector", "baseline_verify", "research")
     \/ Visit("research") /\ Halts("researcher", "research", "route")
  /\ UNCHANGED <<tree, requested, publication>>

-----------------------------------------------------------------------------
\* Routing chooses the phase and reports the approvals nobody has given.

Route ==
  /\ Visit("route")
  /\ pending' = (pending \/ (requested /\ ~options.granted))
  /\ UNCHANGED <<options, attempts, research, coverage, progress, verdict, ciAssessed,
                 stops, requested, outcome>>
  /\ \E a \in Selectable : Leave("route", a)

-----------------------------------------------------------------------------
\* test_author

\* What `assess` may report uncovered when the tests leave `missed` unreached.  A
\* reached finding other than the ESM move still needs the engine to say that a
\* test asserts it, and the deterministic engine never says so.
Assessments(missed) ==
  LET known == {f \in findings : ~NoSource(f)}
      asked == {f \in known \ missed : ~Esm(f)}
  IN IF options.jev THEN {(known \cap missed) \cup doubted : doubted \in SUBSET asked}
     ELSE {(known \cap missed) \cup asked}

AssessVerification ==
  /\ Visit("assess_verification")
  /\ assessed' = TRUE
  /\ uncovered' \in Assessments(unreached)
  /\ UNCHANGED <<options, research, unreached, testsPending, progress, verdict,
                 ciAssessed, stops, approval, outcome>>
  /\ Completes("test_author", "assess_verification", "route")

\* Assess, add model tests and load tests, convert test files for an ESM move, and
\* assess again.  A model proposal for uncovered findings is never empty.
\* Model tests are written when any are called for; a load test needs a file that no
\* test reaches, and may still fail to reach it.
AddsTests(byModel, added, reached) ==
  /\ byModel # {} => added
  /\ added => byModel # {} \/ unreached # {}
  /\ reached # {} => added
  /\ unreached' = unreached \ reached

\* Converting test files for the ESM move may leave some behind.
ConvertsTests(migrated) ==
  /\ migrated => testsPending
  /\ testsPending' \in IF migrated THEN BOOLEAN ELSE {testsPending}

ModelTests(initial) == {f \in initial : options.patchModel /\ NeedsHuman(f)}

AuthorTests ==
  /\ Visit("author_tests")
  /\ \E initial \in Assessments(unreached), reached \in SUBSET unreached,
        added, migrated \in BOOLEAN :
       /\ AddsTests(ModelTests(initial), added, reached)
       /\ ConvertsTests(migrated)
       /\ uncovered' \in Assessments(unreached')
       /\ IF added \/ migrated
          THEN /\ changes' = changes \cup {"test_author"}
               /\ tree' = "edited"
               /\ UNCHANGED uncertain
          ELSE uncertain' = TRUE /\ UNCHANGED <<changes, tree>>
  /\ assessed' = TRUE
  /\ UNCHANGED <<options, research, addressed, moved, verdict, ciAssessed, blocking,
                 prohibited, approval, outcome>>
  /\ Completes("test_author", "author_tests", "route")

TestAuthorFails ==
  /\ \/ /\ Visit("assess_verification")
        /\ Halts("test_author", "assess_verification", "route")
        /\ UNCHANGED tree
     \/ /\ Visit("author_tests")
        /\ Halts("test_author", "author_tests", "route")
        /\ EditsOrNot
  /\ UNCHANGED <<requested, publication>>

-----------------------------------------------------------------------------
\* implementer

ForAPerson == {f \in findings : NeedsHuman(f)}
NoWrites   == {f \in findings : NoSource(f)}
EsmMoves   == {f \in findings : Esm(f)}
Renames    == {f \in findings : Renamed(f)}

\* How the implementer reads the findings, in the order it looks.  A break that names
\* no file leaves the coding model nothing it may edit.  Setting the manifest's `type`
\* is a capability no worker holds: a grant hands it out, unless the parent warrant
\* cannot delegate it, and without it the visit only asks.
Approach ==
  IF ForAPerson # {}
    THEN IF options.patchModel /\ \A f \in ForAPerson : Kind[f] # "peer"
           THEN "model" ELSE "person"
  ELSE IF moved /\ lastVerification = "failed" /\ Unresolved = {} THEN "out_of_rules"
  ELSE IF EsmMoves = {} THEN "move"
  ELSE IF options.granted /\ options.honoured THEN "convert"
  ELSE "ask"

Migrates(done) ==
  /\ moved' = TRUE
  /\ addressed' = addressed \cup done
  /\ changes' = changes \cup {"implementer"}
  /\ tree' = "edited"

ApplyModelMigration ==
  /\ Approach = "model"
  /\ Migrates(ForAPerson \cup NoWrites \cup Renames)
  /\ UNCHANGED <<requested, uncertain>>

MoveDependencyOnly ==
  /\ Approach = "move"
  /\ Migrates(NoWrites \cup Renames)
  /\ UNCHANGED <<requested, uncertain>>

\* A granted request is retried within the node, so one visit records it and acts.
MigrateToEsm ==
  /\ Approach = "convert"
  /\ Migrates(EsmMoves \cup Renames)
  /\ requested' = TRUE
  /\ uncertain' = (uncertain \/ testsPending)

RequestElevation ==
  /\ Approach = "ask"
  /\ requested' = TRUE
  /\ UNCHANGED <<progress, uncertain>>

Implement ==
  /\ Visit("implement")
  /\ ApplyModelMigration \/ MoveDependencyOnly \/ MigrateToEsm \/ RequestElevation
  /\ UNCHANGED <<options, research, coverage, verdict, ciAssessed, blocking, prohibited,
                 pending, outcome>>
  /\ Completes("implementer", "implement", "route")

\* A person is needed, no rule is left, a conversion is refused, the move fails or
\* drags other packages along, or a tool call throws.  A conversion that is refused
\* after a retry within the node keeps the request it was retried for.
ImplementerStops ==
  /\ Visit("implement")
  /\ Halts("implementer", "implement", "route")
  /\ IF Approach \in {"model", "move", "convert"} THEN EditsOrNot ELSE UNCHANGED tree
  /\ requested' \in IF Approach = "convert" THEN {requested, TRUE} ELSE {requested}
  /\ UNCHANGED publication

-----------------------------------------------------------------------------
\* ci_author: the workflows may suffice; otherwise it writes its own and reads them again.
\* A re-read whose listing fails counts as one that found none, and so as CI that is still
\* insufficient.  A second write never succeeds: after the first nothing is missing, and a
\* listing that fails has the write expect no file.  Only a visit that writes discharges
\* the Node floor.

ConfigureCi ==
  /\ Visit("configure_ci")
  /\ \/ ciAssessed' = TRUE /\ UNCHANGED progress
     \/ /\ "ci_author" \notin changes
        /\ ciAssessed' \in BOOLEAN
        /\ addressed' = addressed \cup {f \in findings : Kind[f] = "node"}
        /\ changes' = changes \cup {"ci_author"}
        /\ tree' = "edited"
        /\ UNCHANGED moved
  /\ UNCHANGED stops
  /\ UNCHANGED <<options, research, coverage, verdict, approval, outcome>>
  /\ Completes("ci_author", "configure_ci", "route")

CiAuthorFails ==
  /\ Visit("configure_ci")
  /\ Halts("ci_author", "configure_ci", "route")
  /\ EditsOrNot
  /\ UNCHANGED <<requested, publication>>

-----------------------------------------------------------------------------
\* verifier

\* The ids one passing verification establishes.
Established == {f \in findings : NoSource(f) \/ f \notin uncovered}

\* What the engine's completeness review may veto, one finding at a time.
Reviewable == IF options.jev THEN {f \in findings : ~NoSource(f)} ELSE {}

\* The frozen install worked; checks, the exact-target read and the diff policy decide.
VerifyCandidate(failing, violating, rejected) ==
  LET passed == ~failing /\ ~violating /\ resolved'
  IN /\ resolved' \in IF moved THEN BOOLEAN ELSE {FALSE}
     /\ lastVerification' = IF passed THEN "passed" ELSE "failed"
     /\ diffOk' = ~violating
     /\ prohibited' = (prohibited \/ violating)
     /\ checksFailing' \in BOOLEAN
     /\ checksFailing' => failing     \* a failing lint is not a required check
     /\ rejected # {} => passed
     /\ verifiedIds' = IF passed THEN verifiedIds \cup (Established \ rejected)
                       ELSE verifiedIds
     /\ uncertain' = (uncertain \/ rejected # {})
     /\ tree' = IF passed THEN "verified" ELSE tree
     /\ UNCHANGED blocking

Verify ==
  /\ Visit("verify")
  /\ \E failing, violating \in BOOLEAN, rejected \in SUBSET Reviewable :
       VerifyCandidate(failing, violating, rejected)
  /\ UNCHANGED <<options, research, coverage, addressed, moved, changes, ciAssessed,
                 approval, outcome>>
  /\ Completes("verifier", "verify", "route")

\* The frozen install failed: nothing else runs.
InstallFails ==
  /\ Visit("verify")
  /\ lastVerification' = "failed"
  /\ checksFailing' = TRUE
  /\ diffOk' \in BOOLEAN
  /\ prohibited' = (prohibited \/ ~diffOk')
  /\ blocking' = TRUE
  /\ UNCHANGED <<options, research, coverage, progress, verifiedIds, resolved,
                 ciAssessed, uncertain, approval, outcome>>
  /\ Completes("verifier", "verify", "route")

VerifierFails ==
  /\ Visit("verify")
  /\ Halts("verifier", "verify", "route")
  /\ UNCHANGED <<tree, requested, publication>>

-----------------------------------------------------------------------------
\* publisher: branch, commit, push, then the pull request.

PublishDraft ==
  /\ Visit("publish_draft")
  /\ publication' = "open"
  /\ UNCHANGED stops
  /\ UNCHANGED <<options, research, coverage, progress, verdict, ciAssessed, approval,
                 result>>
  /\ Completes("publisher", "publish_draft", "finalize")

\* Nothing to publish, or a call throws, possibly after the branch was pushed.
PublisherFails ==
  /\ Visit("publish_draft")
  /\ Halts("publisher", "publish_draft", "finalize")
  /\ publication' \in {publication, "pushed"}
  /\ UNCHANGED <<tree, requested>>

-----------------------------------------------------------------------------
\* The end of a run (result.ts, run.ts).

ShortfallIfBaselineIgnored ==
  \/ ~resolved \/ ~diffOk \/ checksFailing \/ ~ciAssessed
  \/ ~(findings \subseteq addressed) \/ Unverified # {}
Shortfall ==
  \/ baseline = "failed"
  \/ ~resolved \/ ~diffOk \/ checksFailing \/ ~ciAssessed
  \/ ~(findings \subseteq addressed) \/ Unverified # {}

\* classifyRun: the first condition that holds decides.
Classification(stopped) ==
  IF stopped THEN "blocked"
  ELSE IF baseline = "failed" /\ ~options.partialAllowed THEN "blocked"
  ELSE IF baseline = "none" THEN (IF options.partialAllowed THEN "partial" ELSE "blocked")
  ELSE IF pending THEN "human_required"
  ELSE IF uncertain \/ findings = {} THEN "indeterminate"
  ELSE IF Shortfall THEN "partial"
  ELSE "verified"

Ends(stopped) ==
  /\ result' = Classification(stopped)
  /\ node' = "end"
  /\ UNCHANGED <<options, attempts, research, coverage, progress, verdict, ciAssessed,
                 stops, approval, publication>>

Finalize ==
  /\ Visit("finalize")
  /\ phase' = "finalize"
  /\ step' = step + 1
  /\ Ends(Stopped)

\* GraphRecursionError: the runner classifies the recovered state as blocked.
RecursionLimitIfMissed ==
  /\ node \notin {"end", "illegal"} /\ step > Budget
  /\ UNCHANGED <<phase, step>>
  /\ Ends(TRUE)
RecursionLimit ==
  /\ node \notin {"end", "illegal"} /\ step = Budget
  /\ UNCHANGED <<phase, step>>
  /\ Ends(TRUE)

Next ==
  \/ RejectRequest \/ Inspect \/ BaselineVerify \/ Research \/ PrologueFails
  \/ Route
  \/ AssessVerification \/ AuthorTests \/ TestAuthorFails
  \/ Implement \/ ImplementerStops
  \/ ConfigureCi \/ CiAuthorFails
  \/ Verify \/ InstallFails \/ VerifierFails
  \/ PublishDraft \/ PublisherFails
  \/ Finalize \/ RecursionLimit

\* An assumption about the calls a node awaits: each of them ends.  The tools give every
\* command a limit of its own (ProcessTool), which a process that nobody can signal may
\* outlast only where commands run outside a namespace (Holdout); the graph itself bounds
\* nothing.  Nothing is assumed about which outcome a step has.
Spec == Init /\ [][Next]_vars /\ WF_vars(Next)

-----------------------------------------------------------------------------
\* Properties.

TypeOK ==
  /\ options \in Configurations
  /\ node \in Phases \cup {"end"} /\ phase \in Phases
  /\ step \in 0 .. Budget
  /\ attempts \in [Workers -> Nat]
  /\ findings \subseteq Findings
  /\ baseline \in {"none", "passed", "failed"}
  /\ unreached \subseteq findings /\ uncovered \subseteq findings
  /\ addressed \subseteq findings /\ verifiedIds \subseteq findings
  /\ changes \subseteq {"test_author", "implementer", "ci_author"}
  /\ tree \in {"pristine", "edited", "verified"}
  /\ lastVerification \in {"not_run", "failed", "passed"}
  /\ testsPending \in BOOLEAN /\ assessed \in BOOLEAN /\ moved \in BOOLEAN
  /\ resolved \in BOOLEAN /\ diffOk \in BOOLEAN /\ checksFailing \in BOOLEAN
  /\ ciAssessed \in BOOLEAN /\ blocking \in BOOLEAN /\ prohibited \in BOOLEAN
  /\ uncertain \in BOOLEAN /\ requested \in BOOLEAN /\ pending \in BOOLEAN
  /\ publication \in {"none", "pushed", "open"}
  /\ result \in {"none", "verified", "partial", "human_required", "blocked", "indeterminate"}

\* The attempt caps stop every run before LangGraph's recursion limit does, as long
\* as a worker may be tried at all (build-graph.ts:41).  test_author serves two
\* actions on one budget, and the prologue's workers are counted but never capped.
BudgetSuffices == options.maxWorkerAttempts > 0 /\ node # "end" => step < Budget

\* Two actions share test_author and two share inspector, and each worker tells them
\* apart by `phase`, which the node before it set.
PhaseNamesTheVisit ==
  node \in {"inspect", "baseline_verify", "assess_verification", "author_tests"} => phase = node

\* Whatever the engine answers, only an eligible action runs, and where there is a
\* choice the fixed order finds one without reaching its own last resort.
FallbackIsEligible ==
  node = "route" =>
    /\ Selectable \subseteq Eligible
    /\ \/ \E a \in RoutableActions : Eligible = {a}
       \/ \E i \in DOMAIN Preferences : IsFirstEligible(Preferences, i)

\* `verified` is never reached around the verifier: the move was made, a verification
\* of it passed over a clean baseline, nobody's approval is outstanding, and an ESM
\* move left no test file behind.
VerifiedWasEstablished ==
  result = "verified" =>
    /\ moved /\ lastVerification = "passed" /\ baseline = "passed"
    /\ ~AwaitingApproval("implementer")
    /\ EsmMoves = {} \/ ~testsPending

\* A verification can only pass once the dependency has moved and nothing that needs
\* a source change is outstanding, and it stays that way to the end of the run.
PassCoversTheMove ==
  lastVerification = "passed" => moved /\ Unresolved = {} /\ diffOk /\ ~checksFailing

\* While an approval is outstanding, source, manifest and CI are as they were found
\* and nothing leaves the machine (docs/architecture.md:159).
WaitingWritesNoSource ==
  requested /\ ~options.granted =>
    /\ ~moved /\ changes \subseteq {"test_author"}
    /\ publication = "none"
    /\ result \in {"none", "human_required", "blocked"}

\* Nothing reaches the remote without a requested draft and a passing verification,
\* and no run that waits for a person does (docs/architecture.md:170).
PublishedOnlyVerified ==
  publication # "none" =>
    /\ options.draft /\ lastVerification = "passed"
    /\ result # "human_required"

\* An assessment-only run writes nothing and publishes nothing, in any order of
\* answers (README.md:36).
AssessmentOnlyReads ==
  options.assessmentOnly =>
    tree = "pristine" /\ changes = {} /\ ~moved /\ publication = "none"

\* A run that ends without a stop, an outstanding approval or a refused one has moved
\* the dependency unless it says what it is uncertain of (eligibility.ts:77).
MovedOrUncertain ==
  /\ result \in {"verified", "partial", "indeterminate"}
  /\ ~options.assessmentOnly
  /\ options.granted => options.honoured
  => moved \/ uncertain

\* What only holds because trusted code chooses: the fixed order moves the dependency
\* or says what it is uncertain of,
MovedInFixedOrder == ~options.jev => MovedOrUncertain

\* has the draft hold exactly what the verifier saw,
DraftIsAsVerified == ~options.jev => (publication # "none" => tree = "verified")

\* and opens the draft it was asked for before a verified run ends.
VerifiedDraftIsOpened ==
  ~options.jev => (result = "verified" /\ options.draft => publication = "open")

\* A recorded stop is final: the next node is finalize and nothing more is written or
\* published.
StopIsFinal ==
  [][Stopped => /\ Stopped' /\ node' = "end"
                /\ UNCHANGED <<progress, verdict, publication>>]_vars

\* Every run ends with a classification, whatever its workers and engine answer.
EveryRunIsClassified == <>(node = "end" /\ result # "none")

\* "Verification runs independently after both steps", the test author's and the
\* implementer's (README.md:108): what a run under --engine jev does not keep.
VerificationFollowsBoth ==
  [][lastVerification = "passed" /\ node \in {"author_tests", "implement"} => UNCHANGED tree]_vars

Promise == INSTANCE RunPromise
             WITH stopped <- Stopped, judged <- lastVerification,
                  published <- publication, outcome <- result

\* The run keeps what RunPromise promises its caller, settling included.
KeepsPromise == Promise!Spec

=============================================================================
