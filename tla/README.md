# safe-upgrade in TLA+

safe-upgrade moves one npm dependency to a requested version in a disposable
worktree. A fixed prologue inspects the repository, runs its checks and
researches the release; a router, driven by a decision engine inside trusted
eligibility rules, then sends specialists (test author, implementer, CI author,
verifier, publisher) to work under narrowed sessions; a pure function classifies
how the run ended. This directory specifies that program, model-checks it with
TLC and proves its main guarantees with TLAPS.

Paths below are relative to `packages/` unless they start at the repository root.

| file | content |
|---|---|
| `UpgradeRun.tla` | one run: graph, router, rules, workers as state updates, classification |
| `RunPromise.tla` | what a run promises to whoever started it (abstract) |
| `WorkerVisits.tla` | the worker nodes opened up: sessions, single calls, expiry, failure, retry |
| `VisitPromise.tla` | what the graph may take for granted about a visit (abstract) |
| `RunLifecycle.tla` | invocations of the command: worktree, run branch, record, stored assessment, crashes |
| `ProcessTool.tla` | the commands a run spawns: timeouts, two signals, what they leave behind |
| `FileTools.tla` | reads and writes of files, composed with `ProcessTool` |
| `NodeRange.tla` | how an `engines.node` range is read, beside what npm means by it |
| `CiAuthor.tla` | the CI author's visit to a repository's workflows, over `NodeRange` |
| `Detection.tla` | manager, declaring project, current version, and the move made on their strength |
| `MC*.tla`, `*.cfg` | instances for TLC |
| `*Proofs.tla` | theorems: two modules about `UpgradeRun`, two about `WorkerVisits`, one each about `RunLifecycle`, `FileTools` with `ProcessTool`, `CiAuthor` and `Detection` |
| `PROJECT.json` | runs, mutants, the map from definitions to source lines, hazards, findings, theorems |

Run one with `tlc -config graph.cfg MCUpgradeRun`, prove one with
`tlapm UpgradeRunProofs.tla`. An operator named `...If...` is its namesake with
one plausible bug; no specification uses it, and each is there to show that
some property notices that bug.

How the modules fit together: `RunLifecycle` takes a whole run in one step,
`RunGraph`, of which `UpgradeRun` is the inside; `UpgradeRun` takes a worker node
in one step, of which `WorkerVisits` is the inside, and `VisitPromise` is the
interface between the two; `WorkerVisits` takes a call in one step, and
`FileTools` with `ProcessTool` is the inside of the calls that write files and run
commands. `CiAuthor` is the inside of one worker's visit, `Detection` of the
steps before the graph starts and of the implementer's updates.

## 1. Inventory

**State machine** (`graph/src/state.ts`, `nodes.ts`, `build-graph.ts`,
`transitions.ts`). State: about thirty channels, most with reducers (findings by
id, unions of ids, counters). Operations: one node per phase; `transitionTo`
checks every move against `TRANSITIONS` and lets a recorded stop win; `runWorker`
runs a worker under the broker, retries once with a newly approved elevation and
counts the attempt; a worker that throws becomes a blocking condition and its
update is lost. Hard: routes through the same nodes in any order, LangGraph's
recursion limit against a budget computed by hand, channels nobody resets.
Correct when: `phase` names the visit in progress, the budget is never what
stops a run that may work at all, a stop is final, state agrees with the disk.

**Routing** (`graph/src/eligibility.ts`, `router.ts`, `jev/src/fallback.ts`).
Stateless: the rules give the eligible actions, an engine names one of them or the
fixed order decides. Hard: rules of different actions that wait on each other;
an engine that may give any answer. Correct when: only eligible actions run, the
fixed order always finds one, no order of answers publishes unverified work, an
assessment-only run writes nothing, waiting for an approval harms nothing.

**Classification** (`domain/src/result.ts`, `runner/src/run.ts` for an exhausted
budget). Pure, over a dozen channels. Correct when: `verified` was established,
`human_required` and `blocked` agree with what happened.

**Specialists** (`workers/src`). State: none of their own; they read the graph's
state, call tools and return an update. Hard: several writes per visit with no
rollback; two workers for one finding; what they claim against what they did.
Correct when: files move together, a worker that asks has written nothing,
published means verified.

**Delegation** (`authorization/src/broker.ts`, `session-registry.ts`,
`domain/src/elevation.ts`) and **capability ceilings and profiles**
(`capabilities.ts`, `profiles.ts`, `tenuo.ts`, `protected-tools.ts`). State: the
run's session (thirty minutes), one narrowed session per visit, live sessions by
reference. Operations: match approvals to requests, drop what the parent cannot
delegate, narrow, bind, authorise every call, destroy. Hard: expiry between any
two calls; elevation that is refused after it was granted. Correct when: no call
takes effect after the run's session, scripts never exceed their profile, the
manifest changes only under an approval.

**Decision engine** (`jev/src/engine.ts`, `validate.ts`). Batched questions to a
model, answers checked against what was offered. In the specification an answer
is any member of what validation admits.

**File, process and package tools** (`tools/src/files.ts`, `paths.ts`, `manifest.ts`,
`process.ts`, `packages.ts`, `git.ts`). State: the files, and the processes a
command has become. Operations: read; write by content hash through a temporary
file; edit one manifest field in place; run a command under a sandbox with a
timeout; commit, push. Hard: a command that forks, ignores SIGTERM or leaves its
group; the second signal, which fires after the call may have settled; a check
that writes the files a worker is about to write. Correct when: nothing of a
command outlives its call under bubblewrap, a command that was cut off is not a
pass, every call ends, a write replaces what its caller saw or leaves it alone.

**Isolation** (`bootstrap/src/isolate.ts`). State: a temporary directory, a
registration and a run branch in the user's `.git`. Operations: resolve the start
commit, add the worktree, check out, release. **Runner** (`runner/src/run.ts`),
**command line** (`cli/src`) and **evidence** (`evidence/src`). State: the
artifacts directory, of a run id or named with `--artifacts`, and the index of stored
assessments. Operations:
upgrade, assess, apply; store, load and validate an assessment; write result,
report, patch and audit log. Hard: an invocation that dies between two steps, two
at once or one after the other under one run id, a user who commits, edits or
deletes a branch in between; two run ids in one artifacts directory. Correct when: apply works on what was assessed, a run
at work has its worktree, a reported status is on record with its patch, what was
pushed stays in the history of its branch.

**Detection** (`bootstrap/src/detect.ts`, `installed.ts`, `workspaces.ts`). Stateless:
reads lockfiles and manifests, and refuses where it would have to guess. Hard: two
managers, several projects that declare the package, a copy under a workspace
beside a hoisted one, what a later update moves on the side. Correct when: the
run's commands go to the project that declares the package, no target moves back,
nothing unnamed moves unnoticed.

**CI** (`workers/src/ci-author.ts`). State: the workflows of the worktree. Hard: a
listing that fails is taken for an empty one; the run's own workflow of an earlier
upgrade is replaced whole; Node ranges read by majors only, conjunctions, several
targets under one finding id. Correct when: after a report every required check has a
step, no gate is lost, a claimed floor is met by what CI runs.

**Remote tools** (`tools/src/registry.ts`, `releases.ts`, `github.ts`): requests with
limits, answers checked for shape. **Patch scope** (`workers/src/coding-model.ts`): a
predicate on one proposal. **Code transforms** (`workers/src/migrate`,
`workers/src/research`): text in, text out; `UpgradeRun` has the kinds of finding
they distinguish. These three have no module.

`PROJECT.json` lists under "hazards" where each of these can go wrong in a way a
test would hardly reach, with the properties that cover it. A hazard without one says
why: another writer between the comparison and the rename (nobody else runs then in a
namespace), files beyond a plan's limit (the runs have none), a worktree left by a failed
checkout and hashes stored of another commit (modelled, and promised by nobody), audit
events and reads made together (not modelled), and a few that show in how a run ends.

## 2. The modules

### UpgradeRun

`node` is the node that runs in the next superstep, `phase` and the other
variables are channels of `UpgradeState`; `tree` is a history variable for the
worktree and `unreached`, `testsPending` are facts of the repository research
looks at. Each node is an action (`Inspect`, `BaselineVerify`, `Research`,
`Route`, `AssessVerification`, `AuthorTests`, `Implement`, `ConfigureCi`, `Verify`,
`PublishDraft`, `Finalize`) with a companion for the ways it stops the run
(`PrologueFails`, `ImplementerStops`, `InstallFails`, ...). `Leave` is
`transitionTo`; `Rule`, `Offered` and `Eligible` are `RULES` and
`eligibleActions`; `Selectable` is `decideRoute`, the fixed order for the
deterministic engine and any eligible action under `--engine jev`;
`Classification` is `classifyRun`; `RecursionLimit` is the runner's recovery.

Findings are opaque ids with one of nine kinds, one for each way `deriveFindings`
makes the workers behave differently. A list that the code only tests for
emptiness is a boolean, and recorded file changes are the set of their owners.

`RunPromise` says what a caller may rely on: a passing verification is given once
and never taken back, a draft follows one, a stop is final, and the run settles
on one classification that agrees with these. `KeepsPromise` is the refinement.

### WorkerVisits

`UpgradeRun` takes a worker node in one step. `WorkerVisits` opens the nodes up.
`visit` is the visit in progress: its session (phase, elevation, expiry) and `at`,
the call the worker makes next. `StartVisit` is `withWorker`: match the
approvals (`ApprovedElevations`), drop those the parent cannot delegate
(`Narrowable`), clamp the life to the parent's (`Expiry`). Each further action is
one call, guarded by `Authorized`: the session holds the capability the call needs
and has not expired. `Tick` lets time pass between any two calls. `Denied` is a
refused call, `ToolFails` one that throws, with the remote possibly having acted;
both end in `Throws` (`asBlockingCondition`). `RequestElevation` is a worker that
asks, with the node's one retry. `Offered` is `UpgradeRun`'s rules as far as this
module's state tells them apart, for a run with one finding that reaches source
files and a draft to open. The prologue's visits are abstracted to the time they
took: a run may enter with any amount of the session's life left.

Reads a worker makes one after another without deciding anything in between share
a call. A plan covers the first `MaxConvertedFiles` source files; the code counts
test files and files that need no conversion too, so its plan may cover fewer.
The publisher's two early stops (nothing to publish, nothing committed) cannot
happen after a passing verification of a moved dependency and are left out.

`VisitPromise` is the interface between the two modules: between visits the
package is untouched or whole as long as the run goes on, a stop is final, and only
a whole package reaches the remote. It is what entitles `UpgradeRun` to one
step per visit.

### RunLifecycle

`run` is the invocations, each with what it was asked (`mode`, run id, `target`), where
it is (`at`) and how it exits. `worktrees` and `registered` are the two places a
worktree exists in, the temporary directory and git's own record; `branch` and
`remote` are the run branches, `record` the artifacts directory and `stored` the
index of assessments. Branches and the index go by run id, because run ids can be
shared: a UUID may be passed again, a name by anybody. Artifacts go by directory
(`Directories`): the run id's own, or the one `--artifacts` names, which two runs with
different ids may share, and then the later one replaces `result.json` and `patch.diff`
of the earlier. `work` says of an invocation whether it has committed and whether that
was pushed. `head` and `dirty` are the user's checkout.

The actions follow the code in order: `LoadAssessment`, `ValidateHead` and
`ValidateTree` (`storage.ts:86`), `ResolveStartCommit` to `CheckOut` (`isolate.ts`),
`Detect`, `RunGraph`, the publisher's three calls, `PostReviewComment`,
`WriteResult`, `WriteDetails` (`run.ts`), `Release`, `SaveAssessment`. Each has the
ways it fails: `Exits` before there is a worktree to release, `Fails` while there
is. `Die` is a signal or a crash at any point; `UserChecksOut`, `UserEdits` and
`UserDeletesBranch` are the user's, and leave out only what git itself refuses.
`RunGraph` is `UpgradeRun` up to its last two steps; how it is classified is left open,
because nothing here depends on it. That a publisher's visit comes last and only where a
draft was asked for, and that one which throws leaves the run blocked, is a theorem about
`UpgradeRun` (`FitsTheLifecycle`).

A commit of the user's stands for its tree, a lockfile for lockfile and manifest,
and one registration for one worktree; hashes of contents are the contents. `Merges`
says which runs' commits a commit has in its history, and `Exists` lets the user check
one out only when those have been made. It matters to `Push`: without force a remote
branch takes a commit that has the present one in its history, so a later run under the
same id may push if it started from where the earlier one was merged. Nobody deletes a
remote branch. The two exit codes of a run that has no status, unusable and internal,
are one, `"failed"`: no property tells them apart. `clean` is kept for assessments only,
the one place that acts on it, and the copy of an assessment that is written to the
artifacts directory, which nothing reads, is left out.

### ProcessTool and FileTools

A process is `<<call, member>>`. `alive`, `detached`, `silent` and `deaf` say which
exist, left their group, closed the output and ignore SIGTERM; a fork inherits the
last three. `sandbox` is what stands around a command on this machine: under
bubblewrap (`"namespace"`) the group a signal reaches is the sandbox alone and
everything in its namespace goes with it; under a seatbelt profile, or with
sandboxing off (`"profile"`), each process is on its own. `TimesOut` and `Escalates` are
the two timers of `runProcess`, `Settles` is node's `close` event (`Closed`: the
first process gone, no end of the output open), `Classify` the outcome
`packages.ts` reports. `RunEnds` is the run's own process ending, which takes its
timers with it.

`signalled` is history: which calls were ever signalled, whether their second signal is
still to come, was sent or was never due.

`FileTools` EXTENDS that with one file (calls on different files do not meet), what it
holds and what the worker last saw in it. `Compares`, `Creates`, `WritesTemporary`,
`Renames`, `Verifies` are `write` and `writeAtomic`, each with the ways it fails: a
`Compares` that finds something other than a regular file, or one too large, and a
`Verifies` whose read-back fails, when the new content is already in place, among them; `Truncates` and `Stores` are
`update_manifest_field`, which rewrites in place. The tools run in one thread, so
neither a spawn nor a timer gets in between those steps; `CommandEdits`, a process
that is still there, and the death of the run do.

### NodeRange and CiAuthor

`NodeRange` has the two meanings of a range. `ReadTerm`, `Meets`, `Satisfies`,
`LowestAdmitted` and `DischargedByWorkflow` are the code's, over majors; `AdmittedBy`
and `Admits` are npm's, with minors, and belong to no code of the repository. A
range is a set of alternatives, each a set of terms; a form the code does not read
is one operator, `"other"`.

`CiAuthor` is the visits: read the workflows, write one's own if something required is
not covered, read again, report, and once more while the report is "short"
(`Revisits`). A listing that is refused or expires is an empty one (`Readings`,
`Unlisted`), before the decision as well as after the write; a write decided on nothing
expects no file, and is refused if there is one. Any other call that fails ends the
visit and the run (`VisitFails`). A workflow is the set of its lines, and a line keeps
where it stands, which check it mentions, and whether the shell would run it; the last
the code cannot see, and `RequiredGateStays` is about. `UpgradeRun` has the consequence:
a visit that wrote may still leave CI insufficient (`ConfigureCi`).

### Detection

`shape` is the repository with the command line: lockfiles present, who declares what
in which block, scripts, what the lockfile records by package and project,
specifiers, `--workspace`, targets. `DetectPackageManager`, `AssertAgreement`,
`ResolveDeclaringWorkspace` and `ResolveVersions` are detection and the runner's check
that every target is ahead, each with its refusal. `StartMove`, `UpdateDependency`,
`UpdateFails` and `CompareLockfiles` are the implementer's `moveDependency`: a
snapshot, an update per target, a comparison. An update gives the project the
exact version and may move one entry of a third package on the side. Text
scanning is replaced by what it finds: an entry, none, or one in a form that is
not understood. `Scope` is where a command's selector sends it.

## 3. What the runs check

| run | instance | shows |
|---|---|---|
| `graph` | every order an engine may choose with 2 attempts, and the fixed order with 3; each kind of finding, none, and six pairs; assessment-only runs | `TypeOK`, `BudgetSuffices`, `PhaseNamesTheVisit`, `FallbackIsEligible`, `VerifiedWasEstablished`, `PassCoversTheMove`, `WaitingWritesNoSource`, `AssessmentOnlyReads`; and, only because trusted code chooses, `MovedInFixedOrder`, `DraftIsAsVerified`, `VerifiedDraftIsOpened` |
| `promise` | a few sets of findings; also runs with no attempts and runs past their step limit | the refinement of `RunPromise`, `EveryRunIsClassified` |
| `visits` | 2 files, 1 test file, 2 packages, 3 attempts, 6 units of time | `TypeOK`, `ScriptsFitProfiles`, `EveryFileMoves`, `RecordAgrees`, `NothingAfterExpiry`, `EveryVisitEnds`, the refinement of `VisitPromise` |
| `lifecycle` | 2 invocations, 3 commits of which one merges the first invocation's, a shared name, a shared artifacts directory; assess then apply under either id, upgrade against upgrade | `TypeOK`, `AppliedIsAssessed`, `WorktreeIsIntact`, `RecordIsComplete`, `StatusLeavesNothing`, `PublishedStays`, `EveryCommandEnds` |
| `tools` | 2 commands of 2 processes, a source file and the manifest, 2 contents, with and without a namespace | `NothingOutlivesTheCall`, `CutOffIsNotPassed`, `OverwritesWhatWasSeen`, `FailureIsWhole`, `EveryCallEnds`, `GroupGoesInTheEnd` |
| `ci` | every pair of small ranges as a floor and as `engines`; pairs of floors; every shape of two workflows, any listing failing | `ReportedIsCovered`, `ClaimedFloorIsMet`, `RequiredGateStays` |
| `detection` | 2 workspace directories and the root, 3 versions: every declaration, contradiction and lockfile | `RunsWhereDeclared`, `OnlyNamedMove`, `NeverMovesBack` |

The other five runs each show one statement of the repository's documents or
comments that the code does not keep (section 4).

**Bounds.** In `UpgradeRun` the bounds are the program's own: `Budget` limits the
steps and `maxWorkerAttempts` the visits. Two attempts let a worker come back
after a failed verification, three are the default. A rule reads findings only
through "some finding that ..." and worker updates only by kind, so one finding
of a kind stands for several; pairs are chosen where two kinds pull on the same
worker or on different ones. Under an engine the coding model is on: without it a
finding is left to a person, which a peer conflict is with it too. In `WorkerVisits` two files are the least that can be
half converted, two packages the least that can be half moved, and the time unit
is five minutes, of which every lifetime in `profiles.ts` is a multiple (the
default parent life is 6). In `RunLifecycle` two invocations are what sharing a run
id, applying another's assessment and colliding on a branch need, two commits
with different lockfiles are what a stale assessment needs, and a third that merges the
first run's commit is what a second push under one id needs; `MCAsked` names the
command lines, each of which the parser admits. In `FileTools` two calls are the
least for a signal of the first to meet the second, and two processes the least
for one to outlive the other. `MCMajors` has 0, where a caret fixes the minor, and
majors below, at and above the pinned 22; minors other than the newest are one
class, because a bound names at most one. In `Detection` three versions give a
target that is behind, at and ahead, and two members besides the root give an
ambiguous declaration with and without the root. The specifications stop by
design, so deadlock is not checked, except in `lifecycle`, where the user always
may do something; the liveness properties say that nothing stops early.

**Fairness.** `UpgradeRun` has `WF_vars(Next)`: LangGraph awaits a node and goes on.
That each call a node awaits ends is an assumption. The tools give every command a limit
of its own, and `EveryCallEnds` shows what it is worth: a call ends unless, outside a
namespace, a process nobody can signal holds its output (`Holdout`). The graph bounds
nothing by itself. Which outcome a step has is left open. `WorkerVisits` has
`WF_vars(Step)` on the same assumption; neither the clock nor the start of another visit
is assumed. `RunLifecycle` assumes less: an invocation goes on, except where it is at a
call that nothing bounds (`Unbounded`), which are the git that checks a stored assessment
(`cli/src/storage.ts:155`, without a time limit), the run's own graph and the calls to
GitHub. There it may stay for ever, and `EveryCommandEnds` says that it then is there,
and nowhere else. Nothing is assumed of the user, of `Start` or of `Die`. `ProcessTool` promises that timers fire and that
a closed output is noticed, which is node's event loop, and nothing whatever of the
command. `CiAuthor` and `Detection` state none: they check safety. `RunPromise` asks
`WF_vars(Settle)`, which the refinement has to provide, and does.

## 4. Where the code and its documents disagree

Each of these is a run that TLC finds violated.

- `stranded_move` (`graph/src/eligibility.ts:97`): once an assessment finds
  coverage sufficient, the test author has no turn, and a finding that spans test
  files keeps the implementer waiting for it. The run ends `partial` with the
  dependency never moved, although the comment at line 77 has the move come first.
- `unverified_tests` (`graph/src/eligibility.ts:54`): under an answering engine,
  tests can be written after the passing verification and published unrun.
- `unrecorded_result` (`runner/src/run.ts:348`): the review comment is posted before
  anything is written down, so a refusal by GitHub loses `result.json` and
  `patch.diff` of a run that had finished.
- `orphans` (`tools/src/process.ts:236`): the two signals go to a process group, and
  the second only if the run still lives five seconds later. Without a namespace, a
  descendant with a group of its own, or any that ignores SIGTERM in a run that
  ends at once, is left.
- `shared_floor` (`workers/src/ci-author.ts:288`): raised Node floors of several
  targets share one id, and one met floor claims them all.

Met on the way, and left without a run:

- State machine and specialists. `workers/src/test-author.ts:158`: a confirmed rename that reaches a test file waits for a test change the author
  never makes. `eligibility.ts:97`: a run that ends in `human_required` may have
  edited tests, although it "should end with the repository as it was found".
  `verifier.ts:237`: with no assessment on record, findings no test reaches count as
  verified. `implementer.ts:283`: the implementer marks a raised Node floor
  addressed whatever CI runs. `implementer.ts:461`: a failed write, or an expired
  session, between two files leaves ES modules under a CommonJS manifest; the run is
  stopped and publishes nothing. `implementer.ts:567`: source files beyond the plan's
  limit are dropped silently while the whole package turns ESM. `README.md:180` lists
  the draft after the classification, the graph opens it before. `eligibility.ts:120`
  has CI follow the move, which an engine can reverse. `nodes.ts:112` says a retried
  worker "has no reason to ask again"; it has when the parent cannot delegate the
  elevation (harmless: `AskingWritesNothing`). `state.ts:109` calls `maxGraphSteps` a
  limit; it only makes `finalize` eligible. `broker.ts:9` says every allow and deny is
  recorded; an authorised call whose tool throws is neither.
- Invocations. `assess --run-id` takes a name, and `README.md:27` and the printed
  continuation offer it to `apply`, which refuses any id that is not a UUID
  (`storage.ts:11`). `docs/architecture.md:48` has the worktree removed when the
  command exits; a checkout that fails after `worktree add` (`isolate.ts:148`) leaves
  it registered. An apply that is given the assessment's own id as its run id
  overwrites the assessment's evidence, and so does any run that is given the same
  `--artifacts`. The hashes stored with an assessment are of
  the checkout when it is saved; what `AppliedIsAssessed` rests on is the commit.
- Files and processes. `files.ts:73`: a write of a new file that fails leaves it empty.
  `files.ts:171`: the limit on writing counts UTF-16 units, the one on reading bytes.
  A manifest is rewritten in place, so a death in the middle leaves part of it.
  Outside a namespace a process a check left behind can change a file between the
  comparison and the rename. `files.ts:71` says a failed write leaves the original; it
  does not where only the read-back fails (`files.ts:91`), and `FailureIsWhole` claims no
  more than that. A descendant outside the group that holds the output
  keeps a call from ending (`Holdout`).
- CI. `>22` is read as 22 and up, while npm starts at 23 (`FloorsRead` leaves such
  floors out). `engines` with a gap, or with minors, can admit a version the floor
  does not, and is discharged all the same (`ci-author.ts:302`); `ClaimedFloorIsMet`
  claims no more than that. A command in a comment, or one that is only printed,
  counts as the check. A listing of the workflows that fails is swallowed
  (`ci-author.ts:180`), so a visit that has just written the workflow may report it
  missing and be made again. When CI is sufficient already, no floor is
  claimed.
- Detection. `--workspace` cannot select the root, although the error names it as a
  way out (`detect.ts:421`). An entry of npm's under the workspace in a form that is
  not understood is passed over for the hoisted copy (`installed.ts:119`). A nested
  copy that changes is not always visible, as `installed.ts:50` says it is: it is not
  when the set of versions stays the same. A yarn workspace without a name is selected
  by nothing, so its commands run at the root (`detect.ts:115`).

## 5. What is proved

For every set of findings, every configuration and every attempt limit
(`FindingsAssumption`, `OptionsAssumption`):

- `UpgradeRunProofs`: `TypeCorrect`, `PhaseIsCurrent`, `PassCovers`. The invariant
  `Shape` types the channels and says the prologue starts fresh; no node leaves
  along an illegal edge, so `node` never becomes "illegal". `Safety` adds what
  `PassCoversTheMove` needs to be inductive: a worker runs only while routing would
  offer it (a route changes nothing the rules read), edits follow the move and an
  ESM move follows the grant.
- There too: `BudgetAlwaysSuffices`. The account behind it
  (`BudgetAccount`): three steps of prologue, then a route and a worker for each
  attempt, so that `step = 3 + 2 * Spent` at every route and at most one more at
  `finalize`; five workers with n attempts each spend at most 5n, and
  4 + 10n < 4 + 14n for n > 0. `EveryStepIsCounted`: each step takes one of those
  supersteps or ends the run, so no run has more than `Budget + 1` steps.
- `UpgradeRunOutcomeProofs`: `VerifiedIsEstablished`, `WaitingIsHarmless`,
  `PublishedIsVerified`, `StopIsObserved`, `AssessmentReads`, `FitsTheLifecycle` and
  `RunKeepsPromise`, the safety half of the refinement. `Ending` is the second layer: a
  stop leaves only `finalize`, a result exists only at the end, a waiting run reports it,
  ESM leftovers are on record as uncertainty.
- There too, for every configuration: `FallbackAlwaysEligible`. The lemmas before it go
  through the preferences place by place (`PreferencesAre`) and through the rules
  (`EligibleIs`, `OffersAre`): whatever is offered stands somewhere in the order, so the
  first place that is offered exists.
- And for runs that ask no engine: `FixedOrderMoves`, `DraftHoldsWhatWasVerified`,
  `DraftIsOpened`, `FixedOrderVerifiesLast`. `FixedChoiceMeans` says of each node
  what was not offered when the order got to it. The invariant `FixedOrder` is what
  the properties need beyond that: what spent attempts say of the record (one by
  the implementer means that the dependency moved, an approval was asked for or the run
  stopped), that an assessment comes after the findings are resolved and a verification
  after CI is settled, that no test or source change follows a pass, that tests which
  were tried and still go first are on record as uncertain, and that `finalize` leaves
  nothing out. The last is where the step limit comes in: a run with no attempts may
  run out of supersteps, and with them of its last chance to say so (`MayEnd`).

For every set of files, packages, limits and lifetimes (`FilesAssumption`,
`LimitsAssumption`, `OptionsAssumption`), in `WorkerVisitsProofs`:

- `Footing` is inductive: types; a visit is at a call of its own phase with a
  session that ends no later than the run's; how far the dependency move has come
  at each call of the implementer, and that `recorded` agrees with it between
  visits; what the other workers wrote is recorded or theirs to record; a manifest
  edit has its approval. From it `VisitsTyped`, `ScriptsFit`, `ManifestNeedsGrant`,
  `RecordsAgree`, `NothingOutlivesTheRun`, `AskingIsHarmless`.
- `FilesMoveTogether`, under the further assumption that one plan covers every
  source file (`Cardinality(Sources) <= MaxConvertedFiles`). A file beyond
  the limit stays behind (section 4). `Progress` says that from the plan on
  every file is converted or still to do, and that none is left at the manifest.

Under that same assumption, in `WorkerVisitsPromiseProofs`: `VisitsKeepPromise`, the
whole refinement of `VisitPromise` (which states no fairness). `Account` adds to the
invariants above what a visit found when it started: until the run stops the package
is whole exactly if `implement` is recorded; only the implementer's visits change it
and only the publisher's reach the remote; the implementer returns with every file
converted; a pass, and hence a publication, follows the move. A step then either goes
on with its visit (nothing is settled), stops the run (`Abandon`), or returns
(`Migrate`, `Publish`, or nothing the promise sees).

For any invocations, names, commits and command lines (`LifecycleAssumption`), in
`RunLifecycleProofs`, four invariants, each inductive with the ones before it:

- `Order`: what an invocation has follows from where it is: a start commit, an
  assessment, a worktree on disk and on record, an exit code. From it `TypeCorrect`,
  `WorktreeHolds`, `StatusHolds`.
- `Continuity`: an assessment says of the run that made it what that run has come to
  for good, because `SaveAssessment` is its last step and an ended invocation never
  changes. From it `AppliedHolds`, whatever the user does meanwhile.
- `Recording`: in an artifacts directory are only runs that were given it, and what each
  has written so far. From it `RecordHolds`.
- `History`: a commit in use exists with its whole history, which merges only what was
  committed by then; a remote tip was pushed; whoever has committed is past its start
  commit for good. `PublishedStays` is inductive only with these: a push puts a new tip
  over an old one, and everything the old one had in its history must be in the new one's.
  From it `PublicationHolds`.
- `InvocationsAdvance`: places have a rank, and every step of an invocation raises it,
  so none takes more than eighteen.

For any number of commands, whatever they fork, and for any files and contents
(`ProcessAssumption`, `FileAssumption`), in `FileToolsProofs`: `NothingOutlives`,
`CutOffNeverPasses`, `OnlyTheEscapedStay`, `WritesOverWhatWasSeen`, `FailedWriteIsWhole`. `NamespaceHolds` says that in a namespace every process
belongs to the call that runs and its first process is alive as long as any is;
`CallsInOrder` that at most the last call runs and that its second signal is pending only
after its timeout; `LeftHadEscaped` that what a timed-out call leaves after the second
signal had left its group. `WriteHolds` says what the file holds at each step of a write:
in a namespace nothing else runs then (`NobodyElse`), so it is what the caller saw, the
empty file created in its place, or the new content.

For any majors, purposes and repositories (`NodeRangeAssumption`, `CiAuthorAssumption`),
in `CiAuthorProofs`: that the code's reading of a range is sound for npm's meaning,
whatever the length of the range (`MetIsAdmitted`, `LowestIsLeast`, `AdmittedIsAbove`,
`AboveIsAdmitted`), and from it and a small invariant of the visit `ClaimHolds`; also
`ReportedHolds` and `GateHolds`. The invariant says that a decision rests on the workflows
as they are or on an empty listing, which never suffices because an install step is
always required (`UnlistedIsShort`).

For any packages' workspaces, versions and lockfiles (`DetectionAssumption`), in
`DetectionProofs`: `Inv` says that the workspace was a candidate and stays it
(`Chosen`), that every target was declared there and ahead (`Cleared`), that the
lockfile is untouched up to and apart from the move (`Untouched`), that a known version
stays known (`Known`). From it `DeclaredHolds`, `OnlyNamedHolds`, `ForwardHolds`.

The five statements section 4 refutes do hold under a condition, and that is a theorem:
`MovedOrUncertain` and `VerificationFollowsBoth` in the fixed order
(`FixedOrderMoves`, `FixedOrderVerifiesLast`), `ClassifiedIsWritten` without a requested
comment (`UncommentedIsWritten`), `EveryFloorIsMet` with one stated floor at most
(`SingleFloorIsMet`), `TimeoutLeavesNoOne` in a namespace (`NamespaceLeavesNoOne`).

These but the first, `PublishedIsVerified`, `StopIsObserved`, `ManifestNeedsGrant`, `AskingIsHarmless`,
`OnlyTheEscapedStay`, `FitsTheLifecycle`, `EveryStepIsCounted` and `InvocationsAdvance`
are theorems of formulas no run lists.

**Only model-checked.** Liveness under fairness, which is outside what the prover
handles: `EveryRunIsClassified`, `EveryVisitEnds`, `EveryCommandEnds`, `EveryCallEnds`,
`GroupGoesInTheEnd`, and the fairness `RunPromise` asks for. Of the first and the third
`EveryStepIsCounted` and `InvocationsAdvance` prove the half that is safety: nothing goes
on for ever. That a step is always possible until the end is the half TLC shows. Every
invariant and action property of the passing runs is proved.

**Not modelled.** Requests to the registry and to GitHub, beyond the lost answer of a
pull request that `WorkerVisits` and `RunLifecycle` have: they are reads, checked for
shape. Patch scope, a predicate on one value. File contents and text transforms;
release text, reports and progress output; argument constraints of sessions (data for
the Tenuo library); audit events and redaction; output caps of processes; discovery of a
candidate and the pull request event on the command line; the text scanners of lockfiles,
workspace globs and workflows, which stand as what they find. LangGraph, Tenuo, git,
npm and GitHub are modelled as far as the code uses them. A few branches the code
cannot reach are left out: the CI author's refusal of its own workflow, the
publisher's two early stops.

## 6. Plan

Done: `UpgradeRun` with `RunPromise`; `WorkerVisits` with `VisitPromise`;
`RunLifecycle`; `ProcessTool` and `FileTools`; `NodeRange` and `CiAuthor`; `Detection`.

Proved: every safety property of the runs (section 5).

Left, in this order:

1. An abstract file write (the old content, then the new one, at once) that the steps of
   `FileTools` refine in a namespace, and proofs of it.
2. `PatchScope`: `coding-model.ts:211-267`, against a reference definition.
3. A remote tool with retries and limits (`releases.ts`, `github.ts`), and which
   partial answers the researcher accepts.
4. Argument constraints of sessions, so that `ScriptsFitProfiles` says of each call
   that its arguments fit as well.
