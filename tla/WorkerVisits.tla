---------------------------- MODULE WorkerVisits ----------------------------
(***************************************************************************)
(* What happens inside the worker nodes that UpgradeRun takes in one step: *)
(* the broker narrows the run's session for one worker, the worker makes   *)
(* its calls one by one, each is authorised when it starts, time passes    *)
(* between them, a call may fail, and the node commits an update, retries  *)
(* once with a newly approved elevation, or records a blocking condition.  *)
(*                                                                         *)
(* The prologue's visits, which only read and run commands, are abstracted *)
(* to the time they took.  `at` is the call a worker makes next; calls     *)
(* that read what the worker reads anyway share one.  A command that is    *)
(* under way when its session expires completes as if it had ended before. *)
(***************************************************************************)
EXTENDS Naturals, FiniteSets

CONSTANTS
  Sources,            \* source files the move has to rewrite
  Tests,              \* test files that still load the package as CommonJS
  Targets,            \* the requested package and its companions
  MaxConvertedFiles,  \* files one conversion plan covers
  MaxWorkerAttempts,
  ParentTtl,          \* life of the run's session; the unit is five minutes
  Configurations

Options == [esm : BOOLEAN,       \* the target is ESM-only; otherwise an export was renamed
            granted : BOOLEAN,   \* the elevation the ESM move asks for is approved
            honoured : BOOLEAN]  \* the parent warrant can delegate that elevation

ASSUME FilesAssumption == IsFiniteSet(Sources) /\ Tests # {} /\ Targets # {}
ASSUME LimitsAssumption == MaxConvertedFiles \in Nat /\ MaxWorkerAttempts \in Nat /\ ParentTtl \in Nat
ASSUME OptionsAssumption == Configurations \subseteq Options

VARIABLES
  options,    \* fixed for the run
  now,
  visit,      \* the worker visit in progress, or Closed
  attempts, requested, recorded, verdict, halted,   \* channels of UpgradeState
  tree,       \* the worktree
  remote,     \* steps of the publication that took effect
  before      \* history: tree and remote when the visit started

channels == <<attempts, requested, recorded, verdict, halted>>
vars == <<options, now, visit, channels, tree, remote, before>>

-----------------------------------------------------------------------------
\* Workers, the capabilities of their profiles and the calls they make.

Worker == [assess_verification |-> "test_author", author_tests |-> "test_author",
           implement |-> "implementer", configure_ci |-> "ci_author",
           verify |-> "verifier", publish_draft |-> "publisher"]
WorkerPhases == DOMAIN Worker

ReadOnly == {"read_file", "list_files"}

Profile ==
  [test_author |-> ReadOnly \cup {"write_test_file", "run_check"},
   implementer |-> ReadOnly \cup {"write_source_file", "update_dependency",
                                  "install_dependencies", "run_check"},
   ci_author   |-> ReadOnly \cup {"write_ci_file"},
   verifier    |-> ReadOnly \cup {"read_git_status", "read_git_diff",
                                  "install_dependencies", "run_check"},
   publisher   |-> {"read_git_status", "read_git_diff", "create_branch",
                    "commit_changes", "push_branch", "create_draft_pr"}]

Ttl == [test_author |-> 2, implementer |-> 3, ci_author |-> 1, verifier |-> 6, publisher |-> 1]

\* The assessment phase of the test author reads and cannot write.
StandingIfWorkerIsReadOnly(phase) ==
  IF Worker[phase] = "test_author" THEN ReadOnly ELSE Profile[Worker[phase]]
Standing(phase) ==
  IF phase = "assess_verification" THEN ReadOnly ELSE Profile[Worker[phase]]

\* The capability each call exercises.
Needs ==
  [survey |-> "list_files", author |-> "write_test_file", reread |-> "read_file",
   read |-> "read_file", plan |-> "list_files", move |-> "update_dependency",
   rewrite |-> "write_source_file", manifest |-> "update_manifest_field",
   workflow |-> "write_ci_file",
   freeze |-> "read_git_diff", install |-> "install_dependencies",
   check |-> "run_check", compare |-> "read_git_diff",
   status |-> "read_git_status", branch |-> "create_branch",
   commit |-> "commit_changes", push |-> "push_branch", draft |-> "create_draft_pr"]
Calls == DOMAIN Needs

Opening(phase) ==
  CASE phase = "implement"     -> IF options.esm THEN "read" ELSE "move"
    [] phase = "verify"        -> "freeze"
    [] phase = "publish_draft" -> "status"
    [] OTHER                   -> "survey"

-----------------------------------------------------------------------------
\* The broker: one narrowed session per attempt (broker.ts).

Closed == [phase |-> "none", attempt |-> 0, applied |-> FALSE, elevated |-> FALSE,
           expires |-> 0, at |-> "closed", todo |-> {}]
Open == visit.phase # "none"

\* Narrowing clamps a child's life to what is left of its parent's.
ExpiryIfOwn(w) == now + Ttl[w]
Expiry(w) == IF now + Ttl[w] < ParentTtl THEN now + Ttl[w] ELSE ParentTtl

\* An approved elevation the parent cannot delegate is dropped, not fatal.
Narrowable(applied) == applied /\ options.honoured

Session(phase, attempt, applied) ==
  [phase |-> phase, attempt |-> attempt, applied |-> applied,
   elevated |-> Narrowable(applied), expires |-> Expiry(Worker[phase]),
   at |-> Opening(phase), todo |-> {}]

Held == Standing(visit.phase) \cup (IF visit.elevated THEN {"update_manifest_field"} ELSE {})

Authorized == Needs[visit.at] \in Held /\ now < visit.expires

\* Requests already in state that a grant answers; only the implementer makes any.
ApprovedElevations(phase) == phase = "implement" /\ requested /\ options.granted

\* A request made in this visit that a grant answers and that was not applied yet.
\* The node retries at most once.
Retries == visit.attempt = 1 /\ options.granted /\ ~visit.applied

-----------------------------------------------------------------------------
\* The node around a visit (nodes.ts).

At(call) == visit.at = call
Calling(call) == At(call) /\ Authorized
Go(call) == visit' = [visit EXCEPT !.at = call]

Attempted(phase) == attempts' = [attempts EXCEPT ![Worker[phase]] = @ + 1]

\* The update is committed; a retry's carries the first attempt's request as well.
Returns(records, asks) ==
  /\ visit' = Closed
  /\ Attempted(visit.phase)
  /\ recorded' = records
  /\ requested' = (requested \/ asks \/ visit.attempt = 2)
  /\ UNCHANGED halted

\* A returned blocking condition or prohibited action.
Blocks(phase) ==
  /\ visit' = Closed
  /\ Attempted(phase)
  /\ halted' = TRUE
  /\ requested' = (requested \/ visit.attempt = 2)
  /\ UNCHANGED recorded

\* asBlockingCondition: whatever the worker would have returned is lost.
ThrowsIfForgotten(phase) ==
  /\ visit' = Closed
  /\ Attempted(phase)
  /\ UNCHANGED <<halted, requested, recorded>>
Throws(phase) ==
  /\ visit' = Closed
  /\ Attempted(phase)
  /\ halted' = TRUE
  /\ UNCHANGED <<requested, recorded>>

WithinAttemptsIfInclusive(worker) == attempts[worker] <= MaxWorkerAttempts
WithinAttempts(worker) == attempts[worker] < MaxWorkerAttempts

\* The eligibility rules of UpgradeRun as far as this state tells them apart, for a
\* run with one finding that reaches source files and a draft to open.
Offered(phase) ==
  /\ ~Open /\ ~halted /\ "publish_draft" \notin recorded
  /\ WithinAttempts(Worker[phase])
  /\ CASE phase = "assess_verification" ->
            recorded \cap {"assess_verification", "author_tests"} = {} /\ verdict # "passed"
       [] phase = "author_tests"  -> verdict # "passed"
       [] phase = "implement"     -> /\ requested => options.granted
                                     /\ options.esm => "author_tests" \in recorded
                                     /\ "implement" \in recorded => verdict = "failed"
       [] phase = "configure_ci"  -> "implement" \in recorded /\ "configure_ci" \notin recorded
       [] phase = "verify"        -> "implement" \in recorded /\ verdict # "passed"
       [] phase = "publish_draft" -> verdict = "passed"

\* With the move made and every finding addressed the implementer has no rule left: it
\* blocks without making a call.
NothingLeft(phase) == phase = "implement" /\ "implement" \in recorded

Pristine == [moved |-> {}, converted |-> {}, manifest |-> "commonjs", tests |-> {}, ci |-> FALSE]

Init ==
  /\ options \in Configurations
  /\ now \in 0 .. ParentTtl
  /\ visit = Closed
  /\ attempts = [w \in DOMAIN Profile |-> 0]
  /\ requested = FALSE /\ recorded = {} /\ verdict = "not_run" /\ halted = FALSE
  /\ tree = Pristine /\ remote = {}
  /\ before = [tree |-> tree, remote |-> remote]

\* Past the parent's expiry time makes no further difference.
Tick ==
  /\ now < ParentTtl
  /\ now' = now + 1
  /\ UNCHANGED <<options, visit, channels, tree, remote, before>>

StartVisit(phase) ==
  /\ Offered(phase) /\ ~NothingLeft(phase)
  /\ now < ParentTtl
  /\ visit' = Session(phase, 1, ApprovedElevations(phase))
  /\ before' = [tree |-> tree, remote |-> remote]
  /\ UNCHANGED <<options, now, channels, tree, remote>>

\* An expired parent narrows nothing: the worker cannot start.
StartFails(phase) ==
  /\ Offered(phase)
  /\ now >= ParentTtl \/ NothingLeft(phase)
  /\ Throws(phase)
  /\ UNCHANGED <<options, now, verdict, tree, remote, before>>

\* A denial and a tool that throws both end the visit where it stands.
Denied ==
  /\ visit.at \in Calls /\ ~Authorized
  /\ Throws(visit.phase)
  /\ UNCHANGED <<options, now, verdict, tree, remote, before>>

\* Files are replaced whole or not at all, but the remote may have acted on a call
\* whose answer was lost.
PublishingCalls == {"branch", "commit", "push", "draft"}
Delivered == remote' = remote \cup ({visit.at} \cap PublishingCalls)
ToolFails ==
  /\ visit.at \in Calls /\ Authorized
  /\ UNCHANGED remote \/ Delivered
  /\ Throws(visit.phase)
  /\ UNCHANGED <<options, now, verdict, tree, before>>

-----------------------------------------------------------------------------
\* Calls that only read or run, and what the worker does next.

\* The test author's and the CI author's look at what is there.
Survey ==
  /\ Calling("survey")
  /\ CASE visit.phase = "author_tests" /\ tree.tests # Tests -> Go("author")
       [] visit.phase = "configure_ci" -> Go("workflow") \/ Go("return")
       [] OTHER -> Go("return")
  /\ UNCHANGED <<options, now, channels, tree, remote, before>>

\* After writing, both look again before they report.
Reread ==
  /\ Calling("reread")
  /\ Go("return")
  /\ UNCHANGED <<options, now, channels, tree, remote, before>>

Return ==
  /\ At("return")
  /\ Returns(recorded \cup {visit.phase}, FALSE)
  /\ UNCHANGED <<options, now, verdict, tree, remote, before>>

\* The verifier: freeze the candidate, install, check, compare and judge.
RunChecksIfUntilGreen ==
  /\ \/ Calling("freeze") /\ Go("install")
     \/ Calling("install") /\ Go("check")
     \/ Calling("check") /\ (Go("compare") \/ Go("install"))
  /\ UNCHANGED <<options, now, channels, tree, remote, before>>
RunChecks ==
  /\ \/ Calling("freeze") /\ Go("install")
     \/ Calling("install") /\ Go("check")
     \/ Calling("check") /\ Go("compare")
  /\ UNCHANGED <<options, now, channels, tree, remote, before>>

InstallFails ==
  /\ Calling("install")
  /\ Blocks(visit.phase) /\ verdict' = "failed"
  /\ UNCHANGED <<options, now, tree, remote, before>>

Resolved == tree.moved = Targets

Judge ==
  /\ Calling("compare")
  /\ \/ Resolved /\ verdict' = "passed" /\ Returns(recorded, FALSE)
     \/ verdict' = "failed" /\ Returns(recorded, FALSE)
     \/ verdict' = "failed" /\ Blocks(visit.phase)    \* a check changed the candidate
  /\ UNCHANGED <<options, now, tree, remote, before>>

-----------------------------------------------------------------------------
\* Calls that write: what each tool leaves behind, and the worker's script around it.

WriteSourceFile(f) == tree' = [tree EXCEPT !.converted = @ \cup {f}]
WriteTestFile(f) == tree' = [tree EXCEPT !.tests = @ \cup {f}]
WriteCiFile == tree' = [tree EXCEPT !.ci = TRUE]
UpdateDependency(t) == tree' = [tree EXCEPT !.moved = @ \cup {t}]
UpdateManifestField == tree' = [tree EXCEPT !.manifest = "module"]

AuthorTest(f) ==
  /\ Calling("author") /\ f \in Tests \ tree.tests
  /\ WriteTestFile(f)
  /\ Go(IF tree'.tests = Tests THEN "reread" ELSE "author")
  /\ UNCHANGED <<options, now, channels, remote, before>>

WriteWorkflow ==
  /\ Calling("workflow")
  /\ WriteCiFile
  /\ Go("reread")
  /\ UNCHANGED <<options, now, channels, remote, before>>

\* migrateToEsm, without the capability it needs: ask, write nothing, return.
RequestElevation ==
  /\ Calling("read") /\ ~visit.elevated
  /\ IF Retries
       THEN visit' = Session(visit.phase, 2, TRUE) /\ UNCHANGED channels
       ELSE Returns(recorded, TRUE) /\ UNCHANGED verdict
  /\ UNCHANGED <<options, now, tree, remote, before>>

BeginConversion ==
  /\ Calling("read") /\ visit.elevated
  /\ Go("plan")
  /\ UNCHANGED <<options, now, channels, tree, remote, before>>

\* The files a plan covers: all there are, up to the limit.
CoveredIfNamed == SUBSET Sources
Covered ==
  {S \in SUBSET Sources :
     S = Sources \/ (Cardinality(Sources) > MaxConvertedFiles /\ Cardinality(S) = MaxConvertedFiles)}

\* Every file's conversion is worked out before any is written; one refusal stops all.
PlanConversions ==
  /\ Calling("plan")
  /\ \/ \E S \in Covered : visit' = [visit EXCEPT !.todo = S, !.at = "move"]
        /\ UNCHANGED channels
     \/ Sources # {} /\ Blocks(visit.phase) /\ UNCHANGED verdict
  /\ UNCHANGED <<options, now, tree, remote, before>>

\* The manifest goes last.
AfterWriteIfManifestFirst(todo) ==
  IF options.esm THEN "manifest" ELSE IF todo # {} THEN "rewrite" ELSE "return"
AfterWrite(todo) ==
  IF todo # {} THEN "rewrite" ELSE IF options.esm THEN "manifest" ELSE "return"

\* A rename has no plan: its files are read and written one at a time.
MoveDependency(t) ==
  LET todo == IF options.esm THEN visit.todo ELSE Sources
  IN /\ Calling("move") /\ t \in Targets \ tree.moved
     /\ UpdateDependency(t)
     /\ visit' = [visit EXCEPT !.todo = todo,
                               !.at = IF tree'.moved = Targets THEN AfterWrite(todo) ELSE "move"]
     /\ UNCHANGED <<options, now, channels, remote, before>>

\* A package manager that fails may have moved the package all the same; so has one
\* that passed and also moved packages nobody asked it to.
MoveFails(t) ==
  /\ Calling("move") /\ t \in Targets \ tree.moved
  /\ UNCHANGED tree \/ UpdateDependency(t)
  /\ Blocks(visit.phase)
  /\ UNCHANGED <<options, now, verdict, remote, before>>

RewriteSource(f) ==
  LET todo == visit.todo \ {f}
  IN /\ Calling("rewrite") /\ f \in visit.todo
     /\ WriteSourceFile(f)
     /\ visit' = [visit EXCEPT !.todo = todo, !.at = AfterWrite(todo)]
     /\ UNCHANGED <<options, now, channels, remote, before>>

SetModuleType ==
  /\ Calling("manifest")
  /\ UpdateManifestField
  /\ Go("return")
  /\ UNCHANGED <<options, now, channels, remote, before>>

\* The publisher: branch, commit, push and pull request, in that order.
AfterPublishing == [status |-> "branch", branch |-> "commit", commit |-> "push",
                    push |-> "draft", draft |-> "return"]
PublishStep ==
  /\ visit.at \in DOMAIN AfterPublishing /\ Authorized
  /\ Delivered
  /\ Go(AfterPublishing[visit.at])
  /\ UNCHANGED <<options, now, channels, tree, before>>

Step ==
  \/ Denied \/ ToolFails
  \/ Survey \/ Reread \/ Return
  \/ RunChecks \/ InstallFails \/ Judge
  \/ \E f \in Tests : AuthorTest(f)
  \/ WriteWorkflow
  \/ RequestElevation \/ BeginConversion \/ PlanConversions
  \/ \E t \in Targets : MoveDependency(t) \/ MoveFails(t)
  \/ \E f \in Sources : RewriteSource(f)
  \/ SetModuleType
  \/ PublishStep

Next ==
  \/ Tick
  \/ \E phase \in WorkerPhases : StartVisit(phase) \/ StartFails(phase)
  \/ Step

\* A visit is awaited.  That each of its calls ends is an assumption (UpgradeRun, Spec).
Spec == Init /\ [][Next]_vars /\ WF_vars(Step)

-----------------------------------------------------------------------------
\* Properties.

TypeOK ==
  /\ options \in Configurations /\ now \in 0 .. ParentTtl
  /\ visit = Closed \/
     visit \in [phase : WorkerPhases, attempt : 1 .. 2, applied : BOOLEAN, elevated : BOOLEAN,
                expires : Nat, at : Calls \cup {"return"}, todo : SUBSET Sources]
  /\ attempts \in [DOMAIN Profile -> 0 .. MaxWorkerAttempts]
  /\ requested \in BOOLEAN /\ halted \in BOOLEAN
  /\ recorded \subseteq WorkerPhases
  /\ verdict \in {"not_run", "failed", "passed"}
  /\ tree \in [moved : SUBSET Targets, converted : SUBSET Sources,
               manifest : {"commonjs", "module"}, tests : SUBSET Tests, ci : BOOLEAN]
  /\ remote \subseteq PublishingCalls

\* A worker's script never makes a call its own session does not hold, in either phase
\* of the test author and with or without the elevation: a denial means the session
\* expired (profiles.ts, broker.ts:452, implementer.ts:424).
ScriptsFitProfiles == visit.at \in Calls => Needs[visit.at] \in Held

\* Every source file of the package moves together with its module type, the manifest
\* last, whatever fails or expires in between (implementer.ts:402).
EveryFileMoves ==
  tree.manifest = "module" => tree.moved = Targets /\ tree.converted = Sources

\* The manifest is only ever edited under an approval that the parent warrant covers
\* (broker.ts:262).
ManifestByGrant == tree.manifest = "module" => options.granted /\ options.honoured

\* As long as the run goes on, state knows of everything the workers left in the
\* worktree and on the remote; a worker that died half way stops the run.
RecordAgrees ==
  ~Open /\ ~halted =>
    /\ ("implement" \in recorded) = (tree.moved # {})
    /\ tree.tests # {} => "author_tests" \in recorded
    /\ tree.ci => "configure_ci" \in recorded
    /\ remote # {} => "publish_draft" \in recorded

\* A worker that asks for an elevation has written nothing, so the retry repeats nothing
\* (nodes.ts:107).
AskingWritesNothing ==
  [][visit.attempt = 1 /\ (visit'.attempt = 2 \/ requested' # requested)
       => tree' = before.tree]_vars

\* No worker outlives the run's own session: what it starts after that has no effect.
NothingAfterExpiry == [][tree' # tree \/ remote' # remote => now < ParentTtl]_vars

\* Every visit ends, the retried one too: no worker repeats its calls until they please it
\* (broker.ts:202).
EveryVisitEnds == Open ~> ~Open

\* Seen from between the visits: the migration is made whole or the run is stopped, and
\* only a whole one leaves the machine.
Settled == IF Open THEN before ELSE [tree |-> tree, remote |-> remote]
PackageOf(t) ==
  IF t.moved = {} /\ t.converted = {} /\ t.manifest = "commonjs" THEN "untouched"
  ELSE IF /\ t.moved = Targets /\ t.converted = Sources
          /\ options.esm => t.manifest = "module" THEN "whole"
  ELSE "partial"

Promise == INSTANCE VisitPromise
             WITH package <- PackageOf(Settled.tree), stopped <- halted,
                  published <- IF Settled.remote \cap {"push", "draft"} = {} THEN "none"
                               ELSE IF "publish_draft" \in recorded THEN "open" ELSE "left"

KeepsPromise == Promise!Spec
=============================================================================
