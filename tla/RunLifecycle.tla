----------------------------- MODULE RunLifecycle -----------------------------
(***************************************************************************)
(* An invocation of the command around the run that UpgradeRun specifies:  *)
(* the worktree it works in, the branch and the record it leaves, the      *)
(* assessment it stores or continues, and how it exits.  Invocations and   *)
(* the user share the checkout, its branches, the remote and the state     *)
(* directory.  The rules are those of the code:                            *)
(*                                                                         *)
(*   - an invocation works in a worktree of its own, at one commit;        *)
(*   - once set up, the worktree is released however the run goes;         *)
(*   - what a run established is written before it is released, and an     *)
(*     assessment is stored only after that;                               *)
(*   - apply checks the stored assessment against the checkout, and then   *)
(*     works from the commit that was assessed.                            *)
(*                                                                         *)
(* A step on disk, in git or on GitHub may fail, a process may die between *)
(* any two steps, and the user may commit, edit, check out another commit  *)
(* or delete a branch at any time.                                         *)
(*                                                                         *)
(* An operator named ...If is the step with a bug the runs have to notice. *)
(***************************************************************************)
EXTENDS Integers

CONSTANTS
  Runs,       \* the invocations; each also stands for the UUID it would draw
  Names,      \* run ids a user may pass that are no UUIDs
  Elsewhere,  \* directories a user may pass for the artifacts
  Commits,    \* the commits the user may have checked out
  Merges,     \* which invocations' commits are in the history of each of them
  Contents,   \* what the lockfile and the manifest may hold
  Lockfile,   \* what they hold at each commit
  Edited,     \* what they hold once the user has edited them
  Asked,      \* the command lines that may be given to each invocation
  None        \* no value

Modes == {"upgrade", "assess", "apply"}
Ids == Runs \cup Names

\* Each run id has an artifacts directory of its own, for who names none.
Directories == Ids \cup Elsewhere

ASSUME LifecycleAssumption ==
  /\ Merges \in [Commits -> SUBSET Runs]
  /\ Lockfile \in [Commits -> Contents]
  /\ Edited \in Contents \ {Lockfile[c] : c \in Commits}
  /\ None \notin Directories \cup Commits \cup {"classified", "failed"}
  /\ Asked \in [Runs -> SUBSET [mode : Modes, id : Ids, target : Ids \cup {None},
                               artifacts : Directories \cup {None},
                               draft : BOOLEAN, comment : BOOLEAN]]

VARIABLES
  head,         \* the commit the user has checked out
  dirty,       \* whether the user has uncommitted work, the lockfile among it
  run,          \* the invocations
  worktrees,    \* the temporary directories that exist, by invocation
  registered,   \* the worktrees git has on record, by invocation
  branch,       \* by run id: whose commit the local run branch holds
  remote,       \* by run id: whose commit the remote run branch holds
  work,         \* by invocation: whether it has committed, and whether that was pushed
  record,       \* by artifacts directory: what is in it
  stored        \* by run id: the index of assessments

checkout == <<head, dirty>>
shared == <<worktrees, registered, branch, remote, work, record, stored>>
vars == <<head, dirty, run, worktrees, registered, branch, remote, work, record, stored>>

Assessments ==
  [by : Runs, commit : Commits, clean : BOOLEAN, content : Contents]

\* Where an invocation is; Working are the places inside its worktree.
Validation == {"load", "head", "tree"}
SetUp == {"resolve", "status", "add", "checkout"}
Publication == {"branch", "push", "open"}
Working == {"detect", "graph", "comment", "result", "details"} \cup Publication
Over == {"ended", "dead"}
Places == {"waiting", "release", "save"} \cup Validation \cup SetUp \cup Working \cup Over

\* A run that was classified exits with its status; "failed" stands for both of the codes,
\* unusable and internal, of a run that was not or whose ending failed.
Codes == {"classified", "failed", None}
Invocations ==
  [mode : Modes, id : Ids, target : Ids \cup {None}, dir : Directories,
   draft : BOOLEAN, comment : BOOLEAN, at : Places,
   assessment : Assessments \cup {None}, commit : Commits \cup {None}, clean : BOOLEAN, classified : BOOLEAN, exit : Codes]
Records == [audit : SUBSET Runs, result : Runs \cup {None}, patch : Runs \cup {None}]

TypeOK ==
  /\ head \in Commits
  /\ dirty \in BOOLEAN
  /\ run \in [Runs -> Invocations]
  /\ worktrees \subseteq Runs
  /\ registered \subseteq Runs
  /\ branch \in [Ids -> Runs \cup {None}]
  /\ remote \in [Ids -> Runs \cup {None}]
  /\ work \in [Runs -> {"none", "committed", "pushed"}]
  /\ record \in [Directories -> Records]
  /\ stored \in [Ids -> Assessments \cup {None}]

Init ==
  /\ head \in {c \in Commits : Merges[c] = {}}
  /\ dirty = FALSE
  /\ run = [r \in Runs |->
       [mode |-> "upgrade", id |-> r, target |-> None, dir |-> r, draft |-> FALSE,
        comment |-> FALSE, at |-> "waiting", assessment |-> None, commit |-> None, clean |-> FALSE,
        classified |-> FALSE, exit |-> None]]
  /\ worktrees = {}
  /\ registered = {}
  /\ branch = [i \in Ids |-> None]
  /\ remote = [i \in Ids |-> None]
  /\ work = [r \in Runs |-> "none"]
  /\ record = [d \in Directories |-> [audit |-> {}, result |-> None, patch |-> None]]
  /\ stored = [i \in Ids |-> None]

\* The user's copy of the lockfile and the manifest.
Content == IF dirty THEN Edited ELSE Lockfile[head]

At(r, place) == run[r].at = place
Goes(r, place) == run' = [run EXCEPT ![r].at = place]

\* Before there is a worktree to release, and after it is gone, a failure ends the
\* invocation; in between it has to be released first.
Exits(r, code) == run' = [run EXCEPT ![r].at = "ended", ![r].exit = code]
Fails(r) == run' = [run EXCEPT ![r].at = "release", ![r].exit = "failed"]

-----------------------------------------------------------------------------
(* The command line, and the checks before an assessment is continued.      *)

\* What the parser admits.  An id that was used before may be passed again.
Requests(r) ==
  {q \in Asked[r] :
     /\ q.id \in {r} \cup Names \cup {i \in Ids : stored[i] # None}
     /\ q.mode = "assess" => ~q.draft
     /\ q.mode # "upgrade" => ~q.comment
     /\ (q.mode = "apply") = (q.target # None)}

Start(r) ==
  /\ At(r, "waiting")
  /\ \E q \in Requests(r) :
       run' = [run EXCEPT ![r] =
         [@ EXCEPT !.mode = q.mode, !.id = q.id, !.target = q.target,
                   !.dir = IF q.artifacts = None THEN q.id ELSE q.artifacts,
                   !.draft = q.draft, !.comment = q.comment,
                   !.at = IF q.mode = "apply" THEN "load" ELSE "resolve"]]
  /\ UNCHANGED <<checkout, shared>>

\* Only an id that is a UUID can name an assessment.
Loadable(i) == i \in Runs /\ stored[i] # None

LoadAssessment(r) ==
  /\ At(r, "load")
  /\ IF Loadable(run[r].target) /\ stored[run[r].target].clean
     THEN run' = [run EXCEPT ![r].at = "head", ![r].assessment = stored[run[r].target]]
     ELSE Exits(r, "failed")
  /\ UNCHANGED <<checkout, shared>>

ValidateHead(r) ==
  /\ At(r, "head")
  /\ IF head = run[r].assessment.commit THEN Goes(r, "tree") ELSE Exits(r, "failed")
  /\ UNCHANGED <<checkout, shared>>

ValidateTree(r) ==
  /\ At(r, "tree")
  /\ IF ~dirty /\ Content = run[r].assessment.content
     THEN Goes(r, "resolve")
     ELSE Exits(r, "failed")
  /\ UNCHANGED <<checkout, shared>>

-----------------------------------------------------------------------------
(* isolateRepository: what fails here fails before anything would release   *)
(* the worktree.                                                            *)

\* The start commit is always the one checked out.
ResolveStartCommitIfHead(r) ==
  /\ At(r, "resolve")
  /\ run' = [run EXCEPT ![r].at = "status", ![r].commit = head]
  /\ UNCHANGED <<checkout, shared>>

ResolveStartCommit(r) ==
  /\ At(r, "resolve")
  /\ LET start == IF run[r].mode = "apply" THEN run[r].assessment.commit ELSE head
     IN  run' = [run EXCEPT ![r].at = "status", ![r].commit = start]
  /\ UNCHANGED <<checkout, shared>>

\* Every run reports whether the checkout was clean; only an assessment's is acted on.
ReadStatus(r) ==
  /\ At(r, "status")
  /\ run' = [run EXCEPT ![r].at = "add",
                        ![r].clean = IF run[r].mode = "assess" THEN ~dirty ELSE @]
  /\ UNCHANGED <<checkout, shared>>

\* No commit, no branch to protect, or a git that does not answer.
IsolationRefused(r) ==
  /\ At(r, "resolve") \/ At(r, "status")
  /\ Exits(r, "failed")
  /\ UNCHANGED <<checkout, shared>>

\* The directory is named after the run id alone.
AddWorktreeIfNamed(r) ==
  /\ At(r, "add")
  /\ worktrees' = worktrees \cup {run[r].id}
  /\ registered' = registered \cup {run[r].id}
  /\ Goes(r, "checkout")
  /\ UNCHANGED <<checkout, branch, remote, work, record, stored>>

\* One worktree for each run id: who comes second waits.
AddWorktreeIfLocked(r) ==
  /\ At(r, "add")
  /\ \A q \in registered : run[q].id # run[r].id
  /\ worktrees' = worktrees \cup {r}
  /\ registered' = registered \cup {r}
  /\ Goes(r, "checkout")
  /\ UNCHANGED <<checkout, branch, remote, work, record, stored>>

AddWorktree(r) ==
  /\ At(r, "add")
  /\ worktrees' = worktrees \cup {r}
  /\ \/ Goes(r, "checkout") /\ registered' = registered \cup {r}
     \/ Exits(r, "failed") /\ UNCHANGED registered
  /\ UNCHANGED <<checkout, branch, remote, work, record, stored>>

CheckOut(r) ==
  /\ At(r, "checkout")
  /\ Goes(r, "detect") \/ Exits(r, "failed")
  /\ UNCHANGED <<checkout, shared>>

-----------------------------------------------------------------------------
(* The run itself.                                                          *)

\* Detection, the check that every target is ahead, and the artifacts directory.
Detect(r) ==
  /\ At(r, "detect")
  /\ \/ Goes(r, "graph") /\ record' = [record EXCEPT ![run[r].dir].audit = @ \cup {r}]
     \/ Fails(r) /\ UNCHANGED record
  /\ UNCHANGED <<checkout, worktrees, registered, branch, remote, work, stored>>

\* A result is commented on, if that was asked for, before it is written down.
Classified(r) ==
  run' = [run EXCEPT ![r].classified = TRUE,
                     ![r].at = IF run[r].comment THEN "comment" ELSE "result"]

\* UpgradeRun up to its last two steps: the publisher's visit, if it gets one, and the
\* classification, whatever it is.
RunGraph(r) ==
  /\ At(r, "graph")
  /\ \/ run[r].draft /\ Goes(r, "branch")
     \/ Classified(r)
     \/ Fails(r)
  /\ UNCHANGED <<checkout, shared>>

\* Git refuses a branch that is there already.  A publisher that throws, here or at the
\* commit that follows, leaves the run blocked.
CreateBranch(r) ==
  /\ At(r, "branch")
  /\ LET committed == [work EXCEPT ![r] = "committed"]
     IN  \/ /\ branch[run[r].id] = None
            /\ branch' = [branch EXCEPT ![run[r].id] = r]
            /\ \/ Goes(r, "push") /\ work' = committed
               \/ Classified(r) /\ work' \in {work, committed}
         \/ Classified(r) /\ UNCHANGED <<branch, work>>
  /\ UNCHANGED <<checkout, worktrees, registered, remote, record, stored>>

\* A push with force.
PushIfForced(i, r) ==
  /\ remote' = [remote EXCEPT ![i] = r]
  /\ work' = [work EXCEPT ![r] = "pushed"]

\* Without force, a remote branch accepts only what has its present commit in its history:
\* a run that started from a commit the earlier run's commit was merged into.
Push(i, r) ==
  /\ remote[i] # None => remote[i] \in Merges[run[r].commit]
  /\ remote' = [remote EXCEPT ![i] = r]
  /\ work' = [work EXCEPT ![r] = "pushed"]

PushBranch(r) ==
  /\ At(r, "push")
  /\ \/ Push(run[r].id, r) /\ (Goes(r, "open") \/ Classified(r))
     \/ Classified(r) /\ UNCHANGED <<remote, work>>
  /\ UNCHANGED <<checkout, worktrees, registered, branch, record, stored>>

OpenDraft(r) ==
  /\ At(r, "open")
  /\ Classified(r)
  /\ UNCHANGED <<checkout, shared>>

PostReviewComment(r) ==
  /\ At(r, "comment")
  /\ Goes(r, "result") \/ Fails(r)
  /\ UNCHANGED <<checkout, shared>>

\* result.json and report.md.
WriteResult(r) ==
  /\ At(r, "result")
  /\ \/ Goes(r, "details") /\ record' = [record EXCEPT ![run[r].dir].result = r]
     \/ Fails(r) /\ UNCHANGED record
  /\ UNCHANGED <<checkout, worktrees, registered, branch, remote, work, stored>>

\* Artifacts that cannot be written are not worth failing a completed run over.
WriteDetailsIfOptional(r) ==
  /\ At(r, "details")
  /\ Goes(r, "release")
  /\ record' \in {record, [record EXCEPT ![run[r].dir].patch = r]}
  /\ UNCHANGED <<checkout, worktrees, registered, branch, remote, work, stored>>

\* The diff is taken from the worktree, by a git that may fail, and written with the rest.
WriteDetails(r) ==
  /\ At(r, "details")
  /\ \/ Goes(r, "release") /\ record' = [record EXCEPT ![run[r].dir].patch = r]
     \/ Fails(r) /\ UNCHANGED record
  /\ UNCHANGED <<checkout, worktrees, registered, branch, remote, work, stored>>

-----------------------------------------------------------------------------
(* The way out.                                                             *)

Leaves(r) ==
  IF run[r].exit # None THEN Goes(r, "ended")
  ELSE IF run[r].mode = "assess" THEN Goes(r, "save")
  ELSE Exits(r, "classified")

\* The worktree is named after the run id only, so releasing one releases both.
ReleaseIfById(r) ==
  /\ At(r, "release")
  /\ LET same == {q \in Runs : run[q].id = run[r].id}
     IN  worktrees' = worktrees \ same /\ registered' = registered \ same
  /\ Leaves(r)
  /\ UNCHANGED <<checkout, branch, remote, work, record, stored>>

\* A directory that cannot be deleted is left where it is.
ReleaseIfTolerant(r) ==
  /\ At(r, "release")
  /\ worktrees' \in {worktrees, worktrees \ {r}}
  /\ registered' = registered
  /\ Leaves(r)
  /\ UNCHANGED <<checkout, branch, remote, work, record, stored>>

\* Git removes the worktree, or the directory is deleted and the registrations of
\* directories that no longer exist are pruned, or even the deletion fails.
Release(r) ==
  /\ At(r, "release")
  /\ \/ /\ worktrees' = worktrees \ {r}
        /\ \/ registered' = registered \ {r}
           \/ registered' = registered \cap worktrees'
           \/ UNCHANGED registered
        /\ Leaves(r)
     \/ Exits(r, "failed") /\ UNCHANGED <<worktrees, registered>>
  /\ UNCHANGED <<checkout, branch, remote, work, record, stored>>

\* The commit and its cleanness are the run's; the hashes are of the checkout as it is
\* now.  A write that fails half way leaves a file that does not parse.
SaveAssessment(r) ==
  /\ At(r, "save")
  /\ \/ /\ Exits(r, "classified")
        /\ stored' = [stored EXCEPT ![run[r].id] =
             [by |-> r, commit |-> run[r].commit, clean |-> run[r].clean, content |-> Content]]
     \/ /\ Exits(r, "failed")
        /\ stored' \in {stored, [stored EXCEPT ![run[r].id] = None]}
  /\ UNCHANGED <<checkout, worktrees, registered, branch, remote, work, record>>

\* A signal, a crash, a power cut: nothing is released and nothing is written.
Die(r) ==
  /\ run[r].at \notin {"waiting"} \cup Over
  /\ Goes(r, "dead")
  /\ UNCHANGED <<checkout, shared>>

-----------------------------------------------------------------------------
(* The user.                                                                *)

\* A commit can be there once the runs' commits it merges are, each with its own history.
Exists(c) ==
  \A q \in Merges[c] : work[q] # "none" /\ Merges[run[q].commit] \subseteq Merges[c]

UserChecksOut ==
  /\ head' \in {c \in Commits : Exists(c)}
  /\ dirty' = FALSE
  /\ UNCHANGED <<run, shared>>

UserEdits ==
  /\ dirty' \in BOOLEAN
  /\ UNCHANGED <<head, run, shared>>

\* Git refuses to delete a branch that a worktree has checked out.
UserDeletesBranch(i) ==
  /\ branch[i] \notin registered \cup {None}
  /\ branch' = [branch EXCEPT ![i] = None]
  /\ UNCHANGED <<checkout, run, worktrees, registered, remote, work, record, stored>>

Step(r) ==
  \/ LoadAssessment(r) \/ ValidateHead(r) \/ ValidateTree(r)
  \/ ResolveStartCommit(r) \/ ReadStatus(r) \/ IsolationRefused(r)
  \/ AddWorktree(r) \/ CheckOut(r) \/ Detect(r) \/ RunGraph(r)
  \/ CreateBranch(r) \/ PushBranch(r) \/ OpenDraft(r) \/ PostReviewComment(r)
  \/ WriteResult(r) \/ WriteDetails(r) \/ Release(r) \/ SaveAssessment(r)

Next ==
  \/ \E r \in Runs : Start(r) \/ Step(r) \/ Die(r)
  \/ UserChecksOut \/ UserEdits
  \/ \E i \in Ids : UserDeletesBranch(i)

\* What nothing bounds: the git that checks an assessment against the checkout and the
\* requests to GitHub have no time limit, and a command of the run, which has one, can be
\* held open past it outside a process namespace (ProcessTool, Holdout).
Unbounded == {"head", "tree", "graph", "comment"} \cup Publication

\* A process that lives goes on, wherever what it waits for is bounded: its own work, files,
\* and the git of isolate.ts, which has a time limit.
Fairness == \A r \in Runs : WF_vars(run[r].at \notin Unbounded /\ Step(r))

Spec == Init /\ [][Next]_vars /\ Fairness

-----------------------------------------------------------------------------
(* Properties.                                                              *)

\* No other invocation that was started writes to this one's artifacts directory.
Alone(r) == \A q \in Runs \ {r} : At(q, "waiting") \/ run[q].dir # run[r].dir

\* What apply works from is what was assessed: the commit the assessing run worked at, and
\* started at from a checkout without uncommitted work, wherever the user's checkout has
\* been in between or is by now (storage.ts, isolate.ts).
AppliedIsAssessed ==
  \A r \in Runs :
    (run[r].mode = "apply" /\ run[r].commit # None) =>
      LET a == run[r].assessment
      IN  /\ a # None
          /\ a.clean
          /\ run[r].commit = a.commit
          /\ run[a.by].commit = a.commit
          /\ run[a.by].clean

\* A run that is at work has its worktree, on disk and on git's record, whatever another
\* invocation releases, under the same run id or another (isolate.ts, release).
WorktreeIsIntact ==
  \A r \in Runs : run[r].at \in Working => r \in worktrees \cap registered

\* An invocation that reports a status, or whose assessment is on the index, has left the
\* audit log, the result and the patch of that same run in its artifacts directory, provided
\* nobody else wrote there: a directory is shared by who passes the same run id again, and
\* by who names the same one with --artifacts, whatever the ids (run.ts, artifacts.ts,
\* storage.ts; main.ts, toRunOptions).
RecordIsComplete ==
  \A r \in Runs :
    LET i == run[r].id
    IN  (\/ run[r].exit = "classified"
         \/ stored[i] # None /\ stored[i].by = r) /\ Alone(r)
          => record[run[r].dir] = [audit |-> {r}, result |-> r, patch |-> r]

\* An invocation that reports a status leaves no worktree on disk behind it.
StatusLeavesNothing ==
  \A r \in Runs : run[r].exit = "classified" => r \notin worktrees

\* The remote branch of run id i has the commit of r at its tip or in its history.
Holds(i, r) ==
  remote[i] # None /\ (remote[i] = r \/ r \in Merges[run[remote[i]].commit])

\* What was pushed under a run branch stays in that branch's history, though two runs may
\* share the id, the local branch may be deleted in between and a later run may start from a
\* commit the first one's was merged into (git.ts, createBranch and pushBranch).
PublishedStays ==
  \A r \in Runs : work[r] = "pushed" => Holds(run[r].id, r)

\* Every invocation that is started comes to an end, or is held for ever by a call that
\* nothing bounds: none waits on another invocation, on what a dead one left or on the user
\* (main.ts, run.ts, isolate.ts, storage.ts).
EveryCommandEnds ==
  \A r \in Runs :
    <>[](run[r].at \in Unbounded) \/ []<>(run[r].at \in {"waiting"} \cup Over)

\* Once a run is classified, nothing that fails before its artifacts are written loses them
\* (run.ts, runGraph: "throwing here loses `patch.diff` and the diff with it").
ClassifiedIsWritten ==
  [][\A r \in Runs :
       run[r].classified /\ ~At(r, "release")
         /\ Fails(r)
         => At(r, "result") \/ At(r, "details")]_vars
=============================================================================
