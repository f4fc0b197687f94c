------------------------------ MODULE Detection ------------------------------
(***************************************************************************)
(* What a run takes a repository to be, and the move it makes on the       *)
(* strength of it: which manager owns the lockfile, which project declares *)
(* the package (bootstrap/detect.ts), which version that project has now   *)
(* (bootstrap/installed.ts), whether the target is ahead of it (runner/    *)
(* run.ts), and then one update per target and the look at what else       *)
(* moved (workers/implementer.ts).  Detection refuses where it would have  *)
(* to guess.                                                               *)
(*                                                                         *)
(* A lockfile is what it records of each package at each project: npm the  *)
(* copy under the project or, at Root, the hoisted one; pnpm what the      *)
(* importer resolved; yarn the block of the project's own range.           *)
(***************************************************************************)
EXTENDS Integers, FiniteSets, FiniteSetsExt

CONSTANTS
  Primary, Companion, Other,  \* the package asked for, one named along, any third
  Members,     \* the directories that may hold a workspace package
  Root,        \* the project at the repository's root
  Top,         \* versions are 1 .. Top
  Nowhere,     \* no --workspace, no packageManager field, no range but an exact version
  Missing, Unread,  \* a lockfile entry that is not there, or not in a form that is understood
  Shapes       \* the repositories and command lines a run may start with

Packages == {Primary, Companion, Other}
Projects == Members \cup {Root}
Versions == 1 .. Top
Managers == {"npm", "pnpm", "yarn"}
Blocks == {"dependencies", "devDependencies", "optionalDependencies"}
Purposes == {"test", "typecheck", "lint", "build"}

Entries == Versions \cup {Missing, Unread}

ASSUME DetectionAssumption ==
  /\ Primary # Companion /\ Other \notin {Primary, Companion}
  /\ IsFiniteSet(Members) /\ Root \notin Members /\ Nowhere \notin Projects \cup Managers
  /\ Top \in Nat /\ {Missing, Unread, Nowhere} \cap Versions = {} /\ Missing # Unread
  /\ \A s \in Shapes :
       /\ s.lockfiles \subseteq Managers          \* which of them are on disk
       /\ s.field \in Managers \cup {Nowhere}     \* the manager packageManager names
       /\ s.unlocked \in BOOLEAN                  \* .npmrc says package-lock=false
       /\ s.roots \subseteq Members               \* what the workspace patterns expand to
       /\ s.nameless \subseteq s.roots            \* workspace packages without a name
       /\ s.declared \in [Packages -> [Projects -> SUBSET Blocks]]
       /\ \A p \in Packages : \A x \in Members \ s.roots : s.declared[p][x] = {}
       /\ s.scripts \in [Projects -> SUBSET Purposes]  \* present and not screened out
       /\ s.lock \in [Packages -> [Projects -> Entries]]
       /\ s.pinned \in [Packages -> Versions \cup {Nowhere}]  \* an exact specifier
       /\ s.asked \in Projects \cup {Nowhere}     \* --workspace; Root is written "."
       /\ s.targets \in [{Primary, Companion} -> Versions \cup {Nowhere}]
       /\ s.targets[Primary] # Nowhere
       /\ s.transitive \in BOOLEAN                \* --allow-transitive

VARIABLES
  shape, pc,
  manager, workspace,   \* as detected
  planned,              \* the checks of the run
  lock,                 \* the lockfile in the worktree
  before,               \* what it recorded when the implementer started
  todo                  \* targets not moved yet

vars == <<shape, pc, manager, workspace, planned, lock, before, todo>>

Targets == {p \in {Primary, Companion} : shape.targets[p] # Nowhere}

-----------------------------------------------------------------------------
\* detect.ts

Refused == pc' = "refused" /\ UNCHANGED <<shape, manager, workspace, planned, lock, before, todo>>

DetectPackageManager ==
  /\ pc = "manager"
  /\ \/ /\ Cardinality(shape.lockfiles) = 1
        /\ manager' \in shape.lockfiles
        /\ pc' = "agreement"
        /\ UNCHANGED <<shape, workspace, planned, lock, before, todo>>
     \/ Cardinality(shape.lockfiles) # 1 /\ Refused

\* The packageManager field agrees with the lockfile, and npm may write it.
Contradicts == shape.field \notin {manager, Nowhere} \/ (manager = "npm" /\ shape.unlocked)

AssertAgreement ==
  /\ pc = "agreement"
  /\ \/ /\ ~Contradicts
        /\ pc' = "workspace"
        /\ UNCHANGED <<shape, manager, workspace, planned, lock, before, todo>>
     \/ Contradicts /\ Refused

Declaring(p) == {x \in Projects : shape.declared[p][x] # {}}

\* Two blocks of one manifest may not both name the package.
AmbiguousAt(p, x) == Cardinality(shape.declared[p][x]) > 1

\* resolveWorkspaceSelection: a directory or name of a workspace package, never the root.
Selected == {shape.asked} \cap shape.roots

CandidatesIfFirst ==
  IF shape.asked = Nowhere
  THEN IF Declaring(Primary) \cap Members # {}
         THEN {CHOOSE x \in Declaring(Primary) \cap Members : TRUE} ELSE Declaring(Primary)
  ELSE Selected \cap Declaring(Primary)

\* resolveDeclaringWorkspace: what was asked for, or the one project that declares the
\* package.
Candidates ==
  IF shape.asked = Nowhere
  THEN IF Cardinality(Declaring(Primary)) = 1 THEN Declaring(Primary) ELSE {}
  ELSE Selected \cap Declaring(Primary)

\* Without --workspace every project's manifest is looked at.
Looked == IF shape.asked = Nowhere THEN Projects ELSE Candidates

ResolveDeclaringWorkspace ==
  /\ pc = "workspace"
  /\ LET clear == Candidates # {} /\ \A x \in Looked : ~AmbiguousAt(Primary, x)
     IN \/ /\ clear
           /\ workspace' \in Candidates
           /\ pc' = "version"
           /\ UNCHANGED <<shape, manager, planned, lock, before, todo>>
        \/ ~clear /\ Refused

-----------------------------------------------------------------------------
\* installed.ts

OrElse(entry, fallback) == IF entry \in Versions THEN entry ELSE fallback

FromNpmIfHoisted(p) == lock[p][Root]

\* The copy under the workspace, then the hoisted one.
FromNpm(p) == OrElse(lock[p][workspace], lock[p][Root])

FromPnpm(p) == lock[p][workspace]

\* One resolution in the whole file, or no answer.
FromYarn(p) ==
  LET found == {lock[p][x] : x \in Projects} \cap Versions
  IN IF Cardinality(found) = 1 THEN Max(found) ELSE Missing

\* resolveInstalledVersion
Installed(p) ==
  CASE manager = "npm"  -> FromNpm(p)
    [] manager = "pnpm" -> FromPnpm(p)
    [] manager = "yarn" -> FromYarn(p)

\* resolveCurrentVersion: an exact specifier answers for itself.
CurrentVersion(p) == IF shape.pinned[p] # Nowhere THEN shape.pinned[p] ELSE Installed(p)

\* assertMovesForward, for the companions too; the version of each is known by then.
Ahead(p) == CurrentVersion(p) \in Versions /\ shape.targets[p] > CurrentVersion(p)

\* planChecks: from the manifest that declares the package.
Planned == shape.scripts[workspace]

ResolveVersions ==
  /\ pc = "version"
  /\ LET clear == \A p \in Targets : /\ Cardinality(shape.declared[p][workspace]) = 1
                                     /\ Ahead(p)
     IN \/ /\ clear
           /\ planned' = Planned
           /\ pc' = "ready"
           /\ UNCHANGED <<shape, manager, workspace, lock, before, todo>>
        \/ ~clear /\ Refused

-----------------------------------------------------------------------------
\* The move.

\* Where a command of the run is run: the project its selector names.  yarn selects by
\* name, so a workspace package without one is selected by nothing.
Scope == IF manager = "yarn" /\ workspace \in shape.nameless THEN Root ELSE workspace

Recorded(p) == {lock[p][x] : x \in Projects} \cap Versions
Snapshot == [p \in Packages |-> Recorded(p)]

StartMove ==
  /\ pc = "ready"
  /\ before' = Snapshot /\ todo' = Targets
  /\ pc' = "move"
  /\ UNCHANGED <<shape, manager, workspace, planned, lock>>

\* What project x is given of package p under a lockfile.
ResolvesIn(l, p, x) ==
  IF manager = "npm" /\ l[p][x] = Missing THEN l[p][Root] ELSE l[p][x]

\* update_dependency: the manager gives the project the exact version, and may move
\* one more entry of the lockfile while it is at it.
Written(p) ==
  {[lock EXCEPT ![p][x] = shape.targets[p]] : x \in {Scope} \cup IF manager = "npm" THEN {Root} ELSE {}}

AndOneMore(ls) ==
  ls \cup {[l EXCEPT ![q][x] = e] : l \in ls, q \in {Other}, x \in Projects, e \in Entries \ {Unread}}

SnapshotsIfEach == before' = IF todo = Targets THEN before ELSE Snapshot

Snapshots == UNCHANGED before

UpdateDependency ==
  /\ pc = "move" /\ todo # {}
  /\ \E p \in todo :
       /\ p = Primary \/ Primary \notin todo
       /\ lock' \in AndOneMore(Written(p))
       /\ ResolvesIn(lock', p, Scope) = shape.targets[p]
       /\ todo' = todo \ {p}
  /\ Snapshots
  /\ UNCHANGED <<shape, pc, manager, workspace, planned>>

\* The command fails, with or without having written; the run is blocked.
UpdateFails ==
  /\ pc = "move" /\ todo # {}
  /\ pc' = "blocked"
  /\ UNCHANGED <<shape, manager, workspace, planned, lock, before, todo>>

\* unexpectedLockfileMoves
Unexpected == {p \in Packages \ Targets : Recorded(p) # before[p]}

CompareLockfiles ==
  /\ pc = "move" /\ todo = {}
  /\ pc' = IF ~shape.transitive /\ Unexpected # {} THEN "blocked" ELSE "moved"
  /\ UNCHANGED <<shape, manager, workspace, planned, lock, before, todo>>

-----------------------------------------------------------------------------
Init ==
  /\ shape \in Shapes
  /\ pc = "manager"
  /\ manager = Nowhere /\ workspace = Nowhere /\ planned = {}
  /\ lock = shape.lock /\ before = [p \in Packages |-> {}] /\ todo = {}

Next ==
  \/ DetectPackageManager \/ AssertAgreement \/ ResolveDeclaringWorkspace \/ ResolveVersions
  \/ StartMove \/ UpdateDependency \/ UpdateFails \/ CompareLockfiles

Spec == Init /\ [][Next]_vars

-----------------------------------------------------------------------------
\* Properties.

TypeOK ==
  /\ shape \in Shapes
  /\ pc \in {"manager", "agreement", "workspace", "version", "ready", "move",
             "moved", "blocked", "refused"}
  /\ manager \in Managers \cup {Nowhere} /\ workspace \in Projects \cup {Nowhere}
  /\ planned \subseteq Purposes
  /\ lock \in [Packages -> [Projects -> Entries]]
  /\ before \in [Packages -> SUBSET Versions] /\ todo \subseteq Targets

Started == pc \in {"ready", "move", "moved"}

\* The lockfile is in step with the manifest and answers for the project that declares
\* the package.  An entry in a form that is not understood does not, and is passed over
\* for the next.
Answers(p) == ResolvesIn(shape.lock, p, workspace) \in
                Versions \cap (IF shape.pinned[p] = Nowhere THEN Versions ELSE {shape.pinned[p]})

\* No update ever gives the declaring project an older version of a target than it had,
\* wherever the lockfile keeps it (version.ts:8).
NeverMovesBack ==
  [][Started => \A p \in Targets : Answers(p) =>
       ResolvesIn(lock, p, workspace) <= ResolvesIn(lock', p, workspace)]_vars

\* Every target is updated, and every planned check exists, in the project the run's
\* commands are given to, and no other project was a candidate.
RunsWhereDeclared ==
  Started /\ ~(manager = "yarn" /\ workspace \in shape.nameless) =>
    /\ \A p \in Targets : shape.declared[p][Scope] # {}
    /\ planned \subseteq shape.scripts[Scope]
    /\ shape.asked = Nowhere => Declaring(Primary) = {Scope}

\* Between the last lockfile nobody had touched and the move that is recorded, no package
\* that was not named changed the versions it is installed at (implementer.ts:316).
OnlyNamedMove ==
  pc = "moved" /\ ~shape.transitive =>
    \A p \in Packages \ Targets :
      Recorded(p) = {shape.lock[p][x] : x \in Projects} \cap Versions
=============================================================================
