--------------------------- MODULE DetectionProofs ---------------------------
(***************************************************************************)
(* Theorems about Detection, for any workspaces, versions and lockfiles.   *)
(***************************************************************************)
EXTENDS Detection, FiniteSetTheorems, TLAPS

-----------------------------------------------------------------------------
\* The invariant, part by part.

\* The workspace is a project that was a candidate, once there is one.
Chosen ==
  pc \in {"version", "ready", "move", "moved", "blocked"} =>
    manager \in Managers /\ workspace \in Projects /\ workspace \in Candidates

\* The manager is one of the three from the first step on.
ManagerKnown ==
  pc \notin {"manager", "refused"} => manager \in Managers

\* Past detection every target is declared there, and ahead of what the lockfile as it was
\* found gives the project.
Cleared ==
  Started \/ pc = "blocked" =>
    /\ planned = shape.scripts[workspace]
    /\ \A p \in Targets : /\ shape.declared[p][workspace] # {}
                          /\ Answers(p) => ResolvesIn(shape.lock, p, workspace) < shape.targets[p]

\* The lockfile is the one found until the move, and in what the move has not come to.
Untouched ==
  /\ pc \notin {"move", "moved", "blocked"} => lock = shape.lock
  /\ pc = "move" => /\ \A p \in todo : lock[p] = shape.lock[p]
                    /\ \A p \in Packages :
                         before[p] = {shape.lock[p][x] : x \in Projects} \cap Versions

\* A target whose version was known has a known version throughout.
Known ==
  Started => \A p \in Targets : Answers(p) => ResolvesIn(lock, p, workspace) \in Versions

\* A move that is recorded has changed nothing it was not asked to.
Kept ==
  pc = "moved" /\ ~shape.transitive =>
    \A p \in Packages \ Targets : Recorded(p) = {shape.lock[p][x] : x \in Projects} \cap Versions

Inv == TypeOK /\ ManagerKnown /\ Chosen /\ Cleared /\ Untouched /\ Known /\ Kept

-----------------------------------------------------------------------------
\* What the shapes are.

LEMMA ShapesTyped ==
  ASSUME NEW s \in Shapes
  PROVE  /\ s.lockfiles \subseteq Managers /\ s.roots \subseteq Members
         /\ s.nameless \subseteq s.roots
         /\ s.declared \in [Packages -> [Projects -> SUBSET Blocks]]
         /\ s.scripts \in [Projects -> SUBSET Purposes]
         /\ s.lock \in [Packages -> [Projects -> Entries]]
         /\ s.pinned \in [Packages -> Versions \cup {Nowhere}]
         /\ s.asked \in Projects \cup {Nowhere}
         /\ s.targets \in [{Primary, Companion} -> Versions \cup {Nowhere}]
         /\ s.transitive \in BOOLEAN
BY DetectionAssumption

LEMMA TargetsTyped ==
  ASSUME shape \in Shapes
  PROVE  /\ Targets \subseteq Packages /\ Other \notin Targets
         /\ \A p \in Targets : shape.targets[p] \in Versions
BY ShapesTyped, DetectionAssumption DEF Targets, Packages

LEMMA VersionsAreNumbers ==
  /\ Versions \subseteq Int /\ Missing \notin Versions /\ Unread \notin Versions
  /\ Nowhere \notin Versions
BY DetectionAssumption DEF Versions

LEMMA ProjectsAreFinite == IsFiniteSet(Projects)
BY DetectionAssumption, FS_AddElement DEF Projects

\* One of a set of one.
LEMMA OnlyOne ==
  ASSUME NEW S, IsFiniteSet(S), Cardinality(S) = 1, NEW x \in S
  PROVE  S = {x}
BY FS_Singleton

LEMMA CandidatesAreProjects ==
  ASSUME shape \in Shapes
  PROVE  Candidates \subseteq Projects
BY ShapesTyped DEF Candidates, Declaring, Selected, Projects

\* The version detection works with is the one the project has, where the lockfile answers.
LEMMA InstalledIsResolved ==
  ASSUME TypeOK, manager \in Managers, workspace \in Projects, lock = shape.lock,
         NEW p \in Packages, Answers(p), Ahead(p)
  PROVE  ResolvesIn(shape.lock, p, workspace) < shape.targets[p]
<1> DEFINE was == ResolvesIn(shape.lock, p, workspace)
<1>1. was \in Versions /\ (shape.pinned[p] # Nowhere => was = shape.pinned[p])
  BY DEF Answers
<1>2. CASE shape.pinned[p] # Nowhere
  BY <1>1, <1>2, VersionsAreNumbers DEF Ahead, CurrentVersion
<1>3. CASE shape.pinned[p] = Nowhere /\ manager = "npm"
  BY <1>1, <1>3, VersionsAreNumbers DEF Ahead, CurrentVersion, Installed, FromNpm, OrElse, ResolvesIn
<1>4. CASE shape.pinned[p] = Nowhere /\ manager = "pnpm"
  BY <1>1, <1>4, VersionsAreNumbers DEF Ahead, CurrentVersion, Installed, FromPnpm, ResolvesIn
<1>5. CASE shape.pinned[p] = Nowhere /\ manager = "yarn"
  <2> DEFINE found == {lock[p][x] : x \in Projects} \cap Versions
  <2>1. FromYarn(p) \in Versions /\ shape.targets[p] > FromYarn(p)
    BY <1>5 DEF Ahead, CurrentVersion, Installed
  <2>2. was \in found
    BY <1>1, <1>5 DEF ResolvesIn
  <2>3. Cardinality(found) = 1
    BY <2>1, VersionsAreNumbers DEF FromYarn
  <2>4. IsFiniteSet(found)
    <3>1. IsFiniteSet(Versions)
      BY DetectionAssumption, FS_Interval DEF Versions
    <3> QED BY <3>1, FS_Subset
  <2>5. found = {was}
    BY <2>2, <2>3, <2>4, OnlyOne
  <2>6. Max(found) = was
    BY <1>1, <2>5, VersionsAreNumbers DEF Max
  <2> QED BY <1>1, <2>1, <2>3, <2>6, VersionsAreNumbers DEF FromYarn
<1> QED BY <1>2, <1>3, <1>4, <1>5 DEF Managers

\* An update leaves every other target's entries, and every project's but the one it is
\* run in and, for npm, the root's.
LEMMA UpdateKeeps ==
  ASSUME TypeOK, workspace \in Projects, NEW p \in Targets, lock' \in AndOneMore(Written(p))
  PROVE  /\ lock' \in [Packages -> [Projects -> Entries]]
         /\ \A q \in Targets \ {p} : lock'[q] = lock[q]
         /\ \A x \in Projects \ {Scope} : manager # "npm" => lock'[p][x] = lock[p][x]
<1>1. /\ p \in Packages /\ Other \in Packages /\ p # Other /\ Other \notin Targets
      /\ Targets \subseteq Packages /\ shape.targets[p] \in Entries
  BY TargetsTyped DEF TypeOK, Packages, Entries
<1>2. Scope \in Projects /\ Root \in Projects
  BY DEF Scope, Projects
<1>3. PICK l \in Written(p) :
        \/ lock' = l
        \/ \E x \in Projects, e \in Entries : lock' = [l EXCEPT ![Other][x] = e]
  BY DEF AndOneMore
<1>4. PICK x \in {Scope} \cup (IF manager = "npm" THEN {Root} ELSE {}) :
        l = [lock EXCEPT ![p][x] = shape.targets[p]]
  BY <1>3 DEF Written
<1>5. /\ l \in [Packages -> [Projects -> Entries]]
      /\ \A q \in Targets \ {p} : l[q] = lock[q]
      /\ \A y \in Projects \ {Scope} : manager # "npm" => l[p][y] = lock[p][y]
  BY <1>1, <1>2, <1>4 DEF TypeOK
<1>6. ASSUME NEW y \in Projects, NEW e \in Entries, lock' = [l EXCEPT ![Other][y] = e]
      PROVE  /\ lock' \in [Packages -> [Projects -> Entries]]
             /\ \A q \in Targets : lock'[q] = l[q]
  BY <1>1, <1>5, <1>6
<1> QED BY <1>1, <1>3, <1>5, <1>6

\* The project a target is moved for has its new version, or the one it had.
LEMMA UpdatedIsAhead ==
  ASSUME TypeOK, Cleared, Untouched, pc = "move", manager \in Managers, workspace \in Projects,
         NEW p \in todo, lock' \in AndOneMore(Written(p)),
         ResolvesIn(lock', p, Scope) = shape.targets[p], Answers(p)
  PROVE  /\ ResolvesIn(lock', p, workspace) \in Versions
         /\ ResolvesIn(lock, p, workspace) <= ResolvesIn(lock', p, workspace)
<1>1. p \in Targets /\ p \in Packages /\ shape.targets[p] \in Versions
  BY TargetsTyped DEF TypeOK
<1>2. lock[p] = shape.lock[p]
  BY DEF Untouched
<1>3. /\ ResolvesIn(lock, p, workspace) \in Versions
      /\ ResolvesIn(lock, p, workspace) < shape.targets[p]
  BY <1>1, <1>2 DEF Cleared, Started, Answers, ResolvesIn
<1>4. CASE Scope = workspace
  BY <1>1, <1>3, <1>4, VersionsAreNumbers
<1>5. CASE Scope # workspace
  <2>1. manager = "yarn"
    BY <1>5 DEF Scope
  <2>2. lock'[p][workspace] = lock[p][workspace]
    BY <1>1, <1>5, <2>1, UpdateKeeps
  <2>3. ResolvesIn(lock', p, workspace) = ResolvesIn(lock, p, workspace)
    BY <2>1, <2>2 DEF ResolvesIn
  <2>4. ResolvesIn(lock, p, workspace) \in Int
    BY <1>3, VersionsAreNumbers
  <2> QED BY <1>3, <2>3, <2>4
<1> QED BY <1>4, <1>5

-----------------------------------------------------------------------------
LEMMA InitInv == Init => Inv
<1> SUFFICES ASSUME Init PROVE Inv
  OBVIOUS
<1>1. lock \in [Packages -> [Projects -> Entries]]
  BY ShapesTyped DEF Init
<1>2. TypeOK
  BY <1>1 DEF Init, TypeOK
<1> QED BY <1>2 DEF Init, Inv, ManagerKnown, Chosen, Cleared, Untouched, Known, Kept, Started

LEMMA StepInv == Inv /\ [Next]_vars => Inv'
<1> SUFFICES ASSUME Inv, [Next]_vars PROVE Inv'
  OBVIOUS
<1>0. /\ TypeOK /\ shape \in Shapes
      /\ ManagerKnown /\ Chosen /\ Cleared /\ Untouched /\ Known /\ Kept
  BY DEF Inv, TypeOK
<1>1. CASE DetectPackageManager
  BY <1>0, <1>1, ShapesTyped DEF DetectPackageManager, Refused, Inv, TypeOK, ManagerKnown,
     Chosen, Cleared, Untouched, Known, Kept, Started, Targets
<1>2. CASE AssertAgreement
  BY <1>0, <1>2 DEF AssertAgreement, Refused, Inv, TypeOK, ManagerKnown, Chosen, Cleared,
     Untouched, Known, Kept, Started, Targets
<1>3. CASE ResolveDeclaringWorkspace
  <2>1. UNCHANGED <<shape, manager, planned, lock, before, todo>>
    BY <1>3 DEF ResolveDeclaringWorkspace, Refused
  <2>2. \/ pc' = "version" /\ workspace' \in Candidates
        \/ pc' = "refused" /\ workspace' = workspace
    BY <1>3 DEF ResolveDeclaringWorkspace, Refused
  <2>3. pc = "workspace" /\ manager \in Managers
    BY <1>0, <1>3 DEF ResolveDeclaringWorkspace, ManagerKnown
  <2>4. Candidates' = Candidates /\ Candidates \subseteq Projects /\ Targets' = Targets
    BY <1>0, <2>1, CandidatesAreProjects DEF Candidates, Declaring, Selected, Targets
  <2> QED BY <1>0, <2>1, <2>2, <2>3, <2>4 DEF Inv, TypeOK, Chosen, Cleared, Untouched, Known,
          Kept, Started, ManagerKnown
<1>4. CASE ResolveVersions
  <2>1. UNCHANGED <<shape, manager, workspace, lock, before, todo>> /\ pc = "version"
    BY <1>4 DEF ResolveVersions, Refused
  <2>2. manager \in Managers /\ workspace \in Projects /\ lock = shape.lock
    BY <1>0, <2>1 DEF Chosen, Untouched
  <2>3. Candidates' = Candidates /\ Targets' = Targets
    BY <2>1 DEF Candidates, Declaring, Selected, Targets
  <2>4. CASE pc' = "refused" /\ planned' = planned
    BY <1>0, <2>1, <2>3, <2>4 DEF Inv, TypeOK, Chosen, Cleared, Untouched, Known, Kept,
       Started, ManagerKnown
  <2>5. CASE /\ pc' = "ready" /\ planned' = Planned
             /\ \A p \in Targets : Cardinality(shape.declared[p][workspace]) = 1 /\ Ahead(p)
    <3>1. planned' \subseteq Purposes /\ planned' = shape.scripts[workspace]
      BY <1>0, <2>2, <2>5, ShapesTyped DEF Planned
    <3>2. ASSUME NEW p \in Targets
          PROVE  /\ shape.declared[p][workspace] # {}
                 /\ Answers(p) => ResolvesIn(shape.lock, p, workspace) < shape.targets[p]
      <4>1. p \in Packages
        BY <1>0, TargetsTyped
      <4>2. shape.declared[p][workspace] # {}
        <5>1. Cardinality(shape.declared[p][workspace]) = 1
          BY <2>5
        <5> QED BY <5>1, FS_EmptySet
      <4>3. Answers(p) => ResolvesIn(shape.lock, p, workspace) < shape.targets[p]
        BY <1>0, <2>2, <2>5, <4>1, InstalledIsResolved
      <4> QED BY <4>2, <4>3
    <3>3. \A p \in Targets : Answers(p) => ResolvesIn(lock, p, workspace) \in Versions
      BY <2>2 DEF Answers
    <3>4. Cleared'
      BY <2>1, <2>3, <3>1, <3>2 DEF Cleared, Answers, ResolvesIn
    <3>5. Known'
      BY <2>1, <2>3, <3>3 DEF Known, Answers, ResolvesIn
    <3> QED BY <1>0, <2>1, <2>3, <2>5, <3>1, <3>4, <3>5 DEF Inv, TypeOK, Chosen, Untouched,
            Kept, ManagerKnown
  <2> QED BY <1>4, <2>4, <2>5 DEF ResolveVersions, Refused
<1>5. CASE StartMove
  <2>1. /\ UNCHANGED <<shape, manager, workspace, planned, lock>> /\ pc = "ready" /\ pc' = "move"
        /\ before' = Snapshot /\ todo' = Targets /\ lock = shape.lock
    BY <1>0, <1>5 DEF StartMove, Untouched
  <2>2. Candidates' = Candidates /\ Targets' = Targets
    BY <2>1 DEF Candidates, Declaring, Selected, Targets
  <2>3. \A p \in Packages : /\ before'[p] = {shape.lock[p][x] : x \in Projects} \cap Versions
                            /\ before'[p] \in SUBSET Versions
    BY <2>1 DEF Snapshot, Recorded
  <2>4. before' \in [Packages -> SUBSET Versions]
    BY <2>1, <2>3 DEF Snapshot
  <2>5. Cleared' /\ Known'
    BY <1>0, <2>1, <2>2 DEF Cleared, Known, Answers, ResolvesIn, Started
  <2>6. Untouched'
    BY <2>1, <2>2, <2>3, TargetsTyped, <1>0 DEF Untouched
  <2> QED BY <1>0, <2>1, <2>2, <2>4, <2>5, <2>6 DEF Inv, TypeOK, Chosen, Kept, ManagerKnown
<1>6. CASE UpdateDependency
  <2>1. PICK p \in todo : /\ lock' \in AndOneMore(Written(p))
                          /\ ResolvesIn(lock', p, Scope) = shape.targets[p]
                          /\ todo' = todo \ {p}
    BY <1>6 DEF UpdateDependency
  <2>2. UNCHANGED <<shape, pc, manager, workspace, planned, before>> /\ pc = "move"
    BY <1>6 DEF UpdateDependency, Snapshots
  <2>3. Candidates' = Candidates /\ Targets' = Targets
    BY <2>2 DEF Candidates, Declaring, Selected, Targets
  <2>4. manager \in Managers /\ workspace \in Projects /\ p \in Targets /\ todo \subseteq Targets
    BY <1>0, <2>2 DEF Chosen, TypeOK
  <2>5. /\ lock' \in [Packages -> [Projects -> Entries]]
        /\ \A q \in Targets \ {p} : lock'[q] = lock[q]
    BY <1>0, <2>1, <2>4, UpdateKeeps
  <2>6. Cleared'
    BY <1>0, <2>2, <2>3 DEF Cleared, Answers, ResolvesIn, Started
  <2>7. Untouched'
    BY <1>0, <2>1, <2>2, <2>4, <2>5 DEF Untouched
  <2>8. Known'
    <3>1. ASSUME NEW q \in Targets \ {p} PROVE ResolvesIn(lock', q, workspace) = ResolvesIn(lock, q, workspace)
      BY <2>5 DEF ResolvesIn
    <3>2. Answers(p) => ResolvesIn(lock', p, workspace) \in Versions
      BY <1>0, <2>1, <2>2, <2>4, UpdatedIsAhead
    <3>3. \A q \in Targets : Answers(q) => ResolvesIn(lock', q, workspace) \in Versions
      BY <1>0, <2>2, <3>1, <3>2 DEF Known, Started
    <3> QED BY <2>2, <2>3, <3>3 DEF Known, Answers, ResolvesIn
  <2> QED BY <1>0, <2>1, <2>2, <2>3, <2>5, <2>6, <2>7, <2>8 DEF Inv, TypeOK, Chosen, Kept, ManagerKnown
<1>7. CASE UpdateFails \/ CompareLockfiles
  <2>1. /\ UNCHANGED <<shape, manager, workspace, planned, lock, before, todo>> /\ pc = "move"
        /\ \/ pc' = "blocked"
           \/ pc' = "moved" /\ (shape.transitive \/ Unexpected = {})
    BY <1>7 DEF UpdateFails, CompareLockfiles
  <2>2. Candidates' = Candidates /\ Targets' = Targets
    BY <2>1 DEF Candidates, Declaring, Selected, Targets
  <2>3. Cleared' /\ Known'
    BY <1>0, <2>1, <2>2 DEF Cleared, Known, Answers, ResolvesIn, Started
  <2>4. Kept'
    BY <1>0, <2>1, <2>2 DEF Kept, Untouched, Unexpected, Recorded
  <2> QED BY <1>0, <2>1, <2>2, <2>3, <2>4 DEF Inv, TypeOK, Chosen, Untouched, ManagerKnown
<1>8. CASE UNCHANGED vars
  <2>1. Candidates' = Candidates /\ Targets' = Targets
    BY <1>8 DEF vars, Candidates, Declaring, Selected, Targets
  <2> QED BY <1>0, <1>8, <2>1 DEF vars, Inv, TypeOK, Chosen, Cleared, Untouched, Known, Kept,
          Answers, ResolvesIn, Recorded, Started, ManagerKnown
<1> QED BY <1>1, <1>2, <1>3, <1>4, <1>5, <1>6, <1>7, <1>8 DEF Next

-----------------------------------------------------------------------------
\* The theorems.

\* Every variable keeps to its type, and the invariant with it, for any repository a run
\* may start with (detect.ts, installed.ts, implementer.ts).
THEOREM InvariantHolds == Spec => []Inv
BY InitInv, StepInv, PTL DEF Spec

\* Every target is updated, and every check run, in the project that declares it, and no
\* other project was a candidate (detect.ts, resolveDeclaringWorkspace and planChecks).
THEOREM DeclaredHolds == Spec => []RunsWhereDeclared
<1>1. Inv => RunsWhereDeclared
  <2> SUFFICES ASSUME Inv, Started, ~(manager = "yarn" /\ workspace \in shape.nameless)
               PROVE  /\ \A p \in Targets : shape.declared[p][Scope] # {}
                      /\ planned \subseteq shape.scripts[Scope]
                      /\ shape.asked = Nowhere => Declaring(Primary) = {Scope}
    BY DEF RunsWhereDeclared
  <2>1. Scope = workspace /\ workspace \in Candidates
    BY DEF Scope, Inv, Chosen, Started
  <2>2. /\ \A p \in Targets : shape.declared[p][workspace] # {}
        /\ planned = shape.scripts[workspace]
    BY DEF Inv, Cleared
  <2>3. ASSUME shape.asked = Nowhere PROVE Declaring(Primary) = {workspace}
    <3>1. Cardinality(Declaring(Primary)) = 1 /\ workspace \in Declaring(Primary)
      BY <2>1, <2>3 DEF Candidates
    <3>2. IsFiniteSet(Declaring(Primary))
      BY ProjectsAreFinite, FS_Subset DEF Declaring
    <3> QED BY <3>1, <3>2, OnlyOne
  <2> QED BY <2>1, <2>2, <2>3
<1> QED BY <1>1, InvariantHolds, PTL

\* A move that is recorded without --allow-transitive changed the installed versions of
\* nothing but its targets (implementer.ts, unexpectedLockfileMoves).
THEOREM OnlyNamedHolds == Spec => []OnlyNamedMove
<1>1. Inv => OnlyNamedMove
  BY DEF Inv, Kept, OnlyNamedMove
<1> QED BY <1>1, InvariantHolds, PTL

\* No step of a run gives the project an older version of a target, for any number of
\* projects and any lockfile, in the manager's own way of reading it (installed.ts;
\* run.ts, assertMovesForward).
THEOREM ForwardHolds == Spec => NeverMovesBack
<1>1. Inv /\ [Next]_vars =>
        [Started => \A p \in Targets : Answers(p) =>
           ResolvesIn(lock, p, workspace) <= ResolvesIn(lock', p, workspace)]_vars
  <2> SUFFICES ASSUME Inv, [Next]_vars, Started, NEW p \in Targets, Answers(p)
               PROVE  ResolvesIn(lock, p, workspace) <= ResolvesIn(lock', p, workspace)
    OBVIOUS
  <2>1. ResolvesIn(lock, p, workspace) \in Int
    BY VersionsAreNumbers DEF Inv, Known
  <2>2. CASE UNCHANGED lock
    BY <2>1, <2>2
  <2>3. CASE UpdateDependency
    <3>1. PICK q \in todo : /\ lock' \in AndOneMore(Written(q))
                            /\ ResolvesIn(lock', q, Scope) = shape.targets[q]
      BY <2>3 DEF UpdateDependency
    <3>2. /\ TypeOK /\ Cleared /\ Untouched /\ pc = "move" /\ q \in Targets
          /\ manager \in Managers /\ workspace \in Projects
      BY <2>3, <3>1 DEF Inv, TypeOK, Chosen, UpdateDependency
    <3>3. CASE p = q
      BY <3>1, <3>2, <3>3, UpdatedIsAhead
    <3>4. CASE p # q
      <4>1. lock'[p] = lock[p]
        BY <3>1, <3>2, <3>4, UpdateKeeps
      <4>2. ResolvesIn(lock', p, workspace) = ResolvesIn(lock, p, workspace)
        BY <4>1 DEF ResolvesIn
      <4> QED BY <2>1, <4>2
    <3> QED BY <3>3, <3>4
  <2> QED BY <2>2, <2>3 DEF Next, DetectPackageManager, AssertAgreement, Refused,
          ResolveDeclaringWorkspace, ResolveVersions, StartMove, UpdateFails,
          CompareLockfiles, vars
<1> QED BY <1>1, InvariantHolds, PTL DEF Spec, NeverMovesBack
=============================================================================
