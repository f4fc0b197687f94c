------------------------- MODULE RunLifecycleProofs -------------------------
(***************************************************************************)
(* Theorems about RunLifecycle, for any invocations, names, commits and    *)
(* command lines.  A step of one invocation leaves the others alone; what  *)
(* they share is the worktrees, the records and the index of assessments,  *)
(* and an invocation that has ended never changes again.                   *)
(***************************************************************************)
EXTENDS RunLifecycle, TLAPS

-----------------------------------------------------------------------------
\* The invariants, part by part.

\* Before there is a start commit, and while there is a worktree.
Fresh == {"waiting", "resolve"} \cup Validation
HasWorktree == Working \cup {"checkout", "release"}

\* What an invocation has and holds follows from where it is.
Orderly(r) ==
  /\ run[r].at \in Fresh => run[r].commit = None
  /\ run[r].at \notin Fresh \cup Over => run[r].commit # None
  /\ run[r].mode = "apply" /\ run[r].at \notin {"waiting", "load"} \cup Over
       => run[r].assessment # None
  /\ run[r].at \in HasWorktree => r \in worktrees /\ r \in registered
  /\ run[r].exit = "classified" => run[r].at = "ended"
  /\ run[r].at = "save" \/ run[r].exit = "classified" => r \notin worktrees

Order == TypeOK /\ \A r \in Runs : Orderly(r)

\* An assessment says of the run that made it what that run has come to for good.
AsAssessed(a) ==
  run[a.by].at = "ended" /\ run[a.by].commit = a.commit /\ run[a.by].clean = a.clean

IndexIsTrue == \A i \in Ids : stored[i] # None => AsAssessed(stored[i])

Continues(r) ==
  /\ run[r].assessment # None => run[r].assessment.clean /\ AsAssessed(run[r].assessment)
  /\ run[r].mode = "apply" /\ run[r].commit # None
       => run[r].assessment # None /\ run[r].commit = run[r].assessment.commit

Continuity == IndexIsTrue /\ \A r \in Runs : Continues(r)

\* The record in an artifacts directory, as far as a run that writes there has got with it;
\* only runs that were started with the directory are in it.
Written(r) ==
  LET w == record[run[r].dir]
  IN  r \in w.audit /\ w.result # None /\ w.patch # None

Recorded(r) ==
  /\ run[r].at \in {"graph", "comment", "result", "details"} \cup Publication
       => r \in record[run[r].dir].audit
  /\ run[r].at = "details" => record[run[r].dir].result # None
  /\ \/ run[r].at = "save" \/ run[r].exit = "classified"
     \/ run[r].at = "release" /\ run[r].exit = None
     => Written(r)
  /\ run[r].exit = "classified" => run[r].at = "ended"

IndexIsRecorded ==
  \A i \in Ids : stored[i] # None =>
    run[stored[i].by].id = i /\ run[stored[i].by].at = "ended" /\ Written(stored[i].by)

OwnRecord ==
  \A d \in Directories :
    LET started == {r \in Runs : ~At(r, "waiting") /\ run[r].dir = d}
    IN  /\ record[d].audit \subseteq started
        /\ {record[d].result, record[d].patch} \subseteq started \cup {None}

EachRecorded == \A r \in Runs : Recorded(r)

Recording == OwnRecord /\ IndexIsRecorded /\ EachRecorded

-----------------------------------------------------------------------------
\* What a step can touch at all.

LEMMA NoneIsApart == None \notin Directories \cup Runs \cup Commits \cup {"classified", "failed"}
BY LifecycleAssumption DEF Directories, Ids

LEMMA OneMoves ==
  ASSUME TypeOK, NEW r \in Runs, Start(r) \/ Step(r) \/ Die(r)
  PROVE  /\ \A q \in Runs \ {r} : run'[q] = run[q]
         /\ run[r].at \notin Over /\ run'[r].at # "waiting"
         /\ run[r].at # "waiting" =>
              run'[r].id = run[r].id /\ run'[r].dir = run[r].dir /\ run'[r].mode = run[r].mode
         /\ ~LoadAssessment(r) => run'[r].assessment = run[r].assessment
         /\ ~ResolveStartCommit(r) => run'[r].commit = run[r].commit
<1> USE DEF TypeOK, At
<1>1. CASE Start(r)
  <2>1. PICK q \in Requests(r) : run' = [run EXCEPT ![r] =
         [@ EXCEPT !.mode = q.mode, !.id = q.id, !.target = q.target,
                   !.dir = IF q.artifacts = None THEN q.id ELSE q.artifacts,
                   !.draft = q.draft, !.comment = q.comment,
                   !.at = IF q.mode = "apply" THEN "load" ELSE "resolve"]]
    BY <1>1 DEF Start
  <2>2. run[r] \in Invocations /\ run[r].at = "waiting"
    BY <1>1 DEF Start
  <2> QED BY <2>1, <2>2 DEF Invocations, Over
<1>2. CASE LoadAssessment(r)
  BY <1>2 DEF LoadAssessment, Loadable, Exits, Over, Invocations, Working, Publication
<1>3. CASE ValidateHead(r)
  BY <1>3 DEF ValidateHead, Goes, Exits, Over, Invocations, Working, Publication
<1>4. CASE ValidateTree(r)
  BY <1>4 DEF ValidateTree, Goes, Exits, Over, Invocations, Working, Publication
<1>5. CASE ResolveStartCommit(r)
  BY <1>5 DEF ResolveStartCommit, Over, Invocations, Working, Publication
<1>6. CASE ReadStatus(r)
  BY <1>6 DEF ReadStatus, Over, Invocations, Working, Publication
<1>7. CASE IsolationRefused(r)
  BY <1>7 DEF IsolationRefused, Exits, Over, Invocations, Working, Publication
<1>8. CASE AddWorktree(r)
  BY <1>8 DEF AddWorktree, Goes, Exits, Over, Invocations, Working, Publication
<1>9. CASE CheckOut(r)
  BY <1>9 DEF CheckOut, Goes, Exits, Over, Invocations, Working, Publication
<1>10. CASE Detect(r)
  BY <1>10 DEF Detect, Goes, Fails, Over, Invocations, Working, Publication
<1>11. CASE RunGraph(r)
  BY <1>11 DEF RunGraph, Goes, Fails, Classified, Over, Invocations, Working, Publication
<1>12. CASE CreateBranch(r)
  BY <1>12 DEF CreateBranch, Goes, Classified, Over, Invocations, Working, Publication
<1>13. CASE PushBranch(r)
  BY <1>13 DEF PushBranch, Push, Goes, Classified, Over, Invocations, Working, Publication
<1>14. CASE OpenDraft(r)
  BY <1>14 DEF OpenDraft, Classified, Over, Invocations, Working, Publication
<1>15. CASE PostReviewComment(r)
  BY <1>15 DEF PostReviewComment, Goes, Fails, Over, Invocations, Working, Publication
<1>16. CASE WriteResult(r)
  BY <1>16 DEF WriteResult, Goes, Fails, Over, Invocations, Working, Publication
<1>17. CASE WriteDetails(r)
  BY <1>17 DEF WriteDetails, Goes, Fails, Over, Invocations, Working, Publication
<1>18. CASE Release(r)
  BY <1>18 DEF Release, Leaves, Goes, Exits, Over, Invocations, Working, Publication
<1>19. CASE SaveAssessment(r)
  BY <1>19 DEF SaveAssessment, Exits, Over, Invocations, Working, Publication
<1>20. CASE Die(r)
  BY <1>20 DEF Die, Goes, Over, Invocations, Working, Publication
<1> QED BY <1>1, <1>2, <1>3, <1>4, <1>5, <1>6, <1>7, <1>8, <1>9, <1>10, <1>11, <1>12, <1>13, <1>14,
   <1>15, <1>16, <1>17, <1>18, <1>19, <1>20 DEF Step

LEMMA EndedStays ==
  ASSUME TypeOK, [Next]_vars, NEW r \in Runs, run[r].at = "ended"
  PROVE  run'[r] = run[r]
BY OneMoves DEF Next, vars, Over, UserChecksOut, UserEdits, UserDeletesBranch

LEMMA StoredChanges ==
  ASSUME [Next]_vars
  PROVE  UNCHANGED stored \/ \E r \in Runs : SaveAssessment(r)
BY DEF Next, Step, vars, shared, checkout, Start, LoadAssessment, ValidateHead,
   ValidateTree, ResolveStartCommit, ReadStatus, IsolationRefused, AddWorktree, CheckOut,
   Detect, RunGraph, CreateBranch, PushBranch, OpenDraft, PostReviewComment, WriteResult,
   WriteDetails, Release, Die, UserChecksOut, UserEdits, UserDeletesBranch

LEMMA RecordChanges ==
  ASSUME [Next]_vars
  PROVE  \/ UNCHANGED record
         \/ \E r \in Runs :
              \/ At(r, "detect") /\ record' = [record EXCEPT ![run[r].dir].audit = @ \cup {r}]
              \/ At(r, "result") /\ record' = [record EXCEPT ![run[r].dir].result = r]
              \/ At(r, "details") /\ record' = [record EXCEPT ![run[r].dir].patch = r]
BY DEF Next, Step, vars, shared, checkout, Start, LoadAssessment, ValidateHead,
   ValidateTree, ResolveStartCommit, ReadStatus, IsolationRefused, AddWorktree, CheckOut,
   Detect, RunGraph, CreateBranch, PushBranch, OpenDraft, PostReviewComment, WriteResult,
   WriteDetails, Release, SaveAssessment, Die, UserChecksOut, UserEdits, UserDeletesBranch

-----------------------------------------------------------------------------
\* Types, and the order of the places.

LEMMA InitOrder == Init => Order
<1> SUFFICES ASSUME Init PROVE Order
  OBVIOUS
<1>1. run \in [Runs -> Invocations]
  BY DEF Init, Invocations, Ids, Directories, Modes, Codes, Places
<1>2. record \in [Directories -> Records]
  BY DEF Init, Records
<1>3. TypeOK
  BY <1>1, <1>2 DEF Init, TypeOK
<1>4. \A r \in Runs : Orderly(r)
  BY NoneIsApart DEF Init, Orderly, Fresh, HasWorktree, Validation, Working, Publication, Over
<1> QED BY <1>3, <1>4 DEF Order

LEMMA ClassifiedTyped ==
  ASSUME TypeOK, NEW r \in Runs, Classified(r)
  PROVE  run' \in [Runs -> Invocations]
<1> DEFINE next == IF run[r].comment THEN "comment" ELSE "result"
<1>1. next \in Places
  BY DEF Places, Working
<1>2. run[r] \in Invocations
  BY DEF TypeOK
<1>3. [run[r] EXCEPT !.classified = TRUE, !.at = next] \in Invocations
  BY <1>1, <1>2 DEF Invocations
<1> QED BY <1>3 DEF Classified, TypeOK

LEMMA RecordTyped ==
  ASSUME TypeOK, NEW r \in Runs,
         \/ record' = [record EXCEPT ![run[r].dir].audit = @ \cup {r}]
         \/ record' = [record EXCEPT ![run[r].dir].result = r]
         \/ record' = [record EXCEPT ![run[r].dir].patch = r]
  PROVE  record' \in [Directories -> Records]
<1> DEFINE w == record[run[r].dir]
<1>1. run[r].dir \in Directories /\ w \in Records
  BY DEF TypeOK, Invocations
<1>2. /\ [w EXCEPT !.audit = @ \cup {r}] \in Records
      /\ [w EXCEPT !.result = r] \in Records
      /\ [w EXCEPT !.patch = r] \in Records
  BY <1>1 DEF Records
<1> QED BY <1>1, <1>2 DEF TypeOK

\* Going on, failing and exiting leave an invocation of its type.
LEMMA GoesTyped ==
  ASSUME TypeOK, NEW r \in Runs, NEW place \in Places, Goes(r, place)
  PROVE  run' \in [Runs -> Invocations]
<1>1. run[r] \in Invocations
  BY DEF TypeOK
<1>2. [run[r] EXCEPT !.at = place] \in Invocations
  BY <1>1 DEF Invocations
<1> QED BY <1>1, <1>2 DEF Goes, TypeOK

LEMMA EndsTyped ==
  ASSUME TypeOK, NEW r \in Runs, NEW place \in Places, NEW code \in Codes,
         run' = [run EXCEPT ![r].at = place, ![r].exit = code]
  PROVE  run' \in [Runs -> Invocations]
<1>1. run[r] \in Invocations
  BY DEF TypeOK
<1>2. [run[r] EXCEPT !.at = place, !.exit = code] \in Invocations
  BY <1>1 DEF Invocations
<1> QED BY <1>1, <1>2 DEF TypeOK

LEMMA PlacesNamed ==
  /\ {"waiting", "load", "head", "tree", "resolve", "status", "add", "checkout", "detect",
      "graph", "branch", "push", "open", "comment", "result", "details", "release", "save",
      "ended", "dead"} \subseteq Places
  /\ {"classified", "failed"} \subseteq Codes
BY DEF Places, Validation, SetUp, Working, Publication, Over, Codes

LEMMA StepTyped == Order /\ [Next]_vars => TypeOK'
<1> SUFFICES ASSUME TypeOK, \A r \in Runs : Orderly(r), [Next]_vars PROVE TypeOK'
  BY DEF Order
<1> USE DEF TypeOK, checkout, shared
<1>1. ASSUME NEW r \in Runs, Start(r) PROVE TypeOK'
  <2> DEFINE asked == [mode : Modes, id : Ids, target : Ids \cup {None},
                       artifacts : Directories \cup {None},
                       draft : BOOLEAN, comment : BOOLEAN]
             dir(q) == IF q.artifacts = None THEN q.id ELSE q.artifacts
  <2>1. PICK q \in Requests(r) : run' = [run EXCEPT ![r] =
         [@ EXCEPT !.mode = q.mode, !.id = q.id, !.target = q.target,
                   !.dir = IF q.artifacts = None THEN q.id ELSE q.artifacts,
                   !.draft = q.draft, !.comment = q.comment,
                   !.at = IF q.mode = "apply" THEN "load" ELSE "resolve"]]
    BY <1>1 DEF Start
  <2>2. Asked[r] \in SUBSET asked
    BY LifecycleAssumption
  <2>3. q \in asked
    BY <2>2 DEF Requests
  <2>4. /\ run[r] \in Invocations /\ dir(q) \in Directories
        /\ (IF q.mode = "apply" THEN "load" ELSE "resolve") \in Places
    BY <2>3, PlacesNamed DEF Directories
  <2> DEFINE d == dir(q)
             place == IF q.mode = "apply" THEN "load" ELSE "resolve"
  <2>5. [run[r] EXCEPT !.mode = q.mode, !.id = q.id, !.target = q.target, !.dir = d,
                       !.draft = q.draft, !.comment = q.comment,
                       !.at = place] \in Invocations
    <3>1. d \in Directories /\ place \in Places
      BY <2>4
    <3> HIDE DEF d, place
    <3> QED BY <2>3, <2>4, <3>1 DEF Invocations
  <2> QED BY <1>1, <2>1, <2>5 DEF Start
<1>2. ASSUME NEW r \in Runs, LoadAssessment(r) \/ ValidateHead(r) \/ ValidateTree(r)
      PROVE  TypeOK'
  BY <1>2 DEF LoadAssessment, ValidateHead, ValidateTree, Loadable, Goes, Exits, Invocations,
     Places, Over, Validation, SetUp, Codes, Ids
<1>3. ASSUME NEW r \in Runs, ResolveStartCommit(r) PROVE TypeOK'
  <2> DEFINE start == IF run[r].mode = "apply" THEN run[r].assessment.commit ELSE head
  <2>1. run[r] \in Invocations
    OBVIOUS
  <2>2. run[r].mode = "apply" => run[r].assessment \in Assessments
    BY <1>3, <2>1 DEF ResolveStartCommit, Orderly, Invocations, At, Over
  <2>3. start \in Commits
    BY <2>2 DEF Assessments
  <2>4. run' = [run EXCEPT ![r].at = "status", ![r].commit = start]
    BY <1>3 DEF ResolveStartCommit
  <2> HIDE DEF start
  <2>5. [run[r] EXCEPT !.at = "status", !.commit = start] \in Invocations
    BY <2>1, <2>3 DEF Invocations, Places, SetUp
  <2> QED BY <1>3, <2>4, <2>5 DEF ResolveStartCommit
<1>4. ASSUME NEW r \in Runs,
             ReadStatus(r) \/ IsolationRefused(r) \/ AddWorktree(r) \/ CheckOut(r)
      PROVE  TypeOK'
  <2>1. CASE ReadStatus(r)
    <3> DEFINE clean == IF run[r].mode = "assess" THEN ~dirty ELSE run[r].clean
    <3>1. run[r] \in Invocations /\ clean \in BOOLEAN /\ "add" \in Places
      BY PlacesNamed DEF Invocations
    <3>2. run' = [run EXCEPT ![r].at = "add", ![r].clean = clean]
      BY <2>1 DEF ReadStatus
    <3> HIDE DEF clean
    <3>3. [run[r] EXCEPT !.at = "add", !.clean = clean] \in Invocations
      BY <3>1 DEF Invocations
    <3> QED BY <2>1, <3>2, <3>3 DEF ReadStatus
  <2>2. CASE IsolationRefused(r) \/ AddWorktree(r) \/ CheckOut(r)
    <3>1. run' \in [Runs -> Invocations]
      BY <2>2, GoesTyped, EndsTyped, PlacesNamed
         DEF IsolationRefused, AddWorktree, CheckOut, Exits
    <3> QED BY <2>2, <3>1 DEF IsolationRefused, AddWorktree, CheckOut
  <2> QED BY <1>4, <2>1, <2>2
<1>5. ASSUME NEW r \in Runs, Detect(r) PROVE TypeOK'
  <2>1. run' \in [Runs -> Invocations]
    BY <1>5, GoesTyped, EndsTyped, PlacesNamed DEF Detect, Fails
  <2> QED BY <1>5, <2>1, RecordTyped DEF Detect
<1>6. ASSUME NEW r \in Runs, RunGraph(r) PROVE TypeOK'
  BY <1>6, ClassifiedTyped, GoesTyped, EndsTyped, PlacesNamed DEF RunGraph, Fails
<1>7. ASSUME NEW r \in Runs, CreateBranch(r) PROVE TypeOK'
  <2>1. run' \in [Runs -> Invocations]
    BY <1>7, ClassifiedTyped, GoesTyped, PlacesNamed DEF CreateBranch
  <2>2. branch' \in [Ids -> Runs \cup {None}] /\ work' \in [Runs -> {"none", "committed", "pushed"}]
    BY <1>7 DEF CreateBranch
  <2>3. UNCHANGED <<head, dirty, worktrees, registered, remote, record, stored>>
    BY <1>7 DEF CreateBranch
  <2> QED BY <2>1, <2>2, <2>3
<1>8. ASSUME NEW r \in Runs, PushBranch(r) PROVE TypeOK'
  <2>1. run' \in [Runs -> Invocations]
    BY <1>8, ClassifiedTyped, GoesTyped, PlacesNamed DEF PushBranch
  <2>2. remote' \in [Ids -> Runs \cup {None}] /\ work' \in [Runs -> {"none", "committed", "pushed"}]
    BY <1>8 DEF PushBranch, Push
  <2>3. UNCHANGED <<head, dirty, worktrees, registered, branch, record, stored>>
    BY <1>8 DEF PushBranch
  <2> QED BY <2>1, <2>2, <2>3
<1>9. ASSUME NEW r \in Runs, OpenDraft(r) PROVE TypeOK'
  BY <1>9, ClassifiedTyped DEF OpenDraft
<1>10. ASSUME NEW r \in Runs, PostReviewComment(r) PROVE TypeOK'
  BY <1>10, GoesTyped, EndsTyped, PlacesNamed DEF PostReviewComment, Fails
<1>11. ASSUME NEW r \in Runs, WriteResult(r) \/ WriteDetails(r) PROVE TypeOK'
  <2>1. run' \in [Runs -> Invocations]
    BY <1>11, GoesTyped, EndsTyped, PlacesNamed DEF WriteResult, WriteDetails, Fails
  <2> QED BY <1>11, <2>1, RecordTyped DEF WriteResult, WriteDetails
<1>12. ASSUME NEW r \in Runs, Release(r) \/ Die(r) PROVE TypeOK'
  <2>1. run' \in [Runs -> Invocations]
    BY <1>12, GoesTyped, EndsTyped, PlacesNamed DEF Release, Die, Leaves, Exits
  <2> QED BY <1>12, <2>1 DEF Release, Die
<1>13. ASSUME NEW r \in Runs, SaveAssessment(r) PROVE TypeOK'
  <2>1. run[r].commit \in Commits
    BY <1>13 DEF SaveAssessment, Orderly, Invocations, At, Fresh, Over, Validation
  <2>2. Content \in Contents
    BY LifecycleAssumption DEF Content
  <2> QED BY <1>13, <2>1, <2>2 DEF SaveAssessment, Exits, Invocations, Assessments, Places,
      Over, Codes
<1>14. ASSUME UserChecksOut \/ UserEdits \/ \E i \in Ids : UserDeletesBranch(i) PROVE TypeOK'
  BY <1>14 DEF UserChecksOut, UserEdits, UserDeletesBranch
<1>15. ASSUME UNCHANGED vars PROVE TypeOK'
  BY <1>15 DEF vars
<1> QED BY <1>1, <1>2, <1>3, <1>4, <1>5, <1>6, <1>7, <1>8, <1>9, <1>10, <1>11, <1>12, <1>13,
        <1>14, <1>15 DEF Next, Step


\* No step takes another invocation's worktree away, or gives it one.
LEMMA WorktreesStay ==
  ASSUME NEW r \in Runs, NEW q \in Runs \ {r}, Start(r) \/ Step(r) \/ Die(r)
  PROVE  /\ q \in worktrees' <=> q \in worktrees
         /\ q \in worktrees /\ q \in registered => q \in registered'
<1>1. CASE AddWorktree(r) \/ Release(r)
  BY <1>1 DEF AddWorktree, Release
<1>2. CASE UNCHANGED <<worktrees, registered>>
  BY <1>2
<1> QED
  BY <1>1, <1>2 DEF Step, shared, checkout, Start, LoadAssessment, ValidateHead,
     ValidateTree, ResolveStartCommit, ReadStatus, IsolationRefused, CheckOut, Detect,
     RunGraph, CreateBranch, PushBranch, OpenDraft, PostReviewComment, WriteResult,
     WriteDetails, SaveAssessment, Die

LEMMA StepOrder == Order /\ [Next]_vars => Order'
<1> SUFFICES ASSUME TypeOK, \A r \in Runs : Orderly(r), [Next]_vars
             PROVE  \A r \in Runs : Orderly(r)'
  BY StepTyped DEF Order
<1>1. ASSUME NEW r \in Runs, Start(r) \/ Step(r) \/ Die(r), NEW q \in Runs \ {r}
      PROVE  Orderly(q)'
  <2>1. run'[q] = run[q]
    BY <1>1, OneMoves
  <2>2. /\ q \in worktrees' <=> q \in worktrees
        /\ q \in worktrees /\ q \in registered => q \in registered'
    BY <1>1, WorktreesStay
  <2> QED BY <2>1, <2>2 DEF Orderly, HasWorktree
<1>2. ASSUME NEW r \in Runs, Start(r) \/ Step(r) \/ Die(r) PROVE Orderly(r)'
  <2> USE DEF TypeOK, At
  <2>1. CASE Start(r)
    BY <2>1 DEF Start, Invocations, Orderly, HasWorktree, Fresh, Over, Validation, Working,
       Publication
  <2>2. CASE LoadAssessment(r)
    BY <2>2 DEF LoadAssessment, Loadable, Exits, Invocations, Orderly, HasWorktree, Fresh,
       Over, Validation, Working, Publication
  <2>3. CASE ValidateHead(r)
    BY <2>3 DEF ValidateHead, Goes, Exits, Invocations, Orderly, HasWorktree, Fresh, Over,
       Validation, Working, Publication
  <2>4. CASE ValidateTree(r)
    BY <2>4 DEF ValidateTree, Goes, Exits, Invocations, Orderly, HasWorktree, Fresh, Over,
       Validation, Working, Publication
  <2>5. CASE ResolveStartCommit(r)
    <3>1. run[r] \in Invocations /\ Orderly(r) /\ run[r].at = "resolve"
      BY <2>5 DEF ResolveStartCommit
    <3>2. /\ run'[r].at = "status" /\ run'[r].exit = run[r].exit
          /\ run'[r].mode = run[r].mode /\ run'[r].assessment = run[r].assessment
      BY <2>5, <3>1 DEF ResolveStartCommit, Invocations
    <3>3. run'[r].commit # None
      <4>1. run'[r].commit = IF run[r].mode = "apply" THEN run[r].assessment.commit ELSE head
        BY <2>5, <3>1 DEF ResolveStartCommit, Invocations
      <4> QED BY <3>1, <4>1, NoneIsApart DEF Orderly, Invocations, Assessments, Over
    <3> QED BY <2>5, <3>1, <3>2, <3>3 DEF ResolveStartCommit, Orderly, HasWorktree, Fresh, Over,
            Validation, Working, Publication
  <2>6. CASE ReadStatus(r)
    BY <2>6 DEF ReadStatus, Invocations, Orderly, HasWorktree, Fresh, Over, Validation,
       Working, Publication
  <2>7. CASE IsolationRefused(r)
    BY <2>7 DEF IsolationRefused, Exits, Invocations, Orderly, HasWorktree, Fresh, Over,
       Validation, Working, Publication
  <2>8. CASE AddWorktree(r)
    BY <2>8 DEF AddWorktree, Goes, Exits, Invocations, Orderly, HasWorktree, Fresh, Over,
       Validation, Working, Publication
  <2>9. CASE CheckOut(r)
    <3>1. /\ run[r].at = "checkout" /\ run'[r].mode = run[r].mode
          /\ run'[r].commit = run[r].commit /\ run'[r].assessment = run[r].assessment
          /\ \/ run'[r].at = "detect" /\ run'[r].exit = run[r].exit
             \/ run'[r].at = "ended" /\ run'[r].exit = "failed"
      BY <2>9 DEF CheckOut, Goes, Exits, Invocations
    <3>2. UNCHANGED <<worktrees, registered>>
      BY <2>9 DEF CheckOut, shared
    <3>3. Orderly(r)
      OBVIOUS
    <3> QED BY <3>1, <3>2, <3>3 DEF Orderly, HasWorktree, Fresh, Over, Validation, Working,
            Publication
  <2>10. CASE Detect(r)
    BY <2>10 DEF Detect, Goes, Fails, Invocations, Orderly, HasWorktree, Fresh, Over,
       Validation, Working, Publication
  <2>11. CASE RunGraph(r)
    <3>1. /\ run[r].at = "graph" /\ run'[r].mode = run[r].mode
          /\ run'[r].commit = run[r].commit /\ run'[r].assessment = run[r].assessment
          /\ \/ /\ run'[r].at \in {"branch", "comment", "result"}
                /\ run'[r].exit = run[r].exit
             \/ run'[r].at = "release" /\ run'[r].exit = "failed"
      BY <2>11 DEF RunGraph, Goes, Fails, Classified, Invocations
    <3>2. UNCHANGED <<worktrees, registered>>
      BY <2>11 DEF RunGraph, shared
    <3>3. Orderly(r)
      OBVIOUS
    <3> QED BY <3>1, <3>2, <3>3 DEF Orderly, HasWorktree, Fresh, Over, Validation, Working,
            Publication
  <2>12. CASE CreateBranch(r)
    BY <2>12 DEF CreateBranch, Goes, Classified, Invocations, Orderly, HasWorktree, Fresh,
       Over, Validation, Working, Publication
  <2>13. CASE PushBranch(r)
    BY <2>13 DEF PushBranch, Push, Goes, Classified, Invocations, Orderly, HasWorktree,
       Fresh, Over, Validation, Working, Publication
  <2>14. CASE OpenDraft(r)
    BY <2>14 DEF OpenDraft, Classified, Invocations, Orderly, HasWorktree, Fresh, Over,
       Validation, Working, Publication
  <2>15. CASE PostReviewComment(r)
    <3>1. /\ run[r].at = "comment" /\ run'[r].mode = run[r].mode
          /\ run'[r].commit = run[r].commit /\ run'[r].assessment = run[r].assessment
          /\ \/ run'[r].at = "result" /\ run'[r].exit = run[r].exit
             \/ run'[r].at = "release" /\ run'[r].exit = "failed"
      BY <2>15 DEF PostReviewComment, Goes, Fails, Invocations
    <3>2. UNCHANGED <<worktrees, registered>>
      BY <2>15 DEF PostReviewComment, shared
    <3>3. Orderly(r)
      OBVIOUS
    <3> QED BY <3>1, <3>2, <3>3 DEF Orderly, HasWorktree, Fresh, Over, Validation, Working,
            Publication
  <2>16. CASE WriteResult(r)
    BY <2>16 DEF WriteResult, Goes, Fails, Invocations, Orderly, HasWorktree, Fresh, Over,
       Validation, Working, Publication
  <2>17. CASE WriteDetails(r)
    BY <2>17 DEF WriteDetails, Goes, Fails, Invocations, Orderly, HasWorktree, Fresh, Over,
       Validation, Working, Publication
  <2>18. CASE Release(r)
    BY <2>18 DEF Release, Leaves, Goes, Exits, Invocations, Orderly, HasWorktree, Fresh,
       Over, Validation, Working, Publication
  <2>19. CASE SaveAssessment(r)
    BY <2>19 DEF SaveAssessment, Exits, Invocations, Orderly, HasWorktree, Fresh, Over,
       Validation, Working, Publication
  <2>20. CASE Die(r)
    BY <2>20 DEF Die, Goes, Invocations, Orderly, HasWorktree, Fresh, Over, Validation,
       Working, Publication
  <2> QED
    BY <1>2, <2>1, <2>2, <2>3, <2>4, <2>5, <2>6, <2>7, <2>8, <2>9, <2>10, <2>11, <2>12,
       <2>13, <2>14, <2>15, <2>16, <2>17, <2>18, <2>19, <2>20 DEF Step
<1>3. ASSUME UNCHANGED <<run, worktrees, registered>>, NEW r \in Runs PROVE Orderly(r)'
  BY <1>3 DEF Orderly
<1> QED BY <1>1, <1>2, <1>3 DEF Next, vars, shared, UserChecksOut, UserEdits, UserDeletesBranch

-----------------------------------------------------------------------------
\* An assessment, from the run that made it to the run that continues it.

LEMMA StepContinuity ==
  ASSUME Order, Continuity, [Next]_vars
  PROVE  Continuity'
<1> USE DEF Order
<1>1. ASSUME NEW a \in Assessments, AsAssessed(a)
      PROVE  /\ run'[a.by].at = "ended" /\ run'[a.by].commit = a.commit
             /\ run'[a.by].clean = a.clean
  <2>1. a.by \in Runs
    BY DEF Assessments
  <2> QED BY <1>1, <2>1, EndedStays DEF AsAssessed
<1>2. /\ stored \in [Ids -> Assessments \cup {None}]
      /\ run \in [Runs -> Invocations]
      /\ \A r \in Runs : run[r].assessment \in Assessments \cup {None}
  BY DEF TypeOK, Invocations
<1>3. ASSUME NEW i \in Ids, stored'[i] # None
      PROVE  LET a == stored'[i]
             IN  /\ run'[a.by].at = "ended" /\ run'[a.by].commit = a.commit
                 /\ run'[a.by].clean = a.clean
  <2>1. CASE stored'[i] = stored[i]
    BY <1>1, <1>2, <1>3, <2>1 DEF Continuity, IndexIsTrue
  <2>2. ASSUME NEW r \in Runs, SaveAssessment(r), stored'[i] # stored[i]
        PROVE  LET a == stored'[i]
               IN  /\ run'[a.by].at = "ended" /\ run'[a.by].commit = a.commit
                   /\ run'[a.by].clean = a.clean
    <3>1. i = run[r].id
      BY <1>2, <1>3, <2>2 DEF SaveAssessment
    <3>2. stored'[i] = [by |-> r, commit |-> run[r].commit, clean |-> run[r].clean,
                        content |-> Content]
      BY <1>2, <1>3, <2>2, <3>1 DEF SaveAssessment
    <3>3. /\ run'[r].at = "ended" /\ run'[r].commit = run[r].commit
          /\ run'[r].clean = run[r].clean
      BY <1>2, <2>2 DEF SaveAssessment, Exits, Invocations
    <3> QED BY <3>2, <3>3
  <2> QED BY <2>1, <2>2, StoredChanges
<1>4. ASSUME NEW q \in Runs, run'[q] = run[q] PROVE Continues(q)'
  BY <1>1, <1>2, <1>4 DEF Continuity, Continues, AsAssessed
<1>5. ASSUME NEW r \in Runs, Start(r) \/ Step(r) \/ Die(r) PROVE Continues(r)'
  <2>1. Continues(r) /\ Orderly(r)
    BY DEF Continuity
  <2>2. CASE Start(r)
    <3>1. /\ run'[r].assessment = run[r].assessment /\ run'[r].commit = run[r].commit
          /\ run[r].commit = None
      BY <2>1, <2>2, OneMoves DEF Start, At, LoadAssessment, ResolveStartCommit, Orderly, Fresh
    <3> QED BY <1>1, <1>2, <2>1, <3>1 DEF Continues, AsAssessed
  <2>3. CASE LoadAssessment(r)
    <3>1. run'[r].commit = None
      <4>1. run[r].at = "load" /\ ~ResolveStartCommit(r)
        BY <2>3 DEF LoadAssessment, ResolveStartCommit, At
      <4> QED BY <1>5, <2>1, <4>1, OneMoves DEF Orderly, Fresh, Validation
    <3>2. \/ run'[r].assessment = run[r].assessment
          \/ /\ Loadable(run[r].target) /\ stored[run[r].target].clean
             /\ run'[r].assessment = stored[run[r].target]
      BY <1>2, <2>3 DEF LoadAssessment, Exits, Invocations
    <3>3. CASE run'[r].assessment = run[r].assessment
      BY <1>1, <1>2, <2>1, <3>1, <3>3 DEF Continues, AsAssessed
    <3>4. CASE /\ Loadable(run[r].target) /\ stored[run[r].target].clean
               /\ run'[r].assessment = stored[run[r].target]
      <4>1. AsAssessed(stored[run[r].target]) /\ stored[run[r].target] \in Assessments
        BY <1>2, <3>4 DEF Loadable, Ids, Continuity, IndexIsTrue
      <4> QED BY <1>1, <3>1, <3>4, <4>1 DEF Continues, AsAssessed
    <3> QED BY <3>2, <3>3, <3>4
  <2>4. CASE ResolveStartCommit(r)
    <3>1. /\ run'[r].assessment = run[r].assessment /\ run'[r].mode = run[r].mode
          /\ run[r].at = "resolve"
      BY <1>5, <2>4, OneMoves DEF ResolveStartCommit, LoadAssessment, At
    <3>2. run[r].mode = "apply" => run'[r].commit = run[r].assessment.commit
      BY <1>2, <2>4 DEF ResolveStartCommit, Invocations
    <3>3. run[r].mode = "apply" => run[r].assessment # None
      BY <2>1, <3>1 DEF Orderly, Over
    <3> QED BY <1>1, <1>2, <2>1, <3>1, <3>2, <3>3 DEF Continues, AsAssessed
  <2>5. CASE ~Start(r) /\ ~LoadAssessment(r) /\ ~ResolveStartCommit(r)
    <3>1. /\ run'[r].assessment = run[r].assessment /\ run'[r].commit = run[r].commit
          /\ run'[r].mode = run[r].mode
      <4>1. run[r].at # "waiting"
        BY <1>5, <2>5 DEF Step, Die, LoadAssessment, ValidateHead, ValidateTree,
           ResolveStartCommit, ReadStatus, IsolationRefused, AddWorktree, CheckOut, Detect,
           RunGraph, CreateBranch, PushBranch, OpenDraft, PostReviewComment, WriteResult,
           WriteDetails, Release, SaveAssessment, At
      <4> QED BY <1>5, <2>5, <4>1, OneMoves
    <3> QED BY <1>1, <1>2, <2>1, <3>1 DEF Continues, AsAssessed
  <2> QED BY <2>2, <2>3, <2>4, <2>5
<1>6. \A r \in Runs : Continues(r)'
  BY <1>4, <1>5, OneMoves DEF Next, vars, UserChecksOut, UserEdits, UserDeletesBranch
<1> QED BY <1>3, <1>6 DEF Continuity, IndexIsTrue, AsAssessed

-----------------------------------------------------------------------------
\* What a run leaves in its artifacts directory.

\* Only the entry of the run at work is written to, and only ever filled in.
LEMMA RecordIsFilled ==
  ASSUME TypeOK, [Next]_vars, NEW d \in Directories
  PROVE  \/ record'[d] = record[d]
         \/ \E r \in Runs :
              /\ run[r].dir = d /\ run[r].at # "waiting"
              /\ record'[d] \in {[record[d] EXCEPT !.audit = @ \cup {r}],
                                 [record[d] EXCEPT !.result = r],
                                 [record[d] EXCEPT !.patch = r]}
<1>1. record \in [Directories -> Records]
  BY DEF TypeOK
<1>2. CASE UNCHANGED record
  BY <1>2
<1>3. ASSUME NEW r \in Runs,
             \/ At(r, "detect") /\ record' = [record EXCEPT ![run[r].dir].audit = @ \cup {r}]
             \/ At(r, "result") /\ record' = [record EXCEPT ![run[r].dir].result = r]
             \/ At(r, "details") /\ record' = [record EXCEPT ![run[r].dir].patch = r]
      PROVE  \/ record'[d] = record[d]
             \/ /\ run[r].dir = d /\ run[r].at # "waiting"
                /\ record'[d] \in {[record[d] EXCEPT !.audit = @ \cup {r}],
                                   [record[d] EXCEPT !.result = r],
                                   [record[d] EXCEPT !.patch = r]}
  BY <1>1, <1>3 DEF At
<1> QED BY <1>2, <1>3, RecordChanges

LEMMA RecordGrows ==
  ASSUME TypeOK, [Next]_vars, NEW d \in Directories
  PROVE  /\ record[d].audit \subseteq record'[d].audit
         /\ record[d].result # None => record'[d].result # None
         /\ record[d].patch # None => record'[d].patch # None
<1>1. record[d] \in Records
  BY DEF TypeOK
<1> QED BY <1>1, RecordIsFilled, NoneIsApart DEF Records

LEMMA StepOwn == ASSUME TypeOK, OwnRecord, [Next]_vars PROVE OwnRecord'
<1>1. \A r \in Runs : run[r].at # "waiting" => run'[r].dir = run[r].dir /\ run'[r].at # "waiting"
  BY OneMoves DEF Next, vars, UserChecksOut, UserEdits, UserDeletesBranch
<1>2. SUFFICES ASSUME NEW d \in Directories
               PROVE  LET started == {r \in Runs : run'[r].at # "waiting" /\ run'[r].dir = d}
                      IN  /\ record'[d].audit \subseteq started
                          /\ record'[d].result \in started \cup {None}
                          /\ record'[d].patch \in started \cup {None}
  BY DEF OwnRecord, At
<1> DEFINE known == {r \in Runs : run[r].at # "waiting" /\ run[r].dir = d}
<1>3. /\ record[d].audit \subseteq known
      /\ record[d].result \in known \cup {None}
      /\ record[d].patch \in known \cup {None}
  BY DEF OwnRecord, At
<1>4. record[d] \in Records
  BY DEF TypeOK
<1>5. /\ record'[d].audit \subseteq known
      /\ record'[d].result \in known \cup {None}
      /\ record'[d].patch \in known \cup {None}
  <2>1. CASE record'[d] = record[d]
    BY <1>3, <2>1
  <2>2. ASSUME NEW r \in known,
               record'[d] \in {[record[d] EXCEPT !.audit = @ \cup {r}],
                               [record[d] EXCEPT !.result = r],
                               [record[d] EXCEPT !.patch = r]}
        PROVE  /\ record'[d].audit \subseteq known
               /\ record'[d].result \in known \cup {None}
               /\ record'[d].patch \in known \cup {None}
    <3> HIDE DEF known
    <3> QED BY <1>3, <1>4, <2>2 DEF Records
  <2> QED BY <2>1, <2>2, RecordIsFilled
<1>6. known \subseteq {r \in Runs : run'[r].at # "waiting" /\ run'[r].dir = d}
  BY <1>1
<1> HIDE DEF known
<1> QED BY <1>5, <1>6

LEMMA WrittenStays ==
  ASSUME TypeOK, [Next]_vars, NEW r \in Runs, Written(r), run'[r].dir = run[r].dir
  PROVE  Written(r)'
<1>1. run[r].dir \in Directories
  BY DEF TypeOK, Invocations
<1> QED BY <1>1, RecordGrows DEF Written

LEMMA StepRecorded ==
  ASSUME TypeOK, EachRecorded, [Next]_vars
  PROVE  EachRecorded'
<1>1. ASSUME NEW q \in Runs, run'[q] = run[q] PROVE Recorded(q)'
  <2>1. run[q].dir \in Directories
    BY DEF TypeOK, Invocations
  <2>2. Written(q) => Written(q)'
    BY <1>1, WrittenStays
  <2> QED BY <1>1, <2>1, <2>2, RecordGrows DEF EachRecorded, Recorded
<1>2. ASSUME NEW r \in Runs, Start(r) \/ Step(r) \/ Die(r) PROVE Recorded(r)'
  <2>1. run[r].dir \in Directories /\ run[r] \in Invocations
    BY DEF TypeOK, Invocations
  <2>2. Recorded(r)
    BY DEF EachRecorded
  <2>3. /\ record[run[r].dir].audit \subseteq record'[run[r].dir].audit
        /\ record[run[r].dir].result # None => record'[run[r].dir].result # None
        /\ record[run[r].dir].patch # None => record'[run[r].dir].patch # None
    BY <2>1, RecordGrows
  <2>4. record \in [Directories -> Records]
    BY DEF TypeOK
  <2> USE DEF At
  <2>5. CASE Start(r)
    BY <2>5, <2>1, <2>2, <2>3, <2>4, NoneIsApart DEF Start, TypeOK, Invocations,
       Records, Recorded, Written, Over, Working, Publication
  <2>6. CASE LoadAssessment(r)
    BY <2>6, <2>1, <2>2, <2>3, <2>4, NoneIsApart DEF LoadAssessment, Loadable, Exits,
       TypeOK, Invocations, Records, Recorded, Written, Over, Working, Publication
  <2>7. CASE ValidateHead(r)
    BY <2>7, <2>1, <2>2, <2>3, <2>4, NoneIsApart DEF ValidateHead, Goes, Exits, TypeOK,
       Invocations, Records, Recorded, Written, Over, Working, Publication
  <2>8. CASE ValidateTree(r)
    BY <2>8, <2>1, <2>2, <2>3, <2>4, NoneIsApart DEF ValidateTree, Goes, Exits, TypeOK,
       Invocations, Records, Recorded, Written, Over, Working, Publication
  <2>9. CASE ResolveStartCommit(r)
    BY <2>9, <2>1, <2>2, <2>3, <2>4, NoneIsApart DEF ResolveStartCommit, TypeOK,
       Invocations, Records, Recorded, Written, Over, Working, Publication
  <2>10. CASE ReadStatus(r)
    BY <2>10, <2>1, <2>2, <2>3, <2>4, NoneIsApart DEF ReadStatus, TypeOK, Invocations,
       Records, Recorded, Written, Over, Working, Publication
  <2>11. CASE IsolationRefused(r)
    BY <2>11, <2>1, <2>2, <2>3, <2>4, NoneIsApart DEF IsolationRefused, Exits, TypeOK,
       Invocations, Records, Recorded, Written, Over, Working, Publication
  <2>12. CASE AddWorktree(r)
    BY <2>12, <2>1, <2>2, <2>3, <2>4, NoneIsApart DEF AddWorktree, Goes, Exits, TypeOK,
       Invocations, Records, Recorded, Written, Over, Working, Publication
  <2>13. CASE CheckOut(r)
    BY <2>13, <2>1, <2>2, <2>3, <2>4, NoneIsApart DEF CheckOut, Goes, Exits, TypeOK,
       Invocations, Records, Recorded, Written, Over, Working, Publication
  <2>14. CASE Detect(r)
    <3>1. run'[r].dir = run[r].dir /\ run[r].exit # "classified"
      BY <2>14, <1>2, <2>2, OneMoves DEF Detect, Recorded
    <3>2. \/ /\ run'[r].at = "graph" /\ run'[r].exit = run[r].exit
             /\ r \in record'[run[r].dir].audit
          \/ run'[r].at = "release" /\ run'[r].exit = "failed"
      BY <2>14, <2>1, <2>4 DEF Detect, Goes, Fails, TypeOK, Records, Invocations
    <3>3. run[r].at = "detect"
      BY <2>14 DEF Detect
    <3> QED
      BY <2>2, <2>3, <3>1, <3>2, <3>3, NoneIsApart DEF Recorded, Written, Publication
  <2>15. CASE RunGraph(r)
    <3>1. run'[r].dir = run[r].dir /\ run[r].exit # "classified"
      BY <2>15, <1>2, <2>2, OneMoves DEF RunGraph, Recorded
    <3>2. \/ /\ run'[r].at \in {"branch", "comment", "result"}
             /\ run'[r].exit = run[r].exit
          \/ run'[r].at = "release" /\ run'[r].exit = "failed"
      BY <2>15, <2>1, <2>4 DEF RunGraph, Goes, Fails, Classified, TypeOK, Records,
         Invocations
    <3>3. run[r].at = "graph"
      BY <2>15 DEF RunGraph
    <3> QED
      BY <2>2, <2>3, <3>1, <3>2, <3>3, NoneIsApart DEF Recorded, Written, Publication
  <2>16. CASE CreateBranch(r)
    <3>1. run'[r].dir = run[r].dir /\ run[r].exit # "classified"
      BY <2>16, <1>2, <2>2, OneMoves DEF CreateBranch, Recorded
    <3>2. \/ /\ run'[r].at \in {"push", "comment", "result"}
             /\ run'[r].exit = run[r].exit
          \/ run'[r].at = "release" /\ run'[r].exit = "failed"
      BY <2>16, <2>1, <2>4 DEF CreateBranch, Goes, Classified, TypeOK, Records, Invocations
    <3>3. run[r].at = "branch"
      BY <2>16 DEF CreateBranch
    <3> QED
      BY <2>2, <2>3, <3>1, <3>2, <3>3, NoneIsApart DEF Recorded, Written, Publication
  <2>17. CASE PushBranch(r)
    <3>1. run'[r].dir = run[r].dir /\ run[r].exit # "classified"
      BY <2>17, <1>2, <2>2, OneMoves DEF PushBranch, Recorded
    <3>2. \/ /\ run'[r].at \in {"open", "comment", "result"}
             /\ run'[r].exit = run[r].exit
          \/ run'[r].at = "release" /\ run'[r].exit = "failed"
      BY <2>17, <2>1, <2>4 DEF PushBranch, Goes, Fails, Classified, TypeOK, Records,
         Invocations
    <3>3. run[r].at = "push"
      BY <2>17 DEF PushBranch
    <3> QED
      BY <2>2, <2>3, <3>1, <3>2, <3>3, NoneIsApart DEF Recorded, Written, Publication
  <2>18. CASE OpenDraft(r)
    BY <2>18, <2>1, <2>2, <2>3, <2>4, NoneIsApart DEF OpenDraft, Classified, TypeOK,
       Invocations, Records, Recorded, Written, Over, Working, Publication
  <2>19. CASE PostReviewComment(r)
    <3>1. run'[r].dir = run[r].dir /\ run[r].exit # "classified"
      BY <2>19, <1>2, <2>2, OneMoves DEF PostReviewComment, Recorded
    <3>2. \/ run'[r].at = "result" /\ run'[r].exit = run[r].exit
          \/ run'[r].at = "release" /\ run'[r].exit = "failed"
      BY <2>19, <2>1, <2>4 DEF PostReviewComment, Goes, Fails, TypeOK, Records, Invocations
    <3>3. run[r].at = "comment"
      BY <2>19 DEF PostReviewComment
    <3> QED
      BY <2>2, <2>3, <3>1, <3>2, <3>3, NoneIsApart DEF Recorded, Written, Publication
  <2>20. CASE WriteResult(r)
    <3>1. run'[r].dir = run[r].dir /\ run[r].exit # "classified"
      BY <2>20, <1>2, <2>2, OneMoves DEF WriteResult, Recorded
    <3>2. \/ /\ run'[r].at = "details" /\ run'[r].exit = run[r].exit
             /\ record'[run[r].dir].result = r
          \/ run'[r].at = "release" /\ run'[r].exit = "failed"
      BY <2>20, <2>1, <2>4 DEF WriteResult, Goes, Fails, TypeOK, Records, Invocations
    <3>3. run[r].at = "result"
      BY <2>20 DEF WriteResult
    <3> QED
      BY <2>2, <2>3, <3>1, <3>2, <3>3, NoneIsApart DEF Recorded, Written, Publication
  <2>21. CASE WriteDetails(r)
    <3>1. run'[r].dir = run[r].dir /\ run[r].exit # "classified"
      BY <2>21, <1>2, <2>2, OneMoves DEF WriteDetails, Recorded
    <3>2. \/ /\ run'[r].at = "release" /\ run'[r].exit = run[r].exit
             /\ record'[run[r].dir].patch = r
          \/ run'[r].at = "release" /\ run'[r].exit = "failed"
      BY <2>21, <2>1, <2>4 DEF WriteDetails, Goes, Fails, TypeOK, Records, Invocations
    <3>3. run[r].at = "details"
      BY <2>21 DEF WriteDetails
    <3> QED
      BY <2>2, <2>3, <3>1, <3>2, <3>3, NoneIsApart DEF Recorded, Written, Publication
  <2>22. CASE Release(r)
    BY <2>22, <2>1, <2>2, <2>3, <2>4, NoneIsApart DEF Release, Leaves, Goes, Exits,
       TypeOK, Invocations, Records, Recorded, Written, Over, Working, Publication
  <2>23. CASE SaveAssessment(r)
    BY <2>23, <2>1, <2>2, <2>3, <2>4, NoneIsApart DEF SaveAssessment, Exits, TypeOK,
       Invocations, Records, Recorded, Written, Over, Working, Publication
  <2>24. CASE Die(r)
    BY <2>24, <2>1, <2>2, <2>3, <2>4, NoneIsApart DEF Die, Goes, TypeOK, Invocations,
       Records, Recorded, Written, Over, Working, Publication
  <2> QED
    BY <1>2, <2>5, <2>6, <2>7, <2>8, <2>9, <2>10, <2>11, <2>12, <2>13, <2>14, <2>15, <2>16,
       <2>17, <2>18, <2>19, <2>20, <2>21, <2>22, <2>23, <2>24 DEF Step
<1>3. \A r \in Runs : Recorded(r)'
  BY <1>1, <1>2, OneMoves DEF Next, vars, UserChecksOut, UserEdits, UserDeletesBranch
<1> QED BY <1>3 DEF EachRecorded

LEMMA StepIndex ==
  ASSUME TypeOK, EachRecorded, IndexIsRecorded, [Next]_vars
  PROVE  IndexIsRecorded'
<1>1. ASSUME NEW q \in Runs, run[q].at = "ended"
      PROVE  run'[q] = run[q] /\ (Written(q) => Written(q)')
  <2>1. run'[q] = run[q]
    BY <1>1, EndedStays
  <2> QED BY <2>1, WrittenStays
<1>2. stored \in [Ids -> Assessments \cup {None}]
  BY DEF TypeOK
<1>3. ASSUME NEW i \in Ids, stored'[i] # None, stored'[i] = stored[i]
      PROVE  /\ run'[stored'[i].by].id = i /\ run'[stored'[i].by].at = "ended"
             /\ Written(stored[i].by)'
  <2>1. stored[i].by \in Runs
    BY <1>2, <1>3 DEF Assessments
  <2> QED BY <1>1, <1>3, <2>1 DEF IndexIsRecorded
<1>4. ASSUME NEW i \in Ids, stored'[i] # None, stored'[i] # stored[i]
      PROVE  /\ run'[stored'[i].by].id = i /\ run'[stored'[i].by].at = "ended"
             /\ Written(stored[i].by)'
  <2>1. PICK r \in Runs : SaveAssessment(r)
    BY <1>4, StoredChanges
  <2>2. i = run[r].id /\ stored'[i].by = r
    BY <1>2, <1>4, <2>1 DEF SaveAssessment
  <2>3. /\ run'[r].id = run[r].id /\ run'[r].dir = run[r].dir
        /\ run'[r].at = "ended"
    BY <2>1 DEF SaveAssessment, Exits, TypeOK, Invocations
  <2>4. Written(r)
    BY <2>1 DEF SaveAssessment, At, EachRecorded, Recorded
  <2>5. Written(r)'
    BY <2>3, <2>4, WrittenStays
  <2> QED BY <2>2, <2>3, <2>5
<1> QED BY <1>3, <1>4 DEF IndexIsRecorded

LEMMA InitRecording == Init => Recording
<1> SUFFICES ASSUME Init PROVE Recording
  OBVIOUS
<1>1. \A r \in Runs : run[r].at = "waiting" /\ run[r].exit = None
  BY DEF Init
<1>2. OwnRecord
  BY DEF Init, OwnRecord
<1>3. IndexIsRecorded
  BY DEF Init, IndexIsRecorded
<1>4. \A r \in Runs : Recorded(r)
  BY <1>1, NoneIsApart DEF Recorded, Publication
<1> QED BY <1>2, <1>3, <1>4 DEF Recording, EachRecorded

LEMMA InitContinuity == Init => Continuity
<1> SUFFICES ASSUME Init PROVE Continuity
  OBVIOUS
<1>1. \A r \in Runs : run[r].assessment = None /\ run[r].commit = None
  BY DEF Init
<1>2. IndexIsTrue
  BY DEF Init, IndexIsTrue
<1> QED BY <1>1, <1>2 DEF Continuity, Continues

-----------------------------------------------------------------------------
\* The theorems.

\* The invariants hold in every reachable state: what an invocation holds follows from
\* where it is, an assessment is true of the run that made it, and a record holds only
\* what runs with that artifacts directory have written.
THEOREM InvariantsHold == Spec => [](Order /\ Continuity /\ Recording)
<1> DEFINE Inv == Order /\ Continuity /\ Recording
<1>1. Init => Inv
  BY InitOrder, InitContinuity, InitRecording
<1>2. Inv /\ [Next]_vars => Inv'
  BY StepOrder, StepContinuity, StepOwn, StepRecorded, StepIndex DEF Order, Recording
<1> QED BY <1>1, <1>2, PTL DEF Spec

\* Every variable keeps to its type, whatever fails and however invocations, crashes and
\* the user's own git commands interleave (main.ts, run.ts, isolate.ts, storage.ts).
THEOREM TypeCorrect == Spec => []TypeOK
<1>1. Order => TypeOK
  BY DEF Order
<1> QED BY <1>1, InvariantsHold, PTL

\* For any number of invocations, apply works at the commit that was assessed, on an
\* assessment of a clean checkout, although the user's checkout moves at any time
\* (storage.ts, loadAssessment; isolate.ts, resolveStartCommit).
THEOREM AppliedHolds == Spec => []AppliedIsAssessed
<1>1. Order /\ Continuity => AppliedIsAssessed
  <2> SUFFICES ASSUME Order, Continuity, NEW r \in Runs,
                      run[r].mode = "apply", run[r].commit # None
               PROVE  LET a == run[r].assessment
                      IN  /\ a # None /\ a.clean
                          /\ run[r].commit = a.commit /\ run[a.by].commit = a.commit
                          /\ run[a.by].clean
    BY DEF AppliedIsAssessed
  <2>1. Continues(r)
    BY DEF Continuity
  <2> QED BY <2>1 DEF Continues, AsAssessed
<1> QED BY <1>1, InvariantsHold, PTL

\* A run at work keeps its worktree, on disk and on git's record, however many invocations
\* share a run id and whichever of them is released meanwhile (isolate.ts).
THEOREM WorktreeHolds == Spec => []WorktreeIsIntact
<1>1. Order => WorktreeIsIntact
  BY DEF Order, Orderly, HasWorktree, WorktreeIsIntact
<1> QED BY <1>1, InvariantsHold, PTL

\* An invocation that reports a status has removed its worktree (run.ts; isolate.ts,
\* release).
THEOREM StatusHolds == Spec => []StatusLeavesNothing
<1>1. Order => StatusLeavesNothing
  BY DEF Order, Orderly, StatusLeavesNothing
<1> QED BY <1>1, InvariantsHold, PTL

\* A reported status and a stored assessment come with the audit log, the result and the
\* patch of that same run, and of no other, in its artifacts directory, provided nobody
\* else wrote to that directory, under whatever run id (run.ts, artifacts.ts, storage.ts;
\* main.ts, toRunOptions).
THEOREM RecordHolds == Spec => []RecordIsComplete
<1>1. Order /\ Recording => RecordIsComplete
  <2> SUFFICES ASSUME Order, Recording, NEW r \in Runs, Alone(r),
                      \/ run[r].exit = "classified"
                      \/ stored[run[r].id] # None /\ stored[run[r].id].by = r
               PROVE  record[run[r].dir] = [audit |-> {r}, result |-> r, patch |-> r]
    BY DEF RecordIsComplete
  <2> DEFINE d == run[r].dir
             started == {q \in Runs : ~At(q, "waiting") /\ run[q].dir = d}
  <2>1. d \in Directories /\ run[r].id \in Ids /\ record[d] \in Records
    BY DEF Order, TypeOK, Invocations
  <2>2. Written(r)
    BY <2>1 DEF Recording, EachRecorded, Recorded, IndexIsRecorded
  <2>3. started \subseteq {r}
    BY DEF Alone
  <2>4. /\ record[d].audit \subseteq started
        /\ {record[d].result, record[d].patch} \subseteq started \cup {None}
    BY <2>1 DEF Recording, OwnRecord
  <2>5. record[d].audit = {r} /\ record[d].result = r /\ record[d].patch = r
    BY <2>2, <2>3, <2>4 DEF Written
  <2> QED BY <2>1, <2>5 DEF Records
<1> QED BY <1>1, InvariantsHold, PTL

-----------------------------------------------------------------------------
\* What a run has published, and the histories of the commits it may be merged into.

\* A run that has committed has a start commit, and is past its branch.
Publishing(r) ==
  work[r] # "none" =>
    /\ run[r].commit # None
    /\ run[r].at \in {"push", "open", "comment", "result", "details", "release", "save"} \cup Over

\* The commits in use are there with their histories.
HistoriesExist ==
  Exists(head) /\ \A r \in Runs : run[r].commit # None => Exists(run[r].commit)

TipsArePushed == \A i \in Ids : remote[i] # None => work[remote[i]] = "pushed"

EachPublishing == \A r \in Runs : Publishing(r)

History == EachPublishing /\ HistoriesExist /\ TipsArePushed /\ PublishedStays

LEMMA InitHistory == Init => History
<1> SUFFICES ASSUME Init PROVE History
  OBVIOUS
<1>1. /\ \A r \in Runs : run[r].commit = None /\ work[r] = "none"
      /\ \A i \in Ids : remote[i] = None
      /\ Merges[head] = {}
  BY DEF Init
<1> QED BY <1>1 DEF History, EachPublishing, Publishing, HistoriesExist, Exists, TipsArePushed,
        PublishedStays

\* A start commit, once there is one, is never another.
LEMMA CommitStays ==
  ASSUME Order, [Next]_vars, NEW r \in Runs, run[r].commit # None
  PROVE  run'[r].commit = run[r].commit
<1>1. ~ResolveStartCommit(r)
  BY DEF Order, Orderly, ResolveStartCommit, At, Fresh
<1> QED BY <1>1, OneMoves DEF Order, Next, vars, UserChecksOut, UserEdits, UserDeletesBranch

LEMMA WorkChanges ==
  ASSUME [Next]_vars
  PROVE  UNCHANGED <<work, remote>> \/ \E r \in Runs : CreateBranch(r) \/ PushBranch(r)
BY DEF Next, Step, vars, shared, checkout, Start, LoadAssessment, ValidateHead,
   ValidateTree, ResolveStartCommit, ReadStatus, IsolationRefused, AddWorktree, CheckOut,
   Detect, RunGraph, OpenDraft, PostReviewComment, WriteResult, WriteDetails, Release,
   SaveAssessment, Die, UserChecksOut, UserEdits, UserDeletesBranch

\* What was committed stays committed, and what was pushed stays pushed.
LEMMA WorkGrows ==
  ASSUME TypeOK, EachPublishing, [Next]_vars, NEW q \in Runs
  PROVE  /\ work[q] # "none" => work'[q] # "none"
         /\ work[q] = "pushed" => work'[q] = "pushed"
<1>1. CASE UNCHANGED work
  BY <1>1
<1>2. ASSUME NEW r \in Runs, CreateBranch(r)
      PROVE  /\ work[q] # "none" => work'[q] # "none"
             /\ work[q] = "pushed" => work'[q] = "pushed"
  <2>1. work[r] = "none"
    BY <1>2 DEF CreateBranch, At, EachPublishing, Publishing, Over
  <2> QED BY <1>2, <2>1 DEF CreateBranch, TypeOK
<1>3. ASSUME NEW r \in Runs, PushBranch(r)
      PROVE  /\ work[q] # "none" => work'[q] # "none"
             /\ work[q] = "pushed" => work'[q] = "pushed"
  BY <1>3 DEF PushBranch, Push, TypeOK
<1> QED BY <1>1, <1>2, <1>3, WorkChanges

LEMMA ExistsStays ==
  ASSUME Order, EachPublishing, [Next]_vars, NEW c \in Commits, Exists(c)
  PROVE  \A q \in Merges[c] : work'[q] # "none" /\ Merges[run'[q].commit] \subseteq Merges[c]
<1> SUFFICES ASSUME NEW q \in Merges[c]
             PROVE  work'[q] # "none" /\ Merges[run'[q].commit] \subseteq Merges[c]
  OBVIOUS
<1>1. q \in Runs
  BY LifecycleAssumption
<1>2. work[q] # "none" /\ Merges[run[q].commit] \subseteq Merges[c]
  BY DEF Exists
<1>3. run[q].commit # None
  BY <1>1, <1>2 DEF EachPublishing, Publishing
<1> QED BY <1>1, <1>2, <1>3, CommitStays, WorkGrows DEF Order

LEMMA StepPublishing ==
  ASSUME Order, EachPublishing, [Next]_vars
  PROVE  EachPublishing'
<1> USE DEF Order
<1>1. ASSUME NEW q \in Runs, run'[q] = run[q], work'[q] = work[q] PROVE Publishing(q)'
  BY <1>1 DEF EachPublishing, Publishing
<1>2. ASSUME NEW r \in Runs, Start(r) \/ Step(r) \/ Die(r), NEW q \in Runs \ {r}
      PROVE  run'[q] = run[q] /\ work'[q] = work[q]
  <2>1. run'[q] = run[q]
    BY <1>2, OneMoves
  <2>2. CASE CreateBranch(r) \/ PushBranch(r)
    BY <2>1, <2>2 DEF CreateBranch, PushBranch, Push, TypeOK
  <2> QED
    BY <1>2, <2>1, <2>2 DEF Step, shared, checkout, Start, LoadAssessment, ValidateHead,
       ValidateTree, ResolveStartCommit, ReadStatus, IsolationRefused, AddWorktree, CheckOut,
       Detect, RunGraph, OpenDraft, PostReviewComment, WriteResult, WriteDetails, Release,
       SaveAssessment, Die
<1>3. ASSUME NEW r \in Runs, Start(r) \/ Step(r) \/ Die(r) PROVE Publishing(r)'
  <2>1. Publishing(r) /\ Orderly(r) /\ run[r] \in Invocations
    BY DEF EachPublishing, TypeOK
  <2>2. run[r].commit # None => run'[r].commit # None
    BY <1>3, CommitStays DEF Next
  <2>3. CASE CreateBranch(r) \/ PushBranch(r)
    <3>1. run[r].commit # None
      BY <2>1, <2>3 DEF CreateBranch, PushBranch, At, Orderly, Fresh, Validation, Over
    <3>2. run'[r].at \in {"push", "open", "comment", "result"}
      BY <2>1, <2>3 DEF CreateBranch, PushBranch, Goes, Classified, TypeOK, Invocations
    <3> QED BY <2>2, <3>1, <3>2 DEF Publishing
  <2>4. CASE UNCHANGED work /\ (Start(r) \/ LoadAssessment(r) \/ ValidateHead(r)
                                \/ ValidateTree(r) \/ ResolveStartCommit(r) \/ ReadStatus(r)
                                \/ IsolationRefused(r) \/ AddWorktree(r) \/ CheckOut(r)
                                \/ Detect(r) \/ RunGraph(r))
    <3>1. work[r] = "none"
      BY <2>1, <2>4 DEF Publishing, Start, LoadAssessment, ValidateHead, ValidateTree,
         ResolveStartCommit, ReadStatus, IsolationRefused, AddWorktree, CheckOut, Detect,
         RunGraph, At, Over
    <3> QED BY <2>4, <3>1 DEF Publishing
  <2>5. CASE UNCHANGED work /\ (OpenDraft(r) \/ PostReviewComment(r) \/ WriteResult(r)
                                \/ WriteDetails(r))
    <3>1. run'[r].at \in {"comment", "result", "details", "release"}
      BY <2>1, <2>5 DEF OpenDraft, PostReviewComment, WriteResult, WriteDetails, Goes, Fails,
         Classified, TypeOK, Invocations
    <3> QED BY <2>1, <2>2, <2>5, <3>1 DEF Publishing
  <2>6. CASE UNCHANGED work /\ (Release(r) \/ SaveAssessment(r) \/ Die(r))
    <3>1. run'[r].at \in {"save"} \cup Over
      BY <2>1, <2>6 DEF Release, SaveAssessment, Die, Leaves, Goes, Exits, TypeOK,
         Invocations, Over
    <3> QED BY <2>1, <2>2, <2>6, <3>1 DEF Publishing
  <2>7. CreateBranch(r) \/ PushBranch(r) \/ UNCHANGED work
    BY <1>3 DEF Step, shared, checkout, Start, LoadAssessment, ValidateHead,
       ValidateTree, ResolveStartCommit, ReadStatus, IsolationRefused, AddWorktree, CheckOut,
       Detect, RunGraph, OpenDraft, PostReviewComment, WriteResult, WriteDetails, Release,
       SaveAssessment, Die
  <2> QED BY <1>3, <2>3, <2>4, <2>5, <2>6, <2>7 DEF Step
<1>4. \A r \in Runs : Publishing(r)'
  BY <1>1, <1>2, <1>3 DEF Next, vars, shared, UserChecksOut, UserEdits, UserDeletesBranch
<1> QED BY <1>4 DEF EachPublishing

LEMMA StepHistories ==
  ASSUME Order, Continuity, EachPublishing, HistoriesExist, [Next]_vars
  PROVE  HistoriesExist'
<1>1. head \in Commits /\ head' \in Commits /\ run \in [Runs -> Invocations]
  BY StepTyped DEF Order, TypeOK
<1>2. Exists(head)'
  <2>1. head' = head \/ UserChecksOut
    BY DEF Next, Step, vars, shared, checkout, Start, LoadAssessment, ValidateHead,
       ValidateTree, ResolveStartCommit, ReadStatus, IsolationRefused, AddWorktree, CheckOut,
       Detect, RunGraph, CreateBranch, PushBranch, OpenDraft, PostReviewComment, WriteResult,
       WriteDetails, Release, SaveAssessment, Die, UserEdits, UserDeletesBranch
  <2>2. PICK c \in Commits : head' = c /\ Exists(c)
    BY <1>1, <2>1 DEF HistoriesExist, UserChecksOut
  <2> QED BY <2>2, ExistsStays DEF Exists
<1>3. ASSUME NEW r \in Runs, run'[r].commit # None PROVE Exists(run'[r].commit)
  <2>1. CASE run'[r].commit = run[r].commit
    BY <1>3, <2>1 DEF HistoriesExist
  <2>2. CASE ResolveStartCommit(r)
    <3>1. run'[r].commit = IF run[r].mode = "apply" THEN run[r].assessment.commit ELSE head
      BY <1>1, <2>2 DEF ResolveStartCommit, Invocations
    <3>2. CASE run[r].mode = "apply"
      <4>1. run[r].assessment # None /\ Continues(r)
        BY <2>2, <3>2 DEF ResolveStartCommit, At, Order, Orderly, Over, Continuity
      <4>2. run[r].assessment \in Assessments
        BY <1>1, <4>1 DEF Invocations
      <4> DEFINE a == run[r].assessment
      <4>3. a.by \in Runs /\ a.commit # None /\ run[a.by].commit = a.commit
        BY <4>1, <4>2, NoneIsApart DEF Continues, AsAssessed, Assessments
      <4> QED BY <3>1, <3>2, <4>3 DEF HistoriesExist
    <3> QED BY <3>1, <3>2 DEF HistoriesExist
  <2>3. run'[r].commit = run[r].commit \/ ResolveStartCommit(r)
    BY OneMoves DEF Order, Next, vars, UserChecksOut, UserEdits, UserDeletesBranch
  <2> QED BY <2>1, <2>2, <2>3
<1>4. ASSUME NEW r \in Runs, run'[r].commit # None PROVE Exists(run[r].commit)'
  <2>1. PICK c \in Commits : run'[r].commit = c
    BY <1>4, StepTyped DEF Order, TypeOK, Invocations
  <2> QED BY <1>3, <1>4, <2>1, ExistsStays DEF Exists
<1> QED BY <1>2, <1>4 DEF HistoriesExist

LEMMA StepPublished ==
  ASSUME Order, EachPublishing, HistoriesExist, TipsArePushed, PublishedStays, [Next]_vars
  PROVE  TipsArePushed' /\ PublishedStays'
<1>1. /\ run \in [Runs -> Invocations] /\ remote \in [Ids -> Runs \cup {None}]
      /\ work \in [Runs -> {"none", "committed", "pushed"}]
      /\ \A r \in Runs : run[r].id \in Ids
  BY DEF Order, TypeOK, Invocations
<1> DEFINE Kept(i, r) == remote'[i] # None /\ (remote'[i] = r \/ r \in Merges[run'[remote'[i]].commit])
<1>2. ASSUME NEW i \in Ids, remote[i] # None
      PROVE  run'[remote[i]].commit = run[remote[i]].commit
  <2>1. remote[i] \in Runs /\ run[remote[i]].commit # None
    BY <1>1, <1>2 DEF TipsArePushed, EachPublishing, Publishing
  <2> QED BY <2>1, CommitStays
<1>3. ASSUME NEW r \in Runs, work[r] # "none" PROVE run'[r].id = run[r].id
  BY <1>3, OneMoves DEF Order, EachPublishing, Publishing, Over, Next, vars, UserChecksOut,
     UserEdits, UserDeletesBranch
<1>4. ASSUME NEW r \in Runs, work[r] = "pushed", remote'[run[r].id] = remote[run[r].id]
      PROVE  Kept(run[r].id, r)
  BY <1>1, <1>2, <1>4 DEF PublishedStays, Holds
<1>5. ASSUME UNCHANGED remote, NEW r \in Runs, work'[r] = "pushed", work[r] = "pushed"
      PROVE  Kept(run'[r].id, r)
  BY <1>3, <1>4, <1>5
<1>6. CASE UNCHANGED remote /\ \A r \in Runs : work'[r] = "pushed" => work[r] = "pushed"
  <2>1. TipsArePushed'
    BY <1>1, <1>6, WorkGrows DEF Order, TipsArePushed
  <2> QED BY <1>5, <1>6, <2>1 DEF PublishedStays, Holds
<1>7. ASSUME NEW p \in Runs, PushBranch(p), Push(run[p].id, p)
      PROVE  TipsArePushed' /\ PublishedStays'
  <2> DEFINE i == run[p].id
  <2>1. /\ i \in Ids /\ remote' = [remote EXCEPT ![i] = p]
        /\ work' = [work EXCEPT ![p] = "pushed"]
        /\ remote[i] # None => remote[i] \in Merges[run[p].commit]
    BY <1>1, <1>7 DEF Push
  <2>2. run[p].at = "push" /\ run[p].commit # None
    BY <1>7 DEF PushBranch, At, Order, Orderly, Fresh, Validation, Over
  <2>3. run'[p].commit = run[p].commit /\ run'[p].id = i
    BY <1>7, <2>2, CommitStays, OneMoves DEF Order, Step
  <2>4. remote'[i] = p /\ p # None
    BY <1>1, <2>1, NoneIsApart
  <2>5. TipsArePushed'
    BY <1>1, <2>1, NoneIsApart DEF TipsArePushed
  <2>6. ASSUME NEW r \in Runs, work'[r] = "pushed" PROVE Kept(run'[r].id, r)
    <3>1. CASE r = p
      BY <2>3, <2>4, <3>1
    <3>2. CASE r # p /\ run[r].id # i
      <4>1. work[r] = "pushed" /\ remote'[run[r].id] = remote[run[r].id]
        BY <1>1, <2>1, <2>6, <3>2
      <4> QED BY <1>3, <1>4, <4>1
    <3>3. CASE r # p /\ run[r].id = i
      <4>1. work[r] = "pushed" /\ run'[r].id = i
        BY <1>1, <1>3, <2>1, <2>6, <3>3
      <4>2. Holds(i, r)
        BY <3>3, <4>1 DEF PublishedStays
      <4>3. remote[i] \in Merges[run[p].commit]
        BY <2>1, <4>2 DEF Holds
      <4>4. Merges[run[remote[i]].commit] \subseteq Merges[run[p].commit]
        BY <2>2, <4>3 DEF HistoriesExist, Exists
      <4>5. r \in Merges[run[p].commit]
        BY <4>2, <4>3, <4>4 DEF Holds
      <4> QED BY <2>3, <2>4, <4>1, <4>5
    <3> QED BY <3>1, <3>2, <3>3
  <2> QED BY <2>5, <2>6 DEF PublishedStays, Holds
<1>8. ASSUME NEW p \in Runs, CreateBranch(p) \/ PushBranch(p)
      PROVE  \/ PushBranch(p) /\ Push(run[p].id, p)
             \/ UNCHANGED remote /\ \A r \in Runs : work'[r] = "pushed" => work[r] = "pushed"
  BY <1>1, <1>8 DEF CreateBranch, PushBranch
<1> QED BY <1>6, <1>7, <1>8, WorkChanges

\* What was pushed under a run branch stays in its history, for any invocations and any
\* commits they start from: a push that is not forced puts at the tip only what contains
\* what was there, and whoever contains that contains all that it contains (git.ts,
\* pushBranch).
THEOREM PublicationHolds == Spec => []PublishedStays
<1> DEFINE Inv == Order /\ Continuity /\ Recording
<1>1. Init => History
  BY InitHistory
<1>2. Inv /\ History /\ [Next]_vars => History'
  BY StepPublishing, StepHistories, StepPublished DEF History
<1>3. History => PublishedStays
  BY DEF History
<1>4. Spec => []Inv
  BY InvariantsHold
<1> QED BY <1>1, <1>2, <1>3, <1>4, PTL DEF Spec

-----------------------------------------------------------------------------
\* What a comment costs: it is posted between the classification and the record.

\* Nothing is classified before the graph is done, and only a requested comment is posted.
Classifying(r) ==
  /\ run[r].classified =>
       run[r].at \in {"comment", "result", "details", "release", "save"} \cup Over
  /\ run[r].at = "comment" => run[r].comment

EachClassifying == \A r \in Runs : Classifying(r)

LEMMA InitClassifying == Init => EachClassifying
<1> SUFFICES ASSUME Init, NEW r \in Runs PROVE Classifying(r)
  BY DEF EachClassifying
<1>1. ~run[r].classified /\ run[r].at = "waiting"
  BY DEF Init
<1> QED BY <1>1 DEF Classifying

LEMMA StepClassifying == TypeOK /\ EachClassifying /\ [Next]_vars => EachClassifying'
<1> SUFFICES ASSUME TypeOK, EachClassifying, [Next]_vars PROVE EachClassifying'
  OBVIOUS
<1>1. ASSUME NEW r \in Runs, run'[r] = run[r] PROVE Classifying(r)'
  BY <1>1 DEF EachClassifying, Classifying
<1>2. ASSUME NEW r \in Runs, Start(r) \/ Step(r) \/ Die(r) PROVE Classifying(r)'
  <2>1. run \in [Runs -> Invocations] /\ run[r] \in Invocations
    BY DEF TypeOK
  <2>2. Classifying(r)
    BY DEF EachClassifying
  <2>3. CASE Start(r)
    <3>1. PICK q \in Requests(r) : run' = [run EXCEPT ![r] =
           [@ EXCEPT !.mode = q.mode, !.id = q.id, !.target = q.target,
                     !.dir = IF q.artifacts = None THEN q.id ELSE q.artifacts,
                     !.draft = q.draft, !.comment = q.comment,
                     !.at = IF q.mode = "apply" THEN "load" ELSE "resolve"]]
      BY <2>3 DEF Start
    <3>2. ~run[r].classified
      BY <2>2, <2>3 DEF Start, At, Classifying, Over
    <3> QED BY <2>1, <3>1, <3>2 DEF Invocations, Classifying
  <2>4. CASE LoadAssessment(r) \/ ValidateHead(r) \/ ValidateTree(r) \/ IsolationRefused(r)
    BY <2>1, <2>2, <2>4 DEF LoadAssessment, ValidateHead, ValidateTree, IsolationRefused,
       Goes, Exits, At, Invocations, Classifying, Over
  <2>5. CASE ResolveStartCommit(r) \/ ReadStatus(r) \/ AddWorktree(r) \/ CheckOut(r)
    BY <2>1, <2>2, <2>5 DEF ResolveStartCommit, ReadStatus, AddWorktree, CheckOut, Goes,
       Exits, At, Invocations, Classifying, Over
  <2>6. CASE Detect(r) \/ PostReviewComment(r) \/ WriteResult(r) \/ WriteDetails(r)
    BY <2>1, <2>2, <2>6 DEF Detect, PostReviewComment, WriteResult, WriteDetails, Goes,
       Fails, At, Invocations, Classifying, Over
  <2>7. CASE RunGraph(r) \/ CreateBranch(r) \/ PushBranch(r) \/ OpenDraft(r)
    BY <2>1, <2>2, <2>7 DEF RunGraph, CreateBranch, PushBranch, OpenDraft, Classified, Goes,
       Fails, At, Invocations, Classifying, Over
  <2>8. CASE Release(r) \/ SaveAssessment(r) \/ Die(r)
    BY <2>1, <2>2, <2>8 DEF Release, SaveAssessment, Die, Leaves, Goes, Exits, At,
       Invocations, Classifying, Over
  <2> QED BY <1>2, <2>3, <2>4, <2>5, <2>6, <2>7, <2>8 DEF Step
<1> QED BY <1>1, <1>2, OneMoves DEF EachClassifying, Next, vars, UserChecksOut, UserEdits,
       UserDeletesBranch

\* The condition under which ClassifiedIsWritten does hold: without a requested comment, a
\* classified run loses its artifacts only to a failure to write them (run.ts, runGraph).
THEOREM UncommentedIsWritten ==
  Spec => [][\A r \in Runs :
               run[r].classified /\ ~run[r].comment /\ ~At(r, "release")
                 /\ Fails(r)
               => At(r, "result") \/ At(r, "details")]_vars
<1>1. TypeOK /\ EachClassifying /\ [Next]_vars =>
        [\A r \in Runs :
           run[r].classified /\ ~run[r].comment /\ ~At(r, "release")
             /\ Fails(r)
           => At(r, "result") \/ At(r, "details")]_vars
  <2> SUFFICES ASSUME TypeOK, EachClassifying, [Next]_vars, NEW r \in Runs,
                      run[r].classified, ~run[r].comment, ~At(r, "release"),
                      Fails(r)
               PROVE  At(r, "result") \/ At(r, "details")
    OBVIOUS
  <2>1. run[r].at \in {"result", "details", "save"} \cup Over
    BY DEF EachClassifying, Classifying, At
  <2>2. run[r] \in Invocations /\ run'[r].at = "release"
    BY DEF Fails, TypeOK, Invocations
  <2>3. run[r].at # "release"
    BY DEF At
  <2>4. Start(r) \/ Step(r) \/ Die(r)
    BY <2>2, <2>3, OneMoves DEF Next, vars, UserChecksOut, UserEdits, UserDeletesBranch
  <2>5. run[r].at \notin Over
    BY <2>4, OneMoves
  <2>6. CASE run[r].at = "save"
    <3>1. SaveAssessment(r) \/ Die(r)
      BY <2>4, <2>6 DEF Start, Step, At, LoadAssessment, ValidateHead, ValidateTree,
         ResolveStartCommit, ReadStatus, IsolationRefused, AddWorktree, CheckOut, Detect,
         RunGraph, CreateBranch, PushBranch, OpenDraft, PostReviewComment, WriteResult,
         WriteDetails, Release
    <3> QED BY <2>2, <3>1 DEF SaveAssessment, Die, Exits, Goes, TypeOK, Invocations
  <2> QED BY <2>1, <2>5, <2>6 DEF At
<1>2. Init => EachClassifying
  BY InitClassifying
<1>3. Spec => []TypeOK
  BY TypeCorrect
<1> QED BY <1>1, <1>2, <1>3, StepClassifying, PTL DEF Spec

-----------------------------------------------------------------------------
\* How far an invocation has got.

Rank ==
  [place \in Places |->
     CASE place = "waiting"  -> 0
       [] place = "load"     -> 1
       [] place = "head"     -> 2
       [] place = "tree"     -> 3
       [] place = "resolve"  -> 4
       [] place = "status"   -> 5
       [] place = "add"      -> 6
       [] place = "checkout" -> 7
       [] place = "detect"   -> 8
       [] place = "graph"    -> 9
       [] place = "branch"   -> 10
       [] place = "push"     -> 11
       [] place = "open"     -> 12
       [] place = "comment"  -> 13
       [] place = "result"   -> 14
       [] place = "details"  -> 15
       [] place = "release"  -> 16
       [] place = "save"     -> 17
       [] OTHER              -> 18]

LEMMA RankOf ==
  /\ Rank["waiting"] = 0 /\ Rank["load"] = 1 /\ Rank["head"] = 2 /\ Rank["tree"] = 3
  /\ Rank["resolve"] = 4 /\ Rank["status"] = 5 /\ Rank["add"] = 6 /\ Rank["checkout"] = 7
  /\ Rank["detect"] = 8 /\ Rank["graph"] = 9 /\ Rank["branch"] = 10 /\ Rank["push"] = 11
  /\ Rank["open"] = 12 /\ Rank["comment"] = 13 /\ Rank["result"] = 14
  /\ Rank["details"] = 15 /\ Rank["release"] = 16 /\ Rank["save"] = 17
  /\ Rank["ended"] = 18 /\ Rank["dead"] = 18
BY PlacesNamed DEF Rank

\* Who is at work gets on with it: an invocation only ever moves forward, so it takes at
\* most eighteen steps, and none at all once it has ended or died; nothing it repeats, no
\* failure and nobody else sends it back (main.ts, run.ts, isolate.ts, storage.ts).
THEOREM InvocationsAdvance ==
  Spec => [][\A r \in Runs : run'[r] # run[r] => Rank[run'[r].at] > Rank[run[r].at]]_vars
<1>1. ASSUME TypeOK, NEW r \in Runs, Start(r) \/ Step(r) \/ Die(r)
      PROVE  Rank[run'[r].at] > Rank[run[r].at]
  <2>1. run \in [Runs -> Invocations] /\ run[r] \in Invocations
    BY <1>1 DEF TypeOK
  <2> USE <2>1 DEF At, Goes, Exits, Fails
  <2>2. CASE Start(r)
    <3>1. PICK q \in Requests(r) : run' = [run EXCEPT ![r] =
           [@ EXCEPT !.mode = q.mode, !.id = q.id, !.target = q.target,
                     !.dir = IF q.artifacts = None THEN q.id ELSE q.artifacts,
                     !.draft = q.draft, !.comment = q.comment,
                     !.at = IF q.mode = "apply" THEN "load" ELSE "resolve"]]
      BY <2>2 DEF Start
    <3>2. run'[r].at \in {"load", "resolve"} /\ run[r].at = "waiting"
      BY <2>2, <3>1 DEF Start, Invocations
    <3> QED BY <3>2, RankOf
  <2>3. CASE LoadAssessment(r) \/ ValidateHead(r) \/ ValidateTree(r) \/ IsolationRefused(r)
    <3>1. \/ run[r].at \in {"load", "head", "tree", "resolve", "status"} /\ run'[r].at = "ended"
          \/ run[r].at = "load" /\ run'[r].at = "head"
          \/ run[r].at = "head" /\ run'[r].at = "tree"
          \/ run[r].at = "tree" /\ run'[r].at = "resolve"
      BY <2>3 DEF LoadAssessment, ValidateHead, ValidateTree, IsolationRefused, Invocations
    <3> QED BY <3>1, RankOf
  <2>4. CASE ResolveStartCommit(r) \/ ReadStatus(r) \/ AddWorktree(r) \/ CheckOut(r)
    <3>1. \/ run[r].at \in {"add", "checkout"} /\ run'[r].at = "ended"
          \/ run[r].at = "resolve" /\ run'[r].at = "status"
          \/ run[r].at = "status" /\ run'[r].at = "add"
          \/ run[r].at = "add" /\ run'[r].at = "checkout"
          \/ run[r].at = "checkout" /\ run'[r].at = "detect"
      BY <2>4 DEF ResolveStartCommit, ReadStatus, AddWorktree, CheckOut, Invocations
    <3> QED BY <3>1, RankOf
  <2>5. CASE Detect(r) \/ PostReviewComment(r) \/ WriteResult(r) \/ WriteDetails(r)
    <3>1. \/ run[r].at \in {"detect", "comment", "result", "details"} /\ run'[r].at = "release"
          \/ run[r].at = "detect" /\ run'[r].at = "graph"
          \/ run[r].at = "comment" /\ run'[r].at = "result"
          \/ run[r].at = "result" /\ run'[r].at = "details"
      BY <2>5 DEF Detect, PostReviewComment, WriteResult, WriteDetails, Invocations
    <3> QED BY <3>1, RankOf
  <2>6. CASE RunGraph(r) \/ CreateBranch(r) \/ PushBranch(r) \/ OpenDraft(r)
    <3>1. \/ /\ run[r].at \in {"graph", "branch", "push", "open"}
             /\ run'[r].at \in {"comment", "result", "release"}
          \/ run[r].at = "graph" /\ run'[r].at = "branch"
          \/ run[r].at = "branch" /\ run'[r].at = "push"
          \/ run[r].at = "push" /\ run'[r].at = "open"
      BY <2>6 DEF RunGraph, CreateBranch, PushBranch, OpenDraft, Classified, Invocations
    <3> QED BY <3>1, RankOf
  <2>7. CASE Release(r) \/ SaveAssessment(r)
    <3>1. \/ run[r].at \in {"release", "save"} /\ run'[r].at = "ended"
          \/ run[r].at = "release" /\ run'[r].at = "save"
      BY <2>7 DEF Release, SaveAssessment, Leaves, Invocations
    <3> QED BY <3>1, RankOf
  <2>8. CASE Die(r)
    <3>1. run'[r].at = "dead" /\ run[r].at \in Places \ Over
      BY <2>8 DEF Die, Invocations
    <3>2. run[r].at \in {"waiting", "load", "head", "tree", "resolve", "status", "add",
                        "checkout", "detect", "graph", "branch", "push", "open", "comment",
                        "result", "details", "release", "save"}
      BY <3>1 DEF Places, Over, Validation, SetUp, Working, Publication
    <3> QED BY <3>1, <3>2, RankOf
  <2> QED BY <1>1, <2>2, <2>3, <2>4, <2>5, <2>6, <2>7, <2>8 DEF Step
<1>2. TypeOK /\ [Next]_vars =>
        [\A r \in Runs : run'[r] # run[r] => Rank[run'[r].at] > Rank[run[r].at]]_vars
  BY <1>1, OneMoves DEF Next, vars, UserChecksOut, UserEdits, UserDeletesBranch
<1> QED BY <1>2, TypeCorrect, PTL DEF Spec
=============================================================================
