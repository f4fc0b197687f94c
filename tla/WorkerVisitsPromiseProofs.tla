---------------------- MODULE WorkerVisitsPromiseProofs ----------------------
(***************************************************************************)
(* The workers keep the promise the graph relies on: seen from between the *)
(* visits, every behaviour of WorkerVisits is one of VisitPromise.  It     *)
(* rests on an account of the worktree and the remote at each call of a    *)
(* visit, on top of the invariants of WorkerVisitsProofs.                  *)
(***************************************************************************)
EXTENDS WorkerVisitsProofs

-----------------------------------------------------------------------------
\* The account, part by part.

SamePackage ==
  /\ tree.moved = before.tree.moved /\ tree.converted = before.tree.converted
  /\ tree.manifest = before.tree.manifest

\* Until the run stops, the package is as the channels have it.
PackageIsRecorded ==
  ~halted => PackageOf(Settled.tree) = IF "implement" \in recorded THEN "whole" ELSE "untouched"

OnlyTheImplementerMoves == Open /\ visit.phase # "implement" => SamePackage

ConversionAdvances ==
  visit.phase = "implement" =>
    /\ visit.at = "rewrite" => tree.converted \cup visit.todo = Sources
    /\ visit.at = "return" => tree.converted = Sources /\ (options.esm => tree.manifest = "module")

PassFollowsTheMove ==
  verdict = "passed" \/ visit.phase \in {"verify", "publish_draft"} => "implement" \in recorded

OnlyThePublisherDelivers ==
  Open =>
    /\ "publish_draft" \notin recorded /\ before.remote = {}
    /\ visit.phase # "publish_draft" => remote = {}
    /\ visit.phase = "publish_draft" /\ visit.at \in {"draft", "return"} => "push" \in remote

Settling == PackageIsRecorded /\ OnlyTheImplementerMoves /\ PassFollowsTheMove
              /\ OnlyThePublisherDelivers

Account == Migration /\ ConversionAdvances /\ Settling

-----------------------------------------------------------------------------
\* What a step of an open visit may do, seen from outside.

LEMMA StepsAreOpen ==
  ASSUME Footing, Step
  PROVE  /\ visit.at \in Calls \cup {"return"}
         /\ visit.phase \in WorkerPhases /\ Open /\ ~halted
         /\ UNCHANGED <<options, before>>
<1>1. visit.at \in Calls \cup {"return"} /\ UNCHANGED <<options, before>>
  BY DEF Step, Denied, ToolFails, Survey, Reread, Return, RunChecks, InstallFails, Judge, AuthorTest,
         WriteWorkflow, RequestElevation, BeginConversion, PlanConversions, MoveDependency,
         MoveFails, RewriteSource, SetModuleType, PublishStep, AfterPublishing, Calling, At,
         Calls, Needs
<1>2. QED BY <1>1, OpenVisit, WorkersAreKnown DEF Open

\* Only the implementer touches the package, only the publisher the remote.
LEMMA StepsKeepToTheirPart ==
  ASSUME Footing, Step
  PROVE  /\ visit.phase # "implement" =>
               /\ tree'.moved = tree.moved /\ tree'.converted = tree.converted
               /\ tree'.manifest = tree.manifest
         /\ visit.phase # "publish_draft" => remote' = remote
<1>1. visit.at \in Calls \cup {"return"}
  BY StepsAreOpen
<1>2. CASE Denied \/ Survey \/ Reread \/ Return \/ RunChecks \/ InstallFails \/ Judge
             \/ RequestElevation \/ BeginConversion \/ PlanConversions
  BY <1>2 DEF Denied, Survey, Reread, Return, RunChecks, InstallFails, Judge, RequestElevation,
              BeginConversion, PlanConversions
<1>3. CASE ToolFails \/ PublishStep
  BY <1>1, <1>3, CallsBelong DEF ToolFails, PublishStep, Delivered, PublishingCalls, AfterPublishing
<1>4. CASE (\E f \in Tests : AuthorTest(f)) \/ WriteWorkflow
  BY <1>4 DEF AuthorTest, WriteWorkflow, WriteTestFile, WriteCiFile, Footing, WorldTyped
<1>5. CASE \E t \in Targets : MoveDependency(t) \/ MoveFails(t)
  BY <1>1, <1>5, CallsBelong DEF MoveDependency, MoveFails, Calling, At
<1>6. CASE (\E f \in Sources : RewriteSource(f)) \/ SetModuleType
  BY <1>1, <1>6, CallsBelong DEF RewriteSource, SetModuleType, Calling, At
<1>7. QED BY <1>2, <1>3, <1>4, <1>5, <1>6 DEF Step

\* A step either goes on with the visit or ends it in one of three ways.
GoesOn == visit'.phase = visit.phase /\ UNCHANGED <<requested, recorded, halted, verdict>>
EndsStopped == visit' = Closed /\ halted' /\ recorded' = recorded
EndsAsBefore ==
  /\ visit' = Closed /\ ~halted' /\ recorded' = recorded /\ UNCHANGED <<tree, remote>>
  /\ \/ visit.phase = "implement" /\ tree = before.tree
     \/ visit.phase = "verify"
EndsRecorded == visit' = Closed /\ ~halted' /\ Return

LEMMA StepsGoOnOrEnd ==
  ASSUME Footing, Step
  PROVE  /\ GoesOn \/ EndsStopped \/ EndsAsBefore \/ EndsRecorded
         /\ verdict' = "passed" => verdict = "passed" \/ visit.phase = "verify"
<1>1. /\ visit.at \in Calls \cup {"return"} /\ visit \in Visits /\ ~halted
      /\ visit.phase \in WorkerPhases
  BY StepsAreOpen, OpenVisit
<1>2. CASE Denied \/ ToolFails \/ InstallFails \/ \E t \in Targets : MoveFails(t)
  BY <1>2 DEF Denied, ToolFails, InstallFails, MoveFails, Throws, Blocks, EndsStopped
<1>3. ASSUME NEW c, Go(c), UNCHANGED channels PROVE GoesOn /\ verdict' = verdict
  BY <1>1, <1>3 DEF Go, Visits, GoesOn, channels
<1>4. CASE Survey \/ Reread \/ RunChecks \/ BeginConversion
  BY <1>3, <1>4 DEF Survey, Reread, RunChecks, BeginConversion
<1>5. CASE (\E f \in Tests : AuthorTest(f)) \/ WriteWorkflow \/ SetModuleType \/ PublishStep
  BY <1>3, <1>5 DEF AuthorTest, WriteWorkflow, SetModuleType, PublishStep
<1>6. CASE \E t \in Targets : MoveDependency(t)
  BY <1>1, <1>6 DEF MoveDependency, Visits, GoesOn, channels
<1>7. CASE \E f \in Sources : RewriteSource(f)
  BY <1>1, <1>7 DEF RewriteSource, Visits, GoesOn, channels
<1>8. CASE PlanConversions
  BY <1>1, <1>8 DEF PlanConversions, Visits, GoesOn, channels, Blocks, EndsStopped
<1>9. CASE Return
  BY <1>1, <1>9 DEF Return, Returns, EndsRecorded
<1>10. CASE Judge
  <2>1. visit.phase = "verify" /\ UNCHANGED <<tree, remote>>
    BY <1>1, <1>10, CallsBelong DEF Judge, Calling, At, Calls, Needs
  <2>2. QED BY <1>1, <1>10, <2>1 DEF Judge, Returns, Blocks, EndsAsBefore, EndsStopped
<1>11. CASE RequestElevation
  <2>1. /\ visit.phase = "implement" /\ tree = before.tree
        /\ UNCHANGED <<verdict, tree, remote>>
    BY <1>1, <1>11, CallsBelong
    DEF RequestElevation, Calling, At, Calls, Needs, Footing, ApprovalFits, channels
  <2>2. visit' = Session("implement", 2, TRUE) => visit'.phase = "implement"
    BY DEF Session
  <2>3. CASE Retries
    BY <1>11, <2>1, <2>2, <2>3 DEF RequestElevation, GoesOn, channels
  <2>4. CASE ~Retries
    BY <1>1, <1>11, <2>1, <2>4 DEF RequestElevation, Returns, EndsAsBefore
  <2>5. QED BY <2>3, <2>4
<1>12. QED
  BY <1>2, <1>4, <1>5, <1>6, <1>7, <1>8, <1>9, <1>10, <1>11 DEF Step

-----------------------------------------------------------------------------
\* The account is inductive.

\* What the publication has left on the remote at each of its calls.
LEMMA PublicationAdvances ==
  ASSUME Footing, OnlyThePublisherDelivers, Step, visit.phase = "publish_draft", visit' # Closed,
         visit'.at \in {"draft", "return"}
  PROVE  "push" \in remote'
<1>1. visit.at \in {"status", "branch", "commit", "push", "draft", "return"} /\ visit \in Visits
  BY StepsAreOpen, OpenVisit DEF CallsOf
<1>2. visit.at # "return"
  BY <1>1 DEF Step, Denied, ToolFails, Survey, Reread, Return, RunChecks, InstallFails, Judge,
              AuthorTest, WriteWorkflow, RequestElevation, BeginConversion, PlanConversions,
              MoveDependency, MoveFails, RewriteSource, SetModuleType, PublishStep,
              AfterPublishing, Calling, At, Calls, Needs, Returns
<1>3. PublishStep
  BY <1>1, <1>2 DEF Step, Denied, ToolFails, Survey, Reread, Return, RunChecks, InstallFails, Judge,
              AuthorTest, WriteWorkflow, RequestElevation, BeginConversion, PlanConversions,
              MoveDependency, MoveFails, RewriteSource, SetModuleType, Calling, At, Throws
<1>4. visit.at \in {"push", "draft"}
  BY <1>1, <1>3 DEF PublishStep, AfterPublishing, Go, Visits
<1>5. visit.at = "draft" => "push" \in remote
  BY <1>1 DEF OnlyThePublisherDelivers, Open
<1>6. QED BY <1>3, <1>4, <1>5 DEF PublishStep, Delivered, PublishingCalls

\* How far the conversion has come at each call of the implementer.
LEMMA ConversionNext ==
  ASSUME Migration, ConversionAdvances, Cardinality(Sources) <= MaxConvertedFiles, [Next]_vars
  PROVE  ConversionAdvances'
<1> SUFFICES ASSUME visit'.phase = "implement", visit'.at \in {"rewrite", "return"}
             PROVE  /\ visit'.at = "rewrite" => tree'.converted \cup visit'.todo = Sources
                    /\ visit'.at = "return" => /\ tree'.converted = Sources
                                               /\ options'.esm => tree'.manifest = "module"
  BY DEF ConversionAdvances
<1>1. /\ Footing /\ Footing' /\ options.esm \in BOOLEAN
      /\ tree.converted \subseteq Sources /\ tree'.converted \subseteq Sources
  BY FootingNext, OptionsAssumption DEF Migration, Footing, WorldTyped, Options
<1>2. CASE Tick \/ UNCHANGED vars
  BY <1>2 DEF Tick, vars, ConversionAdvances
<1>3. ASSUME NEW p \in WorkerPhases, StartVisit(p) \/ StartFails(p) PROVE FALSE
  BY <1>3 DEF StartVisit, StartFails, Throws, Closed, Session, Opening
<1>4. CASE Step
  <2>1. visit.phase = "implement" /\ GoesOn /\ visit \in Visits
    BY <1>1, <1>4, StepsGoOnOrEnd, StepsAreOpen, OpenVisit
    DEF EndsStopped, EndsAsBefore, EndsRecorded, GoesOn, Closed
  <2>2. visit.at \in {"read", "plan", "move", "rewrite", "manifest", "return"}
    BY <1>1, <1>4, <2>1, StepsAreOpen, OpenVisit DEF CallsOf
  <2>3. /\ ~Denied /\ ~ToolFails /\ ~Return /\ ~InstallFails /\ ~Judge
        /\ \A t \in Targets : ~MoveFails(t)
    BY <2>1 DEF Denied, ToolFails, Return, InstallFails, Judge, MoveFails, Throws, Returns, Blocks,
                Closed, GoesOn
  <2>4. /\ ~Survey /\ ~Reread /\ ~RunChecks /\ ~WriteWorkflow /\ ~PublishStep
        /\ \A f \in Tests : ~AuthorTest(f)
    BY <2>2 DEF Survey, Reread, RunChecks, WriteWorkflow, PublishStep, AfterPublishing, AuthorTest,
                Calling, At
  <2>5. ~BeginConversion /\ ~PlanConversions
    <3>1. BeginConversion => visit'.at = "plan"
      BY <2>1 DEF BeginConversion, Go, Visits
    <3>2. PlanConversions => visit'.at = "move" \/ visit' = Closed
      BY <2>1 DEF PlanConversions, Visits, Blocks
    <3>3. QED BY <3>1, <3>2 DEF Closed
  <2>6. ~RequestElevation
    <3>1. options.esm => Session("implement", 2, TRUE).at = "read"
      BY DEF Session, Opening
    <3>2. RequestElevation => options.esm
      BY <2>1, <1>1 DEF RequestElevation, Calling, At, Footing, MoveFits
    <3>3. Closed.at = "closed"
      BY DEF Closed
    <3>4. RequestElevation => visit' = Session("implement", 2, TRUE) \/ visit' = Closed
      BY <2>1 DEF RequestElevation, Returns
    <3>5. RequestElevation => visit'.at = "read" \/ visit'.at = "closed"
      BY <3>1, <3>2, <3>3, <3>4, Zenon
    <3>6. QED BY <3>5
  <2>7. ASSUME NEW t \in Targets, MoveDependency(t)
        PROVE  /\ visit'.at = "rewrite" => tree'.converted \cup visit'.todo = Sources
               /\ visit'.at = "return" => /\ tree'.converted = Sources
                                          /\ options'.esm => tree'.manifest = "module"
    <3> DEFINE todo == IF options.esm THEN visit.todo ELSE Sources
    <3>1. /\ visit.at = "move" /\ visit'.todo = todo /\ visit'.at \in {AfterWrite(todo), "move"}
          /\ options' = options
      BY <2>1, <2>7 DEF MoveDependency, Calling, At, Visits
    <3>2. tree'.converted = tree.converted
      BY <2>7, <1>1 DEF MoveDependency, UpdateDependency, Footing, WorldTyped
    <3>3. tree'.converted \cup visit'.todo = Sources
      BY <3>1, <3>2, <1>1 DEF Migration, Progress
    <3>4. visit'.at = "return" => ~options.esm /\ todo = {}
      BY <3>1 DEF AfterWrite
    <3>5. QED BY <3>1, <3>3, <3>4
  <2>8. ASSUME NEW f \in Sources, RewriteSource(f)
        PROVE  /\ visit'.at = "rewrite" => tree'.converted \cup visit'.todo = Sources
               /\ visit'.at = "return" => /\ tree'.converted = Sources
                                          /\ options'.esm => tree'.manifest = "module"
    <3> DEFINE todo == visit.todo \ {f}
    <3>1. /\ visit.at = "rewrite" /\ visit'.todo = todo /\ visit'.at = AfterWrite(todo)
          /\ options' = options
      BY <2>1, <2>8 DEF RewriteSource, Calling, At, Visits
    <3>2. tree'.converted = tree.converted \cup {f}
      BY <2>8, <1>1 DEF RewriteSource, WriteSourceFile, Footing, WorldTyped
    <3>3. tree'.converted \cup visit'.todo = Sources
      BY <2>1, <3>1, <3>2 DEF ConversionAdvances
    <3>4. visit'.at = "return" => ~options.esm /\ todo = {}
      BY <3>1 DEF AfterWrite
    <3>5. QED BY <3>1, <3>3, <3>4
  <2>9. CASE SetModuleType
    <3>1. visit.at = "manifest" /\ visit'.at = "return"
      BY <2>1, <2>9 DEF SetModuleType, Calling, At, Go, Visits
    <3>2. tree'.converted = tree.converted /\ tree'.manifest = "module"
      BY <2>9, <1>1 DEF SetModuleType, UpdateManifestField, Footing, WorldTyped
    <3>3. QED BY <3>1, <3>2 DEF Migration, Progress
  <2>10. QED BY <1>4, <2>3, <2>4, <2>5, <2>6, <2>7, <2>8, <2>9 DEF Step
<1>5. QED BY <1>2, <1>3, <1>4 DEF Next

LEMMA AccountInit == Init => Account
<1>1. Init => Migration
  BY FootingInit DEF Init, Migration, Progress, EveryFileMoves, Closed, Pristine
<1>2. Init => ConversionAdvances /\ Settling
  BY DEF Init, ConversionAdvances, Settling, PackageIsRecorded, OnlyTheImplementerMoves,
         PassFollowsTheMove, OnlyThePublisherDelivers, Open, Settled, PackageOf, Closed, Pristine
<1>3. QED BY <1>1, <1>2 DEF Account

\* While a visit goes on nothing is settled; what a visit of another worker than the
\* implementer leaves is the package it found.
LEMMA VisitSettles ==
  ASSUME Account, Step
  PROVE  /\ Settled = before
         /\ GoesOn => Open' /\ Settled' = before
         /\ ~Open' => Settled' = [tree |-> tree', remote |-> remote']
         /\ visit.phase # "implement" => /\ "implement" \in recorded <=> PackageOf(before.tree) = "whole"
                                         /\ PackageOf(tree)' = PackageOf(before.tree)
         /\ visit.phase = "implement" => /\ "implement" \notin recorded
                                         /\ PackageOf(before.tree) = "untouched"
<1>1. Open /\ ~halted /\ UNCHANGED <<options, before>> /\ Footing
  BY StepsAreOpen DEF Account, Migration
<1>2. PackageOf(before.tree) = IF "implement" \in recorded THEN "whole" ELSE "untouched"
  BY <1>1 DEF Account, Settling, PackageIsRecorded, Settled
<1>3. ASSUME visit.phase # "implement" PROVE PackageOf(tree)' = PackageOf(before.tree)
  BY <1>1, <1>3, StepsKeepToTheirPart
  DEF Account, Settling, OnlyTheImplementerMoves, SamePackage, PackageOf
<1>4. visit.phase = "implement" => "implement" \notin recorded
  BY <1>1 DEF Footing, MoveFits
<1>5. GoesOn => Open' /\ Settled' = before
  BY <1>1 DEF GoesOn, Open, Settled
<1>6. QED BY <1>1, <1>2, <1>3, <1>4, <1>5 DEF Settled

\* The implementer returns only with the whole migration made.
LEMMA ImplementerReturnsWhole ==
  ASSUME Account, Return, visit.phase = "implement"
  PROVE  PackageOf(tree)' = "whole"
<1>1. visit.at = "return" /\ UNCHANGED <<options, tree>>
  BY DEF Return, At
<1>2. /\ tree.moved = Targets /\ tree.converted = Sources
      /\ options.esm => tree.manifest = "module"
  BY <1>1 DEF Account, Migration, Footing, MoveFits, ConversionAdvances
<1>3. PackageOf(tree) = "whole"
  <2>1. tree.moved # {}
    BY <1>2, FilesAssumption
  <2>2. QED BY <1>2, <2>1 DEF PackageOf
<1>4. QED BY <1>1, <1>3 DEF PackageOf

LEMMA SettlingNext ==
  ASSUME Account, [Next]_vars
  PROVE  Settling'
<1>1. Footing /\ Settling
  BY DEF Account, Migration
<1>2. CASE Tick \/ UNCHANGED vars
  BY <1>1, <1>2 DEF Tick, vars, channels, Settling, PackageIsRecorded, OnlyTheImplementerMoves,
     PassFollowsTheMove, OnlyThePublisherDelivers, Open, Settled, PackageOf, SamePackage
<1>3. ASSUME NEW p \in WorkerPhases, StartVisit(p) PROVE Settling'
  <2>1. /\ ~Open /\ ~halted /\ "publish_draft" \notin recorded
        /\ visit'.phase = p /\ visit'.at = Opening(p)
        /\ before' = [tree |-> tree, remote |-> remote]
        /\ UNCHANGED <<options, channels, tree, remote>>
    BY <1>3 DEF StartVisit, Offered, Session
  <2>2. Open' /\ Settled' = Settled
    BY <2>1, WorkersAreKnown DEF Open, Settled
  <2>3. PackageIsRecorded'
    BY <1>1, <2>1, <2>2 DEF Settling, PackageIsRecorded, PackageOf, channels
  <2>4. OnlyTheImplementerMoves'
    BY <2>1 DEF OnlyTheImplementerMoves, SamePackage
  <2>5. PassFollowsTheMove'
    BY <1>1, <1>3, <2>1 DEF StartVisit, Offered, Settling, PassFollowsTheMove, channels
  <2>6. OnlyThePublisherDelivers'
    <3>1. remote = {}
      BY <1>1, <2>1 DEF Footing, WritesFit, Open
    <3>2. p = "publish_draft" => visit'.at = "status"
      BY <2>1 DEF Opening
    <3>3. QED BY <2>1, <3>1, <3>2 DEF OnlyThePublisherDelivers, channels
  <2>7. QED BY <2>3, <2>4, <2>5, <2>6 DEF Settling
<1>4. ASSUME NEW p \in WorkerPhases, StartFails(p) PROVE Settling'
  BY <1>1, <1>4 DEF StartFails, Throws, Closed, Settling, PackageIsRecorded, OnlyTheImplementerMoves,
     PassFollowsTheMove, OnlyThePublisherDelivers, Open
<1>5. CASE Step
  <2>1. GoesOn \/ EndsStopped \/ EndsAsBefore \/ EndsRecorded
    BY <1>1, <1>5, StepsGoOnOrEnd
  <2>2. Open /\ ~halted /\ UNCHANGED <<options, before>>
    BY <1>1, <1>5, StepsAreOpen
  <2>3. GoesOn \/ ~Open'
    BY <2>1 DEF EndsStopped, EndsAsBefore, EndsRecorded, Open, Closed
  <2>4. PackageIsRecorded'
    <3>1. CASE GoesOn
      BY <1>1, <1>5, <2>2, <3>1, VisitSettles
      DEF GoesOn, Settling, PackageIsRecorded, PackageOf
    <3>2. CASE EndsStopped
      BY <3>2 DEF EndsStopped, PackageIsRecorded
    <3>3. CASE EndsAsBefore /\ visit.phase = "implement"
      <4>1. tree' = before.tree /\ recorded' = recorded /\ ~Open'
        BY <3>3 DEF EndsAsBefore, Open, Closed
      <4>2. PackageOf(Settled.tree)' = PackageOf(before.tree)
        BY <1>5, <2>2, <4>1, VisitSettles DEF PackageOf
      <4>3. QED BY <1>5, <3>3, <4>1, <4>2, VisitSettles DEF PackageIsRecorded
    <3>4. CASE (EndsAsBefore \/ EndsRecorded) /\ visit.phase # "implement"
      <4>1. ("implement" \in recorded' <=> "implement" \in recorded) /\ ~Open'
        BY <3>4 DEF EndsAsBefore, EndsRecorded, Return, Returns, Open, Closed
      <4>2. PackageOf(Settled.tree)' = PackageOf(before.tree)
        BY <1>5, <3>4, <4>1, VisitSettles DEF PackageOf
      <4>3. PackageOf(before.tree) = IF "implement" \in recorded THEN "whole" ELSE "untouched"
        BY <1>1, <2>2 DEF Settling, PackageIsRecorded, Settled
      <4>4. QED BY <4>1, <4>2, <4>3 DEF PackageIsRecorded
    <3>5. CASE EndsRecorded /\ visit.phase = "implement"
      <4>1. "implement" \in recorded' /\ ~Open'
        BY <3>5 DEF EndsRecorded, Return, Returns, Open, Closed
      <4>2. PackageOf(Settled.tree)' = "whole"
        BY <1>5, <3>5, <4>1, VisitSettles, ImplementerReturnsWhole DEF EndsRecorded, PackageOf
      <4>3. QED BY <4>1, <4>2 DEF PackageIsRecorded
    <3>6. QED BY <2>1, <3>1, <3>2, <3>3, <3>4, <3>5
  <2>5. OnlyTheImplementerMoves'
    <3>1. CASE GoesOn
      BY <1>1, <1>5, <2>2, <3>1, StepsKeepToTheirPart
      DEF GoesOn, Settling, OnlyTheImplementerMoves, SamePackage
    <3>2. QED BY <2>3, <3>1 DEF OnlyTheImplementerMoves
  <2>6. PassFollowsTheMove'
    <3>1. verdict' = "passed" => verdict = "passed" \/ visit.phase = "verify"
      BY <1>1, <1>5, StepsGoOnOrEnd
    <3>2. visit'.phase = visit.phase \/ visit'.phase = "none"
      BY <2>1 DEF GoesOn, EndsStopped, EndsAsBefore, EndsRecorded, Closed
    <3>3. "implement" \in recorded => "implement" \in recorded'
      BY <2>1 DEF GoesOn, EndsStopped, EndsAsBefore, EndsRecorded, Return, Returns
    <3>4. QED BY <1>1, <3>1, <3>2, <3>3 DEF Settling, PassFollowsTheMove
  <2>7. OnlyThePublisherDelivers'
    <3>1. CASE GoesOn
      <4>1. visit'.phase = visit.phase /\ recorded' = recorded /\ before' = before
        BY <2>2, <3>1 DEF GoesOn
      <4>2. visit.phase # "publish_draft" => remote' = {}
        BY <1>1, <1>5, <2>2, StepsKeepToTheirPart DEF Settling, OnlyThePublisherDelivers
      <4>3. visit.phase = "publish_draft" /\ visit'.at \in {"draft", "return"} => "push" \in remote'
        <5>1. visit.phase = "publish_draft" => visit' # Closed
          BY <4>1 DEF Closed
        <5>2. QED BY <1>1, <1>5, <5>1, PublicationAdvances DEF Settling
      <4>4. "publish_draft" \notin recorded /\ before.remote = {}
        BY <1>1, <2>2 DEF Settling, OnlyThePublisherDelivers
      <4>5. QED BY <4>1, <4>2, <4>3, <4>4 DEF OnlyThePublisherDelivers
    <3>2. QED BY <2>3, <3>1 DEF OnlyThePublisherDelivers
  <2>8. QED BY <2>4, <2>5, <2>6, <2>7 DEF Settling
<1>6. QED BY <1>2, <1>3, <1>4, <1>5 DEF Next

LEMMA AccountHolds ==
  ASSUME Cardinality(Sources) <= MaxConvertedFiles
  PROVE  Spec => []Account
<1>1. Account /\ [Next]_vars => Account'
  BY FootingNext, MigrationNext, ConversionNext, SettlingNext DEF Account, Migration
<1>2. QED BY AccountInit, <1>1, PTL DEF Spec

-----------------------------------------------------------------------------
\* Every step is one of the promise, or none.

Package == PackageOf(Settled.tree)
Published ==
  IF Settled.remote \cap {"push", "draft"} = {} THEN "none"
  ELSE IF "publish_draft" \in recorded THEN "open" ELSE "left"
Stutters == UNCHANGED <<Package, halted, Published>>

LEMMA PromiseUnfolds ==
  /\ Promise!Init <=> Package = "untouched" /\ halted = FALSE /\ Published = "none"
  /\ Stutters <=> UNCHANGED Promise!vars
BY DEF Promise!Init, Promise!vars, Package, Published, Stutters

\* A visit that stops the run leaves at most one thing half done, and it is the one the
\* worker was sent to do.
LEMMA StoppedVisitAbandons ==
  ASSUME Account, Step, EndsStopped, halted' \in BOOLEAN
  PROVE  Promise!Abandon
<1>1. /\ Settled = before /\ Settled' = [tree |-> tree', remote |-> remote']
      /\ ~halted /\ halted' /\ recorded' = recorded /\ UNCHANGED options /\ Footing
      /\ halted \in BOOLEAN /\ Open
  BY VisitSettles, StepsAreOpen
  DEF EndsStopped, Open, Closed, Account, Migration, Footing, ChannelsTyped
<1>2. Package' = PackageOf(tree)' /\ Package = PackageOf(before.tree)
  BY <1>1 DEF Package, PackageOf
<1>3. /\ Published = "none" /\ Published' \in {"none", "left"}
      /\ visit.phase # "publish_draft" => Published' = "none"
  <2>1. before.remote = {} /\ "publish_draft" \notin recorded'
    BY <1>1 DEF Account, Settling, OnlyThePublisherDelivers
  <2>2. visit.phase # "publish_draft" => remote' = {}
    BY <1>1, StepsKeepToTheirPart DEF Account, Settling, OnlyThePublisherDelivers
  <2>3. QED BY <1>1, <2>1, <2>2 DEF Published
<1>4. CASE visit.phase = "implement"
  <2>1. Package = "untouched" /\ Package' \in {"untouched", "partial", "whole"}
    BY <1>2, <1>4, VisitSettles DEF PackageOf
  <2>2. Published' = Published
    BY <1>3, <1>4
  <2>3. QED BY <1>1, <2>1, <2>2 DEF Promise!Abandon, Package, Published
<1>5. CASE visit.phase = "publish_draft"
  <2>1. Package = "whole" /\ Package' = Package
    BY <1>2, <1>5, VisitSettles DEF Account, Settling, PassFollowsTheMove
  <2>2. QED BY <1>1, <1>3, <2>1 DEF Promise!Abandon, Package, Published
<1>6. CASE visit.phase \notin {"implement", "publish_draft"}
  <2>1. Package' = Package /\ Published' = Published
    BY <1>2, <1>3, <1>6, VisitSettles
  <2>2. QED BY <1>1, <2>1 DEF Promise!Abandon, Package, Published
<1>7. QED BY <1>4, <1>5, <1>6

LEMMA RecordedVisitKeepsPromise ==
  ASSUME Account, EndsRecorded, halted' \in BOOLEAN
  PROVE  Promise!Migrate \/ Promise!Publish \/ Stutters
<1> USE DEF EndsRecorded
<1>1. Step
  BY DEF Step
<1>2. /\ Settled = before /\ Settled' = [tree |-> tree', remote |-> remote'] /\ Open
      /\ ~halted /\ ~halted' /\ halted \in BOOLEAN /\ UNCHANGED <<options, tree, remote>>
      /\ recorded' = recorded \cup {visit.phase} /\ visit.at = "return"
  BY <1>1, VisitSettles, StepsAreOpen
  DEF Open, Closed, Account, Migration, Footing, ChannelsTyped, Return, Returns, At
<1>3. Package' = PackageOf(tree)' /\ Package = PackageOf(before.tree)
  BY <1>2 DEF Package, PackageOf
<1>4. /\ before.remote = {} /\ "publish_draft" \notin recorded
      /\ visit.phase # "publish_draft" => remote = {}
      /\ visit.phase = "publish_draft" => "push" \in remote
  BY <1>2 DEF Account, Settling, OnlyThePublisherDelivers
<1>5. Published = "none" /\ (visit.phase # "publish_draft" => Published' = "none")
  BY <1>2, <1>4 DEF Published
<1>6. CASE visit.phase = "implement"
  <2>1. Package = "untouched" /\ Package' = "whole"
    BY <1>1, <1>3, <1>6, VisitSettles, ImplementerReturnsWhole
  <2>2. QED BY <1>2, <1>5, <1>6, <2>1 DEF Promise!Migrate, Package, Published
<1>7. CASE visit.phase = "publish_draft"
  <2>1. Package = "whole" /\ Package' = Package
    BY <1>1, <1>3, <1>7, VisitSettles DEF Account, Settling, PassFollowsTheMove
  <2>2. Published' = "open"
    BY <1>2, <1>4, <1>7 DEF Published
  <2>3. QED BY <1>2, <1>5, <2>1, <2>2 DEF Promise!Publish, Package, Published
<1>8. CASE visit.phase \notin {"implement", "publish_draft"}
  BY <1>1, <1>2, <1>3, <1>5, <1>8, VisitSettles DEF Stutters
<1>9. QED BY <1>6, <1>7, <1>8

LEMMA StepKeepsPromise ==
  ASSUME Account, Account', [Next]_vars
  PROVE  [Promise!Next]_(Promise!vars)
<1>1. /\ halted \in BOOLEAN /\ halted' \in BOOLEAN /\ Footing
  BY DEF Account, Migration, Footing, ChannelsTyped
<1>2. CASE Tick \/ UNCHANGED vars
  <2>1. Stutters
    BY <1>2 DEF Tick, vars, channels, Stutters, Package, Published, PackageOf, Settled, Open
  <2>2. QED BY <2>1, PromiseUnfolds
<1>3. ASSUME NEW p \in WorkerPhases, StartVisit(p) PROVE Stutters
  <2>1. ~Open /\ Open' /\ before' = [tree |-> tree, remote |-> remote]
        /\ UNCHANGED <<options, channels>>
    BY <1>3, WorkersAreKnown DEF StartVisit, Offered, Session, Open
  <2>2. Settled' = Settled
    BY <2>1 DEF Settled
  <2>3. QED BY <2>1, <2>2 DEF Stutters, Package, Published, PackageOf, channels
<1>4. ASSUME NEW p \in WorkerPhases, StartFails(p) PROVE Promise!Abandon
  <2>1. /\ ~halted /\ halted' /\ ~Open /\ ~Open' /\ recorded' = recorded
        /\ UNCHANGED <<options, tree, remote>>
    BY <1>4 DEF StartFails, Offered, Throws, Open, Closed
  <2>2. Package' = Package /\ Published' = Published
    BY <2>1 DEF Package, Published, PackageOf, Settled
  <2>3. QED BY <1>1, <2>1, <2>2 DEF Promise!Abandon, Package, Published
<1>5. CASE Step
  <2>1. CASE GoesOn
    <3>1. Settled' = Settled /\ recorded' = recorded /\ halted' = halted /\ options' = options
      BY <1>1, <1>5, <2>1, VisitSettles, StepsAreOpen DEF GoesOn
    <3>2. Stutters
      BY <3>1 DEF Stutters, Package, Published, PackageOf
    <3>3. QED BY <3>2, PromiseUnfolds
  <2>2. CASE EndsStopped
    BY <1>1, <1>5, <2>2, StoppedVisitAbandons DEF Promise!Next
  <2>3. CASE EndsAsBefore
    <3>1. /\ Settled = before /\ Settled' = [tree |-> tree, remote |-> remote] /\ Open
          /\ ~halted /\ ~halted' /\ recorded' = recorded /\ UNCHANGED <<options, tree>>
      BY <1>1, <1>5, <2>3, VisitSettles, StepsAreOpen DEF EndsAsBefore, Open, Closed
    <3>2. Package' = PackageOf(tree) /\ Package = PackageOf(before.tree)
      BY <3>1 DEF Package, PackageOf
    <3>3. Package' = Package
      BY <1>5, <2>3, <3>1, <3>2, VisitSettles DEF EndsAsBefore, PackageOf
    <3>4. before.remote = {} /\ remote = {}
      BY <2>3, <3>1 DEF EndsAsBefore, Account, Settling, OnlyThePublisherDelivers
    <3>5. Published' = Published
      BY <3>1, <3>4 DEF Published
    <3>6. QED BY <1>1, <3>1, <3>3, <3>5, PromiseUnfolds DEF Stutters
  <2>4. CASE EndsRecorded
    BY <1>1, <2>4, RecordedVisitKeepsPromise, PromiseUnfolds DEF Promise!Next
  <2>5. QED BY <1>1, <1>5, <2>1, <2>2, <2>3, <2>4, StepsGoOnOrEnd
<1>6. QED BY <1>2, <1>3, <1>4, <1>5, PromiseUnfolds DEF Next, Promise!Next

\* Seen from between the visits the migration is made whole or the run has stopped, and
\* only a whole one is published: what nodes.ts runWorker and the order of the calls in
\* implementer.ts and publisher.ts promise the graph that awaits them.
THEOREM VisitsKeepPromise ==
  ASSUME Cardinality(Sources) <= MaxConvertedFiles
  PROVE  Spec => KeepsPromise
<1>1. Init => Promise!Init
  <2>1. Init => Package = "untouched" /\ halted = FALSE /\ Published = "none"
    BY DEF Init, Package, Published, PackageOf, Settled, Open, Closed, Pristine
  <2>2. QED BY <2>1, PromiseUnfolds
<1>2. Account /\ Account' /\ [Next]_vars => [Promise!Next]_(Promise!vars)
  BY StepKeepsPromise
<1>3. QED BY <1>1, <1>2, AccountHolds, PTL DEF Spec, KeepsPromise, Promise!Spec

=============================================================================
