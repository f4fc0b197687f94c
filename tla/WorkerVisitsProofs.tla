------------------------- MODULE WorkerVisitsProofs -------------------------
(***************************************************************************)
(* Theorems about WorkerVisits, for any files, packages, limits and        *)
(* lifetimes.  `Footing` is inductive by itself; `Migration`, on top of    *)
(* it, holds where one conversion plan covers every source file.           *)
(***************************************************************************)
EXTENDS WorkerVisits, TLAPS, FiniteSetTheorems

-----------------------------------------------------------------------------
\* The invariants, part by part.

CallsOf ==
  [assess_verification |-> {"survey", "return"},
   author_tests  |-> {"survey", "author", "reread", "return"},
   implement     |-> {"read", "plan", "move", "rewrite", "manifest", "return"},
   configure_ci  |-> {"survey", "workflow", "reread", "return"},
   verify        |-> {"freeze", "install", "check", "compare"},
   publish_draft |-> {"status", "branch", "commit", "push", "draft", "return"}]

Visits == [phase : WorkerPhases, attempt : 1 .. 2, applied : BOOLEAN, elevated : BOOLEAN,
           expires : Nat, at : Calls \cup {"return"}, todo : SUBSET Sources]

ChannelsTyped ==
  /\ attempts \in [DOMAIN Profile -> 0 .. MaxWorkerAttempts]
  /\ requested \in BOOLEAN /\ halted \in BOOLEAN
  /\ recorded \subseteq WorkerPhases
  /\ verdict \in {"not_run", "failed", "passed"}

WorldTyped ==
  /\ options \in Configurations /\ now \in 0 .. ParentTtl
  /\ tree \in [moved : SUBSET Targets, converted : SUBSET Sources,
               manifest : {"commonjs", "module"}, tests : SUBSET Tests, ci : BOOLEAN]
  /\ remote \subseteq PublishingCalls

\* A visit holds what its phase is due, for as long as the run's session lives, and only
\* an approved elevation makes it hold more.
VisitFits ==
  \/ visit = Closed
  \/ /\ visit \in Visits
     /\ visit.at \in CallsOf[visit.phase]
     /\ attempts[Worker[visit.phase]] < MaxWorkerAttempts
     /\ visit.expires <= ParentTtl
     /\ visit.applied => options.granted
     /\ visit.elevated => visit.applied /\ options.honoured
     /\ visit.at = "manifest" => visit.elevated

StopEndsVisits == halted => visit = Closed

\* How far the dependency move has come at each call of the implementer, and that state
\* has it right between visits.
MoveFits ==
  IF visit.phase = "implement"
    THEN /\ "implement" \notin recorded
         /\ visit.at \in {"read", "plan"} => options.esm /\ tree.moved = {}
         /\ options.esm => visit.at = "read" \/ visit.elevated
         /\ visit.at = "move" => tree.moved # Targets
         /\ visit.at \in {"rewrite", "manifest", "return"} => tree.moved = Targets
    ELSE ~halted => tree.moved = IF "implement" \in recorded THEN Targets ELSE {}

\* The same for what the other workers write.
WritesFit ==
  ~halted =>
    /\ tree.tests # {} => "author_tests" \in recorded \/ visit.phase = "author_tests"
    /\ tree.ci => "configure_ci" \in recorded \/ visit.phase = "configure_ci"
    /\ remote # {} => "publish_draft" \in recorded \/ visit.phase = "publish_draft"

ApprovalFits ==
  /\ tree.manifest = "module" => options.granted /\ options.honoured
  /\ visit.at = "read" => tree = before.tree

Footing == ChannelsTyped /\ WorldTyped /\ VisitFits /\ StopEndsVisits /\ MoveFits /\ WritesFit
             /\ ApprovalFits

-----------------------------------------------------------------------------
LEMMA WorkersAreKnown ==
  /\ \A p \in WorkerPhases : Worker[p] \in DOMAIN Profile
  /\ \A w \in DOMAIN Profile : Ttl[w] \in Nat
  /\ "none" \notin WorkerPhases
BY DEF WorkerPhases, Worker, Profile, Ttl

LEMMA SessionFits ==
  ASSUME Footing, NEW p \in WorkerPhases, NEW n \in 1 .. 2, NEW applied \in BOOLEAN,
         applied => options.granted
  PROVE  /\ Session(p, n, applied) \in Visits
         /\ Session(p, n, applied).at \in CallsOf[p]
         /\ Session(p, n, applied).at = Opening(p)
         /\ Session(p, n, applied).phase = p
         /\ Session(p, n, applied).expires <= ParentTtl
         /\ Session(p, n, applied).applied = applied
         /\ Session(p, n, applied).elevated => applied /\ options.honoured
<1>1. options.esm \in BOOLEAN /\ options.honoured \in BOOLEAN
  BY OptionsAssumption DEF Footing, WorldTyped, Options
<1>2. Opening(p) \in CallsOf[p] /\ Opening(p) \in Calls
  BY <1>1 DEF Opening, CallsOf, WorkerPhases, Worker, Calls, Needs
<1>3. Expiry(Worker[p]) \in Nat /\ Expiry(Worker[p]) <= ParentTtl
  BY WorkersAreKnown, LimitsAssumption DEF Expiry, Footing, WorldTyped
<1>4. Narrowable(applied) \in BOOLEAN /\ (Narrowable(applied) => applied /\ options.honoured)
  BY <1>1 DEF Narrowable
<1>5. QED BY <1>2, <1>3, <1>4 DEF Session, Visits

LEMMA FootingInit == Init => Footing
<1> SUFFICES ASSUME Init PROVE Footing
  OBVIOUS
<1>1. ChannelsTyped
  <2>1. 0 \in 0 .. MaxWorkerAttempts
    BY LimitsAssumption
  <2>2. attempts \in [DOMAIN Profile -> 0 .. MaxWorkerAttempts]
    BY <2>1 DEF Init
  <2>3. QED BY <2>2 DEF Init, ChannelsTyped
<1>2. WorldTyped
  BY DEF Init, WorldTyped, Pristine
<1>3. VisitFits /\ StopEndsVisits /\ MoveFits /\ WritesFit /\ ApprovalFits
  BY DEF Init, VisitFits, StopEndsVisits, MoveFits, WritesFit, ApprovalFits, Closed, Pristine
<1>4. QED BY <1>1, <1>2, <1>3 DEF Footing

\* A visit that ends leaves the channels well formed.
LEMMA AttemptedIsTyped ==
  ASSUME Footing, NEW p \in WorkerPhases, attempts[Worker[p]] < MaxWorkerAttempts, Attempted(p)
  PROVE  attempts' \in [DOMAIN Profile -> 0 .. MaxWorkerAttempts]
BY WorkersAreKnown, LimitsAssumption DEF Attempted, Footing, ChannelsTyped

LEMMA StopKeepsFooting ==
  ASSUME Footing, NEW p \in WorkerPhases, attempts[Worker[p]] < MaxWorkerAttempts,
         Throws(p) \/ Blocks(p),
         verdict' \in {"not_run", "failed", "passed"}, WorldTyped',
         tree'.manifest = tree.manifest, UNCHANGED options
  PROVE  Footing'
<1>1. attempts' \in [DOMAIN Profile -> 0 .. MaxWorkerAttempts]
  BY AttemptedIsTyped DEF Throws, Blocks
<1>2. ChannelsTyped'
  BY <1>1 DEF Throws, Blocks, Footing, ChannelsTyped
<1>3. visit' = Closed /\ halted'
  BY DEF Throws, Blocks
<1>4. VisitFits' /\ StopEndsVisits' /\ MoveFits' /\ WritesFit' /\ ApprovalFits'
  BY <1>3 DEF VisitFits, StopEndsVisits, MoveFits, WritesFit, ApprovalFits, Closed, Footing
<1>5. QED BY <1>2, <1>4 DEF Footing

-----------------------------------------------------------------------------
\* Each step keeps the footing.

LEMMA OpenVisit ==
  ASSUME Footing, visit.at \in Calls \cup {"return"}
  PROVE  /\ visit \in Visits /\ visit.phase \in WorkerPhases
         /\ visit.at \in CallsOf[visit.phase]
         /\ attempts[Worker[visit.phase]] < MaxWorkerAttempts
         /\ ~halted /\ visit # Closed
<1>1. visit # Closed
  BY DEF Closed, Calls, Needs
<1>2. QED BY <1>1 DEF Footing, VisitFits, Visits, StopEndsVisits

\* An open visit whose next call is known belongs to one of the phases that make it.
LEMMA CallsBelong ==
  ASSUME Footing, visit.at \in Calls \cup {"return"}
  PROVE  /\ visit.at \in {"read", "plan", "move", "rewrite", "manifest"} <=> 
              visit.phase = "implement" /\ visit.at # "return"
         /\ visit.at = "author" => visit.phase = "author_tests"
         /\ visit.at = "workflow" => visit.phase = "configure_ci"
         /\ visit.at \in {"status", "branch", "commit", "push", "draft"} => visit.phase = "publish_draft"
         /\ visit.at \in {"freeze", "install", "check", "compare"} => visit.phase = "verify"
         /\ visit.at \in {"survey", "reread"} =>
               visit.phase \in {"assess_verification", "author_tests", "configure_ci"}
         /\ visit.phase = "verify" => visit.at # "return"
BY OpenVisit DEF CallsOf, WorkerPhases, Worker

\* Moving on to another call of the same phase.
LEMMA GoingOnFits ==
  ASSUME Footing, NEW c \in CallsOf[visit.phase], NEW todo \in SUBSET Sources,
         visit.at \in Calls, c \in Calls \cup {"return"}, c = "manifest" => visit.elevated,
         visit' = [visit EXCEPT !.at = c, !.todo = todo],
         UNCHANGED <<options, channels>>
  PROVE  VisitFits' /\ visit'.phase = visit.phase /\ visit'.at = c /\ visit'.elevated = visit.elevated
         /\ ChannelsTyped' /\ StopEndsVisits'
<1>1. visit \in Visits /\ visit # Closed /\ ~halted
  BY OpenVisit
<1>2. /\ visit' \in Visits /\ visit'.phase = visit.phase /\ visit'.at = c
      /\ visit'.elevated = visit.elevated /\ visit'.applied = visit.applied
      /\ visit'.expires = visit.expires
  BY <1>1 DEF Visits
<1>3. VisitFits'
  BY <1>1, <1>2 DEF VisitFits, Footing, channels
<1>4. ChannelsTyped' /\ StopEndsVisits'
  BY <1>1 DEF ChannelsTyped, StopEndsVisits, Footing, channels
<1>5. QED BY <1>2, <1>3, <1>4

LEMMA GoFits ==
  ASSUME Footing, NEW c \in CallsOf[visit.phase],
         visit.at \in Calls, c \in Calls \cup {"return"}, c = "manifest" => visit.elevated,
         Go(c), UNCHANGED <<options, channels>>
  PROVE  VisitFits' /\ visit'.phase = visit.phase /\ visit'.at = c /\ visit'.elevated = visit.elevated
         /\ ChannelsTyped' /\ StopEndsVisits'
<1>1. visit \in Visits
  BY OpenVisit
<1>2. visit' = [visit EXCEPT !.at = c, !.todo = visit.todo] /\ visit.todo \in SUBSET Sources
  BY <1>1 DEF Go, Visits
<1>3. QED BY <1>2, GoingOnFits

\* A visit that commits its update.
LEMMA ReturnsFits ==
  ASSUME Footing, visit.at \in Calls \cup {"return"}, UNCHANGED options,
         NEW records \in SUBSET WorkerPhases, NEW asks \in BOOLEAN, Returns(records, asks),
         verdict' \in {"not_run", "failed", "passed"}
  PROVE  VisitFits' /\ visit' = Closed /\ ChannelsTyped' /\ StopEndsVisits' /\ ~halted'
<1>1. visit \in Visits /\ visit.phase \in WorkerPhases /\ ~halted
      /\ attempts[Worker[visit.phase]] < MaxWorkerAttempts
  BY OpenVisit
<1>2. attempts' \in [DOMAIN Profile -> 0 .. MaxWorkerAttempts]
  BY <1>1, AttemptedIsTyped DEF Returns
<1>3. ChannelsTyped'
  BY <1>2 DEF Returns, ChannelsTyped, Footing, Visits
<1>4. QED BY <1>1, <1>3 DEF Returns, VisitFits, StopEndsVisits

LEMMA StartKeepsFooting ==
  ASSUME Footing, NEW p \in WorkerPhases, StartVisit(p)
  PROVE  Footing'
<1>1. ~halted /\ visit.phase = "none" /\ visit = Closed
  BY WorkersAreKnown DEF StartVisit, Offered, Open, Footing, VisitFits, Visits
<1>2. options.granted \in BOOLEAN /\ options.esm \in BOOLEAN
  BY OptionsAssumption DEF Footing, WorldTyped, Options
<1>3. /\ ApprovedElevations(p) \in BOOLEAN
      /\ ApprovedElevations(p) => options.granted
  BY <1>2 DEF ApprovedElevations, Footing, ChannelsTyped
<1>4. /\ visit' \in Visits /\ visit'.at \in CallsOf[p] /\ visit'.at = Opening(p)
      /\ visit'.phase = p /\ visit'.expires <= ParentTtl
      /\ visit'.applied => options.granted
      /\ visit'.elevated => visit'.applied /\ options.honoured
  BY <1>3, SessionFits DEF StartVisit
<1>5. attempts[Worker[p]] < MaxWorkerAttempts
  BY DEF StartVisit, Offered, WithinAttempts
<1>6. visit'.at # "manifest" /\ visit'.at # "plan"
  BY <1>4, <1>2 DEF Opening
<1>7. VisitFits' /\ StopEndsVisits' /\ ChannelsTyped' /\ WorldTyped'
  BY <1>1, <1>4, <1>5, <1>6
  DEF StartVisit, VisitFits, StopEndsVisits, ChannelsTyped, WorldTyped, Footing, channels
<1>8. MoveFits'
  <2>1. tree.moved = IF "implement" \in recorded THEN Targets ELSE {}
    BY <1>1 DEF Footing, MoveFits
  <2>2. CASE p # "implement"
    BY <2>1, <2>2, <1>4 DEF MoveFits, StartVisit, channels
  <2>3. CASE p = "implement"
    <3>1. "implement" \notin recorded
      BY <2>3 DEF StartVisit, NothingLeft
    <3>2. tree.moved = {} /\ tree.moved # Targets
      BY <3>1, <2>1, FilesAssumption
    <3>3. visit'.at = IF options.esm THEN "read" ELSE "move"
      BY <2>3, <1>4 DEF Opening
    <3>4. QED BY <3>1, <3>2, <3>3, <1>4, <2>3, <1>2 DEF MoveFits, StartVisit, channels
  <2>4. QED BY <2>2, <2>3
<1>9. WritesFit'
  BY <1>1 DEF WritesFit, Footing, StartVisit, channels
<1>10. ApprovalFits'
  BY DEF ApprovalFits, Footing, StartVisit
<1>11. QED BY <1>7, <1>8, <1>9, <1>10 DEF Footing

LEMMA StopsKeepFooting ==
  ASSUME Footing,
         \/ \E p \in WorkerPhases : StartFails(p)
         \/ Denied \/ ToolFails \/ InstallFails \/ \E t \in Targets : MoveFails(t)
  PROVE  Footing'
<1>1. ASSUME NEW p \in WorkerPhases, StartFails(p) PROVE Footing'
  BY <1>1, StopKeepsFooting DEF StartFails, Offered, WithinAttempts, Footing, ChannelsTyped, WorldTyped
<1>2. CASE Denied
  BY <1>2, OpenVisit, StopKeepsFooting DEF Denied, Footing, ChannelsTyped, WorldTyped
<1>3. CASE ToolFails
  BY <1>3, OpenVisit, StopKeepsFooting DEF ToolFails, Footing, ChannelsTyped, WorldTyped, PublishingCalls,
                                           Delivered
<1>4. CASE InstallFails
  BY <1>4, OpenVisit, StopKeepsFooting
  DEF InstallFails, Calling, At, Calls, Needs, Footing, ChannelsTyped, WorldTyped
<1>5. ASSUME NEW t \in Targets, MoveFails(t) PROVE Footing'
  <2>1. visit.phase \in WorkerPhases /\ attempts[Worker[visit.phase]] < MaxWorkerAttempts
    BY <1>5, OpenVisit DEF MoveFails, Calling, At, Calls, Needs
  <2>2. WorldTyped' /\ tree'.manifest = tree.manifest
    BY <1>5 DEF MoveFails, Footing, WorldTyped, UpdateDependency
  <2>3. QED BY <1>5, <2>1, <2>2, StopKeepsFooting DEF MoveFails, Footing, ChannelsTyped
<1>6. QED BY <1>1, <1>2, <1>3, <1>4, <1>5

\* Steps that go on reading or running.
LEMMA ReadsKeepFooting ==
  ASSUME Footing, Survey \/ Reread \/ RunChecks \/ BeginConversion
  PROVE  Footing'
<1>1. UNCHANGED <<options, now, channels, tree, remote, before>>
  BY DEF Survey, Reread, RunChecks, BeginConversion
<1>2. visit.at \in Calls
  BY DEF Survey, Reread, RunChecks, BeginConversion, Calling, At, Calls, Needs
<1>3. \E c \in CallsOf[visit.phase] :
         /\ Go(c) /\ c \notin {"read", "manifest", "move", "rewrite"}
         /\ c = "plan" => visit.at = "read" /\ visit.elevated
         /\ visit.phase = "implement" => c = "plan"
  <2>1. CASE Survey
    BY <2>1, CallsBelong DEF Survey, Calling, At, CallsOf, Calls, Needs
  <2>2. CASE Reread
    BY <2>2, CallsBelong DEF Reread, Calling, At, CallsOf, Calls, Needs
  <2>3. CASE RunChecks
    BY <2>3, CallsBelong DEF RunChecks, Calling, At, CallsOf, Calls, Needs
  <2>4. CASE BeginConversion
    BY <2>4, CallsBelong DEF BeginConversion, Calling, At, CallsOf, Calls, Needs
  <2>5. QED BY <2>1, <2>2, <2>3, <2>4
<1>4. PICK c \in CallsOf[visit.phase] :
         /\ Go(c) /\ c \notin {"read", "manifest", "move", "rewrite"}
         /\ c = "plan" => visit.at = "read" /\ visit.elevated
         /\ visit.phase = "implement" => c = "plan"
  BY <1>3
<1>5. c \in Calls \cup {"return"}
  BY <1>2, <1>4, OpenVisit DEF CallsOf, WorkerPhases, Worker, Calls, Needs
<1>6. /\ VisitFits' /\ visit'.phase = visit.phase /\ visit'.at = c
      /\ visit'.elevated = visit.elevated /\ ChannelsTyped' /\ StopEndsVisits'
  BY <1>1, <1>2, <1>4, <1>5, GoFits
<1>7. MoveFits'
  BY <1>1, <1>4, <1>6 DEF MoveFits, Footing, channels
<1>8. WorldTyped' /\ WritesFit' /\ ApprovalFits'
  BY <1>1, <1>4, <1>6 DEF WorldTyped, WritesFit, ApprovalFits, Footing, channels
<1>9. QED BY <1>6, <1>7, <1>8 DEF Footing

LEMMA ReturnKeepsFooting ==
  ASSUME Footing, Return
  PROVE  Footing'
<1>1. /\ visit.at = "return" /\ Returns(recorded \cup {visit.phase}, FALSE)
      /\ UNCHANGED <<options, now, verdict, tree, remote, before>>
  BY DEF Return, At
<1>2. visit.phase \in WorkerPhases /\ ~halted
  BY <1>1, OpenVisit
<1>3. recorded \cup {visit.phase} \in SUBSET WorkerPhases
  BY <1>2 DEF Footing, ChannelsTyped
<1>4. VisitFits' /\ visit' = Closed /\ ChannelsTyped' /\ StopEndsVisits' /\ ~halted'
  BY <1>1, <1>3, ReturnsFits DEF Footing, ChannelsTyped
<1>5. recorded' = recorded \cup {visit.phase}
  BY <1>1 DEF Returns
<1>6. MoveFits'
  BY <1>1, <1>2, <1>4, <1>5 DEF MoveFits, Footing, Closed
<1>7. WorldTyped' /\ WritesFit' /\ ApprovalFits'
  BY <1>1, <1>2, <1>4, <1>5 DEF WorldTyped, WritesFit, ApprovalFits, Footing, Closed
<1>8. QED BY <1>4, <1>6, <1>7 DEF Footing

LEMMA JudgeKeepsFooting ==
  ASSUME Footing, Judge
  PROVE  Footing'
<1>1. visit.at = "compare" /\ UNCHANGED <<options, now, tree, remote, before>>
      /\ verdict' \in {"failed", "passed"}
  BY DEF Judge, Calling, At
<1>2. visit.phase = "verify" /\ ~halted /\ attempts[Worker[visit.phase]] < MaxWorkerAttempts
      /\ visit.at \in Calls /\ visit.phase \in WorkerPhases
  BY <1>1, OpenVisit, CallsBelong DEF Calls, Needs
<1>3. WorldTyped'
  BY <1>1 DEF WorldTyped, Footing
<1>4. CASE Blocks(visit.phase)
  BY <1>1, <1>2, <1>3, <1>4, StopKeepsFooting
<1>5. CASE Returns(recorded, FALSE)
  <2>1. VisitFits' /\ visit' = Closed /\ ChannelsTyped' /\ StopEndsVisits' /\ ~halted'
    BY <1>1, <1>2, <1>5, ReturnsFits DEF Footing, ChannelsTyped
  <2>2. MoveFits' /\ WritesFit' /\ ApprovalFits'
    BY <1>1, <1>2, <1>5, <2>1 DEF MoveFits, WritesFit, ApprovalFits, Footing, Closed, Returns
  <2>3. QED BY <1>3, <2>1, <2>2 DEF Footing
<1>6. QED BY <1>4, <1>5 DEF Judge

\* Steps that write something the implementer does not.
LEMMA OtherWritesKeepFooting ==
  ASSUME Footing, (\E f \in Tests : AuthorTest(f)) \/ WriteWorkflow \/ PublishStep
  PROVE  Footing'
<1>1. visit.at \in Calls /\ UNCHANGED <<options, now, channels, before>>
  BY DEF AuthorTest, WriteWorkflow, PublishStep, AfterPublishing, Calling, At, Calls, Needs
<1>2. \E c \in CallsOf[visit.phase] :
         Go(c) /\ c \notin {"read", "plan", "manifest", "move", "rewrite"}
  <2>1. ASSUME NEW f \in Tests, AuthorTest(f)
        PROVE  \E c \in CallsOf[visit.phase] :
                  Go(c) /\ c \notin {"read", "plan", "manifest", "move", "rewrite"}
    BY <2>1, CallsBelong DEF AuthorTest, Calling, At, CallsOf, Calls, Needs
  <2>2. CASE WriteWorkflow
    BY <2>2, CallsBelong DEF WriteWorkflow, Calling, At, CallsOf, Calls, Needs
  <2>3. CASE PublishStep
    BY <2>3, CallsBelong DEF PublishStep, AfterPublishing, CallsOf, Calls, Needs
  <2>4. QED BY <2>1, <2>2, <2>3
<1>3. PICK c \in CallsOf[visit.phase] :
         Go(c) /\ c \notin {"read", "plan", "manifest", "move", "rewrite"}
  BY <1>2
<1>4. c \in Calls \cup {"return"}
  BY <1>1, OpenVisit DEF CallsOf, WorkerPhases, Worker, Calls, Needs
<1>5. /\ VisitFits' /\ visit'.phase = visit.phase /\ visit'.at = c
      /\ visit'.elevated = visit.elevated /\ ChannelsTyped' /\ StopEndsVisits'
  BY <1>1, <1>3, <1>4, GoFits
<1> DEFINE Wrote ==
      /\ tree'.moved = tree.moved /\ tree'.manifest = tree.manifest
      /\ tree'.tests # tree.tests => visit.phase = "author_tests"
      /\ tree'.ci # tree.ci => visit.phase = "configure_ci"
      /\ remote' # remote => visit.phase = "publish_draft"
      /\ visit.phase # "implement"
<1>6. Wrote /\ WorldTyped'
  <2>1. ASSUME NEW f \in Tests, AuthorTest(f) PROVE Wrote /\ WorldTyped'
    BY <2>1, CallsBelong, <1>1 DEF AuthorTest, Calling, At, Footing, WorldTyped, WriteTestFile
  <2>2. CASE WriteWorkflow
    BY <2>2, CallsBelong, <1>1 DEF WriteWorkflow, Calling, At, Footing, WorldTyped, WriteCiFile
  <2>3. CASE PublishStep
    BY <2>3, CallsBelong, <1>1 DEF PublishStep, AfterPublishing, Footing, WorldTyped, PublishingCalls,
                                   Delivered
  <2>4. QED BY <2>1, <2>2, <2>3
<1>7. MoveFits'
  BY <1>1, <1>3, <1>5, <1>6 DEF MoveFits, Footing, channels
<1>8. WritesFit' /\ ApprovalFits'
  BY <1>1, <1>3, <1>5, <1>6 DEF WritesFit, ApprovalFits, Footing, channels, WorldTyped
<1>9. QED BY <1>5, <1>6, <1>7, <1>8 DEF Footing

\* The implementer's own steps.
LEMMA RequestKeepsFooting ==
  ASSUME Footing, RequestElevation
  PROVE  Footing'
<1>1. visit.at = "read" /\ ~visit.elevated /\ UNCHANGED <<options, now, tree, remote, before>>
  BY DEF RequestElevation, Calling, At
<1>2. /\ visit.phase = "implement" /\ ~halted /\ visit.phase \in WorkerPhases
      /\ attempts[Worker[visit.phase]] < MaxWorkerAttempts
  BY <1>1, OpenVisit, CallsBelong DEF Calls, Needs
<1>3. "implement" \notin recorded /\ options.esm /\ tree.moved = {}
  BY <1>1, <1>2 DEF Footing, MoveFits
<1>4. WorldTyped' /\ ApprovalFits'
  BY <1>1 DEF Footing, WorldTyped, ApprovalFits
<1>5. CASE Retries
  <2>1. visit' = Session("implement", 2, TRUE) /\ UNCHANGED channels
    BY <1>2, <1>5 DEF RequestElevation
  <2>2. options.granted
    BY <1>5 DEF Retries
  <2>3. /\ visit' \in Visits /\ visit'.at \in CallsOf["implement"] /\ visit'.at = "read"
        /\ visit'.phase = "implement" /\ visit'.expires <= ParentTtl
        /\ visit'.applied /\ (visit'.elevated => visit'.applied /\ options.honoured)
    <3>1. "implement" \in WorkerPhases /\ 2 \in 1 .. 2 /\ TRUE \in BOOLEAN
      BY <1>2
    <3>2. Opening("implement") = "read"
      BY <1>3 DEF Opening
    <3>3. /\ Session("implement", 2, TRUE) \in Visits
          /\ Session("implement", 2, TRUE).at \in CallsOf["implement"]
          /\ Session("implement", 2, TRUE).at = Opening("implement")
          /\ Session("implement", 2, TRUE).phase = "implement"
          /\ Session("implement", 2, TRUE).expires <= ParentTtl
          /\ Session("implement", 2, TRUE).applied = TRUE
          /\ Session("implement", 2, TRUE).elevated => TRUE /\ options.honoured
      BY <3>1, <2>2, SessionFits
    <3>4. QED BY <3>2, <3>3, <2>1
  <2>4. VisitFits' /\ StopEndsVisits' /\ ChannelsTyped'
    <3>1. attempts' = attempts /\ options' = options /\ halted' = halted
      BY <2>1, <1>1 DEF channels
    <3>2. attempts'[Worker[visit'.phase]] < MaxWorkerAttempts
      BY <3>1, <2>3, <1>2
    <3>3. visit'.at # "manifest"
      BY <2>3
    <3>4. VisitFits'
      BY <3>1, <3>2, <3>3, <2>2, <2>3 DEF VisitFits
    <3>5. StopEndsVisits'
      BY <3>1, <1>2 DEF StopEndsVisits
    <3>6. UNCHANGED <<attempts, requested, recorded, verdict, halted>> /\ ChannelsTyped
      BY <2>1 DEF channels, Footing
    <3>7. ChannelsTyped'
      BY <3>6 DEF ChannelsTyped
    <3>8. QED BY <3>4, <3>5, <3>7
  <2>5. MoveFits' /\ WritesFit'
    BY <2>1, <2>3, <1>1, <1>2, <1>3 DEF MoveFits, WritesFit, Footing, channels
  <2>6. QED BY <1>4, <2>4, <2>5 DEF Footing
<1>6. CASE ~Retries
  <2>1. Returns(recorded, TRUE) /\ UNCHANGED verdict
    BY <1>6 DEF RequestElevation
  <2>2. VisitFits' /\ visit' = Closed /\ ChannelsTyped' /\ StopEndsVisits' /\ ~halted'
    BY <2>1, <1>1, ReturnsFits DEF Footing, ChannelsTyped, Calls, Needs
  <2>3. MoveFits' /\ WritesFit'
    BY <2>1, <2>2, <1>1, <1>2, <1>3 DEF MoveFits, WritesFit, Footing, Closed, Returns
  <2>4. QED BY <1>4, <2>2, <2>3 DEF Footing
<1>7. QED BY <1>5, <1>6

LEMMA PlanKeepsFooting ==
  ASSUME Footing, PlanConversions
  PROVE  Footing'
<1>1. visit.at = "plan" /\ UNCHANGED <<options, now, tree, remote, before>>
  BY DEF PlanConversions, Calling, At
<1>2. /\ visit.phase = "implement" /\ ~halted /\ visit.phase \in WorkerPhases
      /\ attempts[Worker[visit.phase]] < MaxWorkerAttempts /\ visit.at \in Calls
  BY <1>1, OpenVisit, CallsBelong DEF Calls, Needs
<1>3. "implement" \notin recorded /\ options.esm /\ tree.moved = {} /\ visit.elevated
  BY <1>1, <1>2 DEF Footing, MoveFits
<1>4. WorldTyped'
  BY <1>1 DEF Footing, WorldTyped
<1>5. ASSUME NEW S \in Covered, visit' = [visit EXCEPT !.todo = S, !.at = "move"],
             UNCHANGED channels
      PROVE  Footing'
  <2>1. S \in SUBSET Sources /\ "move" \in CallsOf[visit.phase]
    BY <1>2, <1>5 DEF Covered, CallsOf
  <2>2. visit' = [visit EXCEPT !.at = "move", !.todo = S]
    BY <1>2, <1>5, OpenVisit DEF Visits
  <2>3. /\ VisitFits' /\ visit'.phase = "implement" /\ visit'.at = "move"
        /\ visit'.elevated = visit.elevated /\ ChannelsTyped' /\ StopEndsVisits'
    BY <2>1, <2>2, <1>1, <1>2, <1>5, GoingOnFits DEF Calls, Needs
  <2>4. MoveFits' /\ WritesFit' /\ ApprovalFits'
    BY <2>3, <1>1, <1>2, <1>3, <1>5, FilesAssumption
    DEF MoveFits, WritesFit, ApprovalFits, Footing, channels
  <2>5. QED BY <1>4, <2>3, <2>4 DEF Footing
<1>6. CASE Blocks(visit.phase) /\ UNCHANGED verdict
  BY <1>1, <1>2, <1>4, <1>6, StopKeepsFooting DEF Footing, ChannelsTyped
<1>7. QED BY <1>5, <1>6 DEF PlanConversions

LEMMA MoveKeepsFooting ==
  ASSUME Footing, NEW t \in Targets, MoveDependency(t)
  PROVE  Footing'
<1> DEFINE todo == IF options.esm THEN visit.todo ELSE Sources
           call == IF tree'.moved = Targets THEN AfterWrite(todo) ELSE "move"
<1>1. /\ visit.at = "move" /\ UNCHANGED <<options, now, channels, remote, before>>
      /\ tree' = [tree EXCEPT !.moved = @ \cup {t}]
      /\ visit' = [visit EXCEPT !.todo = todo, !.at = call]
  BY DEF MoveDependency, Calling, At, UpdateDependency
<1>2. visit.phase = "implement" /\ ~halted /\ visit \in Visits /\ visit.at \in Calls
  BY <1>1, OpenVisit, CallsBelong DEF Calls, Needs
<1>3. "implement" \notin recorded /\ (options.esm => visit.elevated)
  BY <1>1, <1>2 DEF Footing, MoveFits
<1>4. /\ todo \in SUBSET Sources /\ call \in {"move", "rewrite", "manifest", "return"}
      /\ call = "manifest" => options.esm
      /\ call \in CallsOf[visit.phase] /\ call \in Calls \cup {"return"}
  BY <1>2 DEF Visits, AfterWrite, CallsOf, Calls, Needs
<1>5. visit' = [visit EXCEPT !.at = call, !.todo = todo]
  BY <1>1, <1>2 DEF Visits
<1> HIDE DEF todo, call
<1>6. /\ VisitFits' /\ visit'.phase = "implement" /\ visit'.at = call
      /\ visit'.elevated = visit.elevated /\ ChannelsTyped' /\ StopEndsVisits'
  BY <1>1, <1>2, <1>3, <1>4, <1>5, GoingOnFits
<1>7. WorldTyped' /\ tree'.manifest = tree.manifest /\ tree'.tests = tree.tests /\ tree'.ci = tree.ci
  BY <1>1 DEF Footing, WorldTyped
<1>8. (call = "move") = (tree'.moved # Targets)
  BY DEF call, AfterWrite
<1>9. MoveFits'
  BY <1>1, <1>3, <1>4, <1>6, <1>8 DEF MoveFits, channels
<1>10. WritesFit' /\ ApprovalFits'
  BY <1>1, <1>2, <1>4, <1>6, <1>7 DEF WritesFit, ApprovalFits, Footing, channels
<1>11. QED BY <1>6, <1>7, <1>9, <1>10 DEF Footing

LEMMA RewriteKeepsFooting ==
  ASSUME Footing, NEW f \in Sources, RewriteSource(f)
  PROVE  Footing'
<1> DEFINE todo == visit.todo \ {f}
           call == AfterWrite(todo)
<1>1. /\ visit.at = "rewrite" /\ UNCHANGED <<options, now, channels, remote, before>>
      /\ tree' = [tree EXCEPT !.converted = @ \cup {f}]
      /\ visit' = [visit EXCEPT !.todo = todo, !.at = call]
  BY DEF RewriteSource, Calling, At, WriteSourceFile
<1>2. visit.phase = "implement" /\ ~halted /\ visit \in Visits /\ visit.at \in Calls
  BY <1>1, OpenVisit, CallsBelong DEF Calls, Needs
<1>3. "implement" \notin recorded /\ (options.esm => visit.elevated) /\ tree.moved = Targets
  BY <1>1, <1>2 DEF Footing, MoveFits
<1>4. /\ todo \in SUBSET Sources /\ call \in {"rewrite", "manifest", "return"}
      /\ call = "manifest" => options.esm
      /\ call \in CallsOf[visit.phase] /\ call \in Calls \cup {"return"}
  BY <1>2 DEF Visits, AfterWrite, CallsOf, Calls, Needs
<1>5. visit' = [visit EXCEPT !.at = call, !.todo = todo]
  BY <1>1, <1>2 DEF Visits
<1> HIDE DEF todo, call
<1>6. /\ VisitFits' /\ visit'.phase = "implement" /\ visit'.at = call
      /\ visit'.elevated = visit.elevated /\ ChannelsTyped' /\ StopEndsVisits'
  BY <1>1, <1>2, <1>3, <1>4, <1>5, GoingOnFits
<1>7. /\ WorldTyped' /\ tree'.manifest = tree.manifest /\ tree'.moved = tree.moved
      /\ tree'.tests = tree.tests /\ tree'.ci = tree.ci
  BY <1>1 DEF Footing, WorldTyped
<1>8. MoveFits'
  BY <1>1, <1>3, <1>4, <1>6, <1>7 DEF MoveFits, channels
<1>9. WritesFit' /\ ApprovalFits'
  BY <1>1, <1>2, <1>4, <1>6, <1>7 DEF WritesFit, ApprovalFits, Footing, channels
<1>10. QED BY <1>6, <1>7, <1>8, <1>9 DEF Footing

LEMMA ManifestKeepsFooting ==
  ASSUME Footing, SetModuleType
  PROVE  Footing'
<1>1. /\ visit.at = "manifest" /\ UNCHANGED <<options, now, channels, remote, before>>
      /\ tree' = [tree EXCEPT !.manifest = "module"] /\ Go("return")
  BY DEF SetModuleType, Calling, At, UpdateManifestField
<1>2. visit.phase = "implement" /\ ~halted /\ visit \in Visits /\ visit.at \in Calls
  BY <1>1, OpenVisit, CallsBelong DEF Calls, Needs
<1>3. options.granted /\ options.honoured
  BY <1>1, <1>2, OpenVisit DEF Footing, VisitFits
<1>4. /\ VisitFits' /\ visit'.phase = "implement" /\ visit'.at = "return"
      /\ visit'.elevated = visit.elevated /\ ChannelsTyped' /\ StopEndsVisits'
  BY <1>1, <1>2, GoFits DEF CallsOf
<1>5. /\ WorldTyped' /\ tree'.moved = tree.moved /\ tree'.tests = tree.tests /\ tree'.ci = tree.ci
  BY <1>1 DEF Footing, WorldTyped
<1>6. MoveFits' /\ WritesFit' /\ ApprovalFits'
  BY <1>1, <1>2, <1>3, <1>4, <1>5 DEF MoveFits, WritesFit, ApprovalFits, Footing, channels
<1>7. QED BY <1>4, <1>5, <1>6 DEF Footing

LEMMA IdleKeepsFooting ==
  ASSUME Footing, Tick \/ UNCHANGED vars
  PROVE  Footing'
<1>1. UNCHANGED <<options, visit, channels, tree, remote, before>> /\ now' \in 0 .. ParentTtl
  BY LimitsAssumption DEF Tick, vars, Footing, WorldTyped
<1>2. QED
  BY <1>1 DEF Footing, ChannelsTyped, WorldTyped, VisitFits, StopEndsVisits, MoveFits, WritesFit,
              ApprovalFits, channels

LEMMA FootingNext == Footing /\ [Next]_vars => Footing'
<1> SUFFICES ASSUME Footing, [Next]_vars PROVE Footing'
  OBVIOUS
<1>1. CASE Tick \/ UNCHANGED vars
  BY <1>1, IdleKeepsFooting
<1>2. ASSUME NEW p \in WorkerPhases, StartVisit(p) PROVE Footing'
  BY <1>2, StartKeepsFooting
<1>3. ASSUME NEW p \in WorkerPhases, StartFails(p) PROVE Footing'
  BY <1>3, StopsKeepFooting
<1>4. CASE Step
  <2>1. CASE Denied \/ ToolFails \/ InstallFails \/ \E t \in Targets : MoveFails(t)
    BY <2>1, StopsKeepFooting
  <2>2. CASE Survey \/ Reread \/ RunChecks \/ BeginConversion
    BY <2>2, ReadsKeepFooting
  <2>3. CASE Return
    BY <2>3, ReturnKeepsFooting
  <2>4. CASE Judge
    BY <2>4, JudgeKeepsFooting
  <2>5. CASE (\E f \in Tests : AuthorTest(f)) \/ WriteWorkflow \/ PublishStep
    BY <2>5, OtherWritesKeepFooting
  <2>6. CASE RequestElevation
    BY <2>6, RequestKeepsFooting
  <2>7. CASE PlanConversions
    BY <2>7, PlanKeepsFooting
  <2>8. CASE \E t \in Targets : MoveDependency(t)
    BY <2>8, MoveKeepsFooting
  <2>9. CASE \E f \in Sources : RewriteSource(f)
    BY <2>9, RewriteKeepsFooting
  <2>10. CASE SetModuleType
    BY <2>10, ManifestKeepsFooting
  <2>11. QED
    BY <1>4, <2>1, <2>2, <2>3, <2>4, <2>5, <2>6, <2>7, <2>8, <2>9, <2>10 DEF Step
<1>5. QED BY <1>1, <1>2, <1>3, <1>4 DEF Next

\* Every state of every run has the footing.
THEOREM FootingHolds == Spec => []Footing
BY FootingInit, FootingNext, PTL DEF Spec

-----------------------------------------------------------------------------
\* What follows from the footing.

\* The channels, the worktree, the session of a visit and the clock keep their types.
THEOREM VisitsTyped == Spec => []TypeOK
<1>1. Footing => TypeOK
  BY DEF Footing, TypeOK, ChannelsTyped, WorldTyped, VisitFits, Visits
<1>2. QED BY <1>1, FootingHolds, PTL

\* No worker's script makes a call outside its profile or its elevation: within the life
\* of its session a worker is never denied (profiles.ts, broker.ts readOnlyAssessment).
THEOREM ScriptsFit == Spec => []ScriptsFitProfiles
<1>1. Footing => ScriptsFitProfiles
  <2> SUFFICES ASSUME Footing, visit.at \in Calls PROVE Needs[visit.at] \in Held
    BY DEF ScriptsFitProfiles
  <2>1. /\ visit.phase \in WorkerPhases /\ visit.at \in CallsOf[visit.phase]
        /\ visit.at = "manifest" => visit.elevated
    BY OpenVisit DEF Footing, VisitFits
  <2>2. visit.at = "manifest" => Needs[visit.at] \in Held
    BY <2>1 DEF Needs, Held
  <2>3. visit.at # "manifest" => Needs[visit.at] \in Standing(visit.phase)
    BY <2>1 DEF CallsOf, Needs, Calls, WorkerPhases, Worker, Standing, Profile, ReadOnly
  <2>4. QED BY <2>2, <2>3 DEF Held
<1>2. QED BY <1>1, FootingHolds, PTL

\* A manifest turned to ESM means that the elevation was approved and that the parent
\* warrant could delegate it (broker.ts withWorker, narrowable).
THEOREM ManifestNeedsGrant == Spec => []ManifestByGrant
<1>1. Footing => ManifestByGrant
  BY DEF Footing, ApprovalFits, ManifestByGrant
<1>2. QED BY <1>1, FootingHolds, PTL

\* As long as the run goes on, state records all that the workers wrote (nodes.ts
\* runWorker: a worker that throws stops the run).
THEOREM RecordsAgree == Spec => []RecordAgrees
<1>1. Footing => RecordAgrees
  <2> SUFFICES ASSUME Footing, ~Open, ~halted
               PROVE  /\ ("implement" \in recorded) = (tree.moved # {})
                      /\ tree.tests # {} => "author_tests" \in recorded
                      /\ tree.ci => "configure_ci" \in recorded
                      /\ remote # {} => "publish_draft" \in recorded
    BY DEF RecordAgrees
  <2>1. visit.phase = "none"
    BY DEF Open
  <2>2. ("implement" \in recorded) = (tree.moved # {})
    BY <2>1, FilesAssumption DEF Footing, MoveFits
  <2>3. QED BY <2>1, <2>2 DEF Footing, WritesFit
<1>2. QED BY <1>1, FootingHolds, PTL

\* What a worker starts after the run's session expired changes neither the worktree nor
\* the remote: a narrowed session ends no later than its parent (broker.ts withWorker).
THEOREM NothingOutlivesTheRun == Spec => NothingAfterExpiry
<1>1. Footing /\ [Next]_vars => [tree' # tree \/ remote' # remote => now < ParentTtl]_vars
  <2> SUFFICES ASSUME Footing, Next, tree' # tree \/ remote' # remote PROVE now < ParentTtl
    BY DEF vars
  <2>1. Authorized /\ visit.at \in Calls
    BY DEF Next, Tick, StartVisit, StartFails, Step, Denied, ToolFails, Survey, Reread, Return,
           RunChecks, InstallFails, Judge, AuthorTest, WriteWorkflow, RequestElevation,
           BeginConversion, PlanConversions, MoveDependency, MoveFails, RewriteSource,
           SetModuleType, PublishStep, AfterPublishing, Calling, At, Calls, Needs
  <2>2. visit.expires \in Nat /\ visit.expires <= ParentTtl
    BY <2>1, OpenVisit DEF Footing, VisitFits, Visits
  <2>3. QED BY <2>1, <2>2, LimitsAssumption DEF Authorized, Footing, WorldTyped
<1>2. QED BY <1>1, FootingHolds, PTL DEF Spec, NothingAfterExpiry

\* A worker that asks for an elevation leaves the worktree as it found it, whether the node
\* retries it or commits the request (implementer.ts migrateToEsm, nodes.ts runWorker).
THEOREM AskingIsHarmless == Spec => AskingWritesNothing
<1> DEFINE Asks == visit.attempt = 1 /\ (visit'.attempt = 2 \/ requested' # requested)
<1>1. Footing /\ [Next]_vars => [Asks => tree' = before.tree]_vars
  <2> SUFFICES ASSUME Footing, Next, Asks PROVE tree' = before.tree
    BY DEF vars
  <2>1. visit \in Visits /\ visit.phase # "none"
    BY WorkersAreKnown DEF Closed, Footing, VisitFits, Visits
  <2>2. requested \in BOOLEAN
    BY DEF Footing, ChannelsTyped
  <2>3. ASSUME NEW c, Go(c) PROVE visit'.attempt = 1
    BY <2>1, <2>3 DEF Go, Visits
  <2>4. ASSUME NEW p \in WorkerPhases PROVE ~StartVisit(p) /\ ~StartFails(p)
    BY <2>1 DEF StartVisit, StartFails, Offered, Open
  <2>5. ASSUME Throws(visit.phase) \/ Blocks(visit.phase) \/ Returns(recorded, FALSE)
                 \/ Returns(recorded \cup {visit.phase}, FALSE)
        PROVE  FALSE
    BY <2>2, <2>5 DEF Throws, Blocks, Returns, Closed
  <2>6. ASSUME UNCHANGED channels, visit'.attempt = visit.attempt PROVE FALSE
    BY <2>6 DEF channels
  <2>7. ~Tick /\ ~Denied /\ ~ToolFails /\ ~Survey /\ ~Reread /\ ~Return /\ ~RunChecks
    BY <2>3, <2>5, <2>6 DEF Tick, Denied, ToolFails, Survey, Reread, Return, RunChecks
  <2>8. /\ ~InstallFails /\ ~Judge /\ ~BeginConversion /\ ~WriteWorkflow /\ ~SetModuleType
        /\ ~PublishStep
    BY <2>3, <2>5, <2>6
    DEF InstallFails, Judge, BeginConversion, WriteWorkflow, SetModuleType, PublishStep
  <2>9. ASSUME NEW f \in Tests PROVE ~AuthorTest(f)
    BY <2>3, <2>6 DEF AuthorTest
  <2>10. ASSUME NEW t \in Targets PROVE ~MoveDependency(t) /\ ~MoveFails(t)
    BY <2>1, <2>5, <2>6 DEF MoveDependency, MoveFails, Visits
  <2>11. ASSUME NEW f \in Sources PROVE ~RewriteSource(f)
    BY <2>1, <2>6 DEF RewriteSource, Visits
  <2>12. ~PlanConversions
    BY <2>1, <2>5, <2>6 DEF PlanConversions, Visits
  <2>13. RequestElevation
    BY <2>4, <2>7, <2>8, <2>9, <2>10, <2>11, <2>12 DEF Next, Step
  <2>14. QED BY <2>13 DEF RequestElevation, Calling, At, Footing, ApprovalFits
<1>2. QED BY <1>1, FootingHolds, PTL DEF Spec, AskingWritesNothing

-----------------------------------------------------------------------------
\* Where one plan covers every file, the conversion goes with the manifest.

\* Every file is either rewritten or still to do from the plan on, and none is left to do
\* when the manifest's turn comes.
Progress ==
  /\ options.esm /\ visit.at \in {"move", "rewrite"} => tree.converted \cup visit.todo = Sources
  /\ visit.at = "manifest" => tree.converted = Sources

Migration == Footing /\ Progress /\ EveryFileMoves

LEMMA PlansAreWhole ==
  ASSUME Cardinality(Sources) <= MaxConvertedFiles
  PROVE  Covered = {Sources}
<1>1. Cardinality(Sources) \in Nat
  BY FilesAssumption, FS_CardinalityType
<1>2. QED BY <1>1, LimitsAssumption DEF Covered

LEMMA MigrationNext ==
  ASSUME Cardinality(Sources) <= MaxConvertedFiles, Migration, [Next]_vars
  PROVE  Progress' /\ EveryFileMoves'
<1>1. Footing /\ Footing'
  BY FootingNext DEF Migration
<1>2. /\ tree.moved \subseteq Targets /\ tree.converted \subseteq Sources
      /\ tree'.moved \subseteq Targets /\ tree'.converted \subseteq Sources
      /\ options.esm \in BOOLEAN
  BY <1>1, OptionsAssumption DEF Footing, WorldTyped, Options
<1> DEFINE Elsewhere == visit'.at \notin {"move", "rewrite", "manifest"}
           Grew == /\ tree.moved \subseteq tree'.moved /\ tree.converted \subseteq tree'.converted
                   /\ tree'.manifest = tree.manifest
<1>3. ASSUME Grew PROVE EveryFileMoves'
  BY <1>2, <1>3 DEF EveryFileMoves, Migration
<1>4. ASSUME Elsewhere PROVE Progress'
  BY <1>4 DEF Progress
<1>5. CASE Tick \/ UNCHANGED vars
  <2>1. Grew /\ UNCHANGED <<options, visit, tree>>
    BY <1>5 DEF Tick, vars
  <2>2. QED BY <2>1, <1>3 DEF Progress, Migration
<1>6. CASE Survey \/ Reread \/ RunChecks \/ BeginConversion
  <2>1. visit \in Visits /\ UNCHANGED tree
    BY <1>6, <1>1, OpenVisit
    DEF Survey, Reread, RunChecks, BeginConversion, Calling, At, Calls, Needs
  <2>2. Elsewhere
    BY <1>6, <2>1 DEF Survey, Reread, RunChecks, BeginConversion, Go, Visits
  <2>3. QED BY <2>1, <2>2, <1>3, <1>4
<1>7. ASSUME Throws(visit.phase) \/ Blocks(visit.phase) \/ (\E r, a : Returns(r, a)) PROVE Elsewhere
  BY <1>7 DEF Throws, Blocks, Returns, Closed
<1>8. CASE Denied \/ ToolFails \/ InstallFails \/ Judge \/ Return \/ (\E t \in Targets : MoveFails(t))
  <2>1. Elsewhere
    BY <1>8, <1>7 DEF Denied, ToolFails, InstallFails, Judge, Return, MoveFails
  <2>2. UNCHANGED tree \/ \E t \in Targets : tree' = [tree EXCEPT !.moved = @ \cup {t}]
    BY <1>8 DEF Denied, ToolFails, InstallFails, Judge, Return, MoveFails,
                UpdateDependency, Delivered
  <2>3. Grew
    BY <2>2, <1>1 DEF Footing, WorldTyped
  <2>4. QED BY <2>1, <2>3, <1>3, <1>4
<1>9. ASSUME NEW p \in WorkerPhases, StartVisit(p) \/ StartFails(p) PROVE Progress' /\ EveryFileMoves'
  <2>1. UNCHANGED <<options, tree>>
    BY <1>9 DEF StartVisit, StartFails
  <2>2. CASE StartFails(p)
    <3>1. Elsewhere
      BY <2>2 DEF StartFails, Throws, Closed
    <3>2. QED BY <2>1, <3>1, <1>3, <1>4
  <2>3. CASE StartVisit(p)
    <3>1. visit'.at = Opening(p)
      BY <2>3 DEF StartVisit, Session
    <3>2. options.esm => Elsewhere
      BY <3>1 DEF Opening
    <3>3. visit'.at # "manifest"
      BY <3>1 DEF Opening
    <3>4. QED BY <2>1, <3>2, <3>3, <1>3 DEF Progress
  <2>4. QED BY <1>9, <2>2, <2>3
<1>10. CASE (\E f \in Tests : AuthorTest(f)) \/ WriteWorkflow \/ PublishStep
  <2>1. /\ \E c \in {"author", "reread", "branch", "commit", "push", "draft", "return"} : Go(c)
        /\ visit.at \in Calls
    BY <1>10 DEF AuthorTest, WriteWorkflow, PublishStep, AfterPublishing, Calling, At, Calls, Needs
  <2>2. Elsewhere
    BY <2>1, <1>1, OpenVisit DEF Go, Visits
  <2>3. Grew
    BY <1>10, <1>1 DEF AuthorTest, WriteWorkflow, PublishStep, Footing, WorldTyped,
                       WriteTestFile, WriteCiFile, Delivered
  <2>4. QED BY <2>2, <2>3, <1>3, <1>4
<1>11. CASE RequestElevation
  <2>1. visit.phase = "implement" /\ options.esm
    BY <1>11, <1>1, CallsBelong DEF RequestElevation, Calling, At, Calls, Needs, Footing, MoveFits
  <2>2. visit' = Session("implement", 2, TRUE) \/ Returns(recorded, TRUE)
    BY <1>11, <2>1 DEF RequestElevation
  <2>3. Opening("implement") = "read"
    BY <2>1 DEF Opening
  <2>4. visit'.at \in {"read", "closed"}
    <3>1. Session("implement", 2, TRUE).at = "read"
      BY <2>3 DEF Session
    <3>2. Returns(recorded, TRUE) => visit'.at = "closed"
      BY DEF Returns, Closed
    <3>3. QED BY <2>2, <3>1, <3>2
  <2>5. Elsewhere
    BY <2>4
  <2>6. QED BY <1>11, <2>5, <1>3, <1>4 DEF RequestElevation
<1>12. CASE PlanConversions
  <2>1. UNCHANGED <<options, tree>> /\ visit \in Visits
    BY <1>12, <1>1, OpenVisit DEF PlanConversions, Calling, At, Calls, Needs
  <2>2. CASE visit' = [visit EXCEPT !.todo = Sources, !.at = "move"]
    BY <2>1, <2>2, <1>2, <1>3 DEF Progress, Visits
  <2>3. CASE Blocks(visit.phase)
    BY <2>1, <2>3, <1>7, <1>3, <1>4
  <2>4. QED BY <1>12, <2>2, <2>3, PlansAreWhole DEF PlanConversions
<1>13. ASSUME NEW t \in Targets, MoveDependency(t) PROVE Progress' /\ EveryFileMoves'
  <2> DEFINE todo == IF options.esm THEN visit.todo ELSE Sources
             call == IF tree'.moved = Targets THEN AfterWrite(todo) ELSE "move"
  <2>1. /\ visit.at = "move" /\ UNCHANGED options /\ visit \in Visits
        /\ tree' = [tree EXCEPT !.moved = @ \cup {t}]
        /\ visit' = [visit EXCEPT !.todo = todo, !.at = call]
    BY <1>13, <1>1, OpenVisit DEF MoveDependency, Calling, At, Calls, Needs, UpdateDependency
  <2>2. Grew /\ tree'.converted = tree.converted
    BY <2>1, <1>1 DEF Footing, WorldTyped
  <2>3. visit'.todo = todo /\ visit'.at = call
    BY <2>1 DEF Visits
  <2>4. options.esm => tree.converted \cup visit.todo = Sources
    BY <2>1 DEF Migration, Progress
  <2>5. call = "manifest" => options.esm /\ visit.todo = {}
    BY DEF AfterWrite
  <2>6. QED BY <2>1, <2>2, <2>3, <2>4, <2>5, <1>2, <1>3 DEF Progress
<1>14. ASSUME NEW f \in Sources, RewriteSource(f) PROVE Progress' /\ EveryFileMoves'
  <2> DEFINE todo == visit.todo \ {f}
  <2>1. /\ visit.at = "rewrite" /\ UNCHANGED options /\ visit \in Visits
        /\ tree' = [tree EXCEPT !.converted = @ \cup {f}]
        /\ visit' = [visit EXCEPT !.todo = todo, !.at = AfterWrite(todo)]
    BY <1>14, <1>1, OpenVisit DEF RewriteSource, Calling, At, Calls, Needs, WriteSourceFile
  <2>2. Grew /\ tree'.converted = tree.converted \cup {f}
    BY <2>1, <1>1 DEF Footing, WorldTyped
  <2>3. visit'.todo = todo /\ visit'.at = AfterWrite(todo)
    BY <2>1 DEF Visits
  <2>4. options.esm => tree.converted \cup visit.todo = Sources
    BY <2>1 DEF Migration, Progress
  <2>5. options.esm => tree'.converted \cup visit'.todo = Sources
    BY <2>2, <2>3, <2>4, <1>2
  <2>6. visit'.at = "manifest" => options.esm /\ visit'.todo = {}
    BY <2>3 DEF AfterWrite
  <2>7. QED BY <2>1, <2>2, <2>5, <2>6, <1>2, <1>3 DEF Progress
<1>15. CASE SetModuleType
  <2>1. visit.at = "manifest" /\ tree' = [tree EXCEPT !.manifest = "module"] /\ Go("return")
    BY <1>15 DEF SetModuleType, Calling, At, UpdateManifestField
  <2>2. visit.phase = "implement" /\ visit \in Visits
    BY <2>1, <1>1, OpenVisit, CallsBelong DEF Calls, Needs
  <2>3. tree.converted = Sources /\ tree.moved = Targets
    BY <2>1, <2>2, <1>1 DEF Migration, Progress, Footing, MoveFits
  <2>4. tree'.converted = Sources /\ tree'.moved = Targets
    BY <2>1, <2>3, <1>1 DEF Footing, WorldTyped
  <2>5. Elsewhere
    BY <2>1, <2>2 DEF Go, Visits
  <2>6. QED BY <2>4, <2>5, <1>4 DEF EveryFileMoves
<1>16. QED
  BY <1>5, <1>6, <1>8, <1>9, <1>10, <1>11, <1>12, <1>13, <1>14, <1>15 DEF Next, Step

\* Every source file moves with the package's module type, whatever fails or expires in
\* between, provided one conversion plan covers them all (implementer.ts migrateToEsm).
THEOREM FilesMoveTogether ==
  ASSUME Cardinality(Sources) <= MaxConvertedFiles
  PROVE  Spec => []EveryFileMoves
<1>1. Init => Migration
  BY FootingInit DEF Init, Migration, Progress, EveryFileMoves, Closed, Pristine
<1>2. Migration /\ [Next]_vars => Migration'
  BY FootingNext, MigrationNext DEF Migration
<1>3. Migration => EveryFileMoves
  BY DEF Migration
<1>4. QED BY <1>1, <1>2, <1>3, PTL DEF Spec

=============================================================================
