---------------------------- MODULE CiAuthorProofs ----------------------------
(***************************************************************************)
(* Theorems about CiAuthor and NodeRange, for any Node versions, ranges,   *)
(* checks and workflows.                                                   *)
(***************************************************************************)
EXTENDS CiAuthor, WellFoundedInduction, TLAPS

-----------------------------------------------------------------------------
\* Ranges.

LEMMA TermsOfRanges ==
  ASSUME NEW range \in AllRanges, NEW a \in range, NEW t \in a
  PROVE  /\ t.op \in Understood \cup {"other"} /\ t.major \in Majors /\ t.major \in Nat
         /\ t.minor \in (0 .. NewestMinor - 1) \cup {Unstated}
BY NodeRangeAssumption DEF AllRanges, Terms

\* A minor is left out or older than the newest one.
LEMMA MinorOf ==
  ASSUME NEW range \in AllRanges, NEW a \in range, NEW t \in a
  PROVE  \/ t.minor = Unstated
         \/ t.minor \in Nat /\ NewestMinor > t.minor /\ NewestMinor >= t.minor
BY TermsOfRanges, NodeRangeAssumption

\* A version that the reading of an alternative has as met is admitted by each of its
\* terms, so far as none of them is a bare `>`.
LEMMA MetIsAdmitted ==
  ASSUME NEW range \in AllRanges, NEW a \in range, Readable(range),
         \A t \in a : ~IsBareAbove(t),
         NEW pinned \in Majors, pinned # 0, Meets(ParseConjunction(a), pinned)
  PROVE  \A t \in a : AdmittedBy(t, NewestOf(pinned))
<1> SUFFICES ASSUME NEW t \in a PROVE AdmittedBy(t, NewestOf(pinned))
  OBVIOUS
<1>1. /\ t.major \in Nat /\ pinned \in Nat
      /\ \/ t.minor = Unstated
         \/ t.minor \in Nat /\ NewestMinor > t.minor /\ NewestMinor >= t.minor
  BY TermsOfRanges, MinorOf, NodeRangeAssumption
<1>2. t.op \in Understood /\ ~IsBareAbove(t)
  BY DEF Readable
<1>3. \A b \in ReadTerm(t) : IF b.kind = "lower" THEN pinned >= b.major ELSE pinned < b.major
  BY DEF Meets, ParseConjunction
<1>4. NewestOf(pinned).major = pinned /\ NewestOf(pinned).minor = NewestMinor
  BY DEF NewestOf
<1>5. CASE t.op = "^"
  <2>1. pinned >= t.major /\ pinned < t.major + 1
    BY <1>3, <1>5 DEF ReadTerm, Bound
  <2> QED BY <1>1, <1>4, <1>5, <2>1 DEF AdmittedBy, AtLeast
<1>6. CASE t.op \in {">=", ">"}
  <2>1. pinned >= t.major
    BY <1>3, <1>6 DEF ReadTerm, Bound
  <2>2. AtLeast(NewestOf(pinned), t)
    BY <1>1, <1>4, <2>1 DEF AtLeast
  <2>3. t.op = ">" => Beyond(NewestOf(pinned), t)
    BY <1>1, <1>2, <1>4, <2>1 DEF Beyond, IsBareAbove
  <2> QED BY <1>6, <2>2, <2>3 DEF AdmittedBy
<1>7. CASE t.op \in {"<", "<="}
  <2>1. pinned < t.major
    BY <1>3, <1>7 DEF ReadTerm, Bound
  <2>2. ~AtLeast(NewestOf(pinned), t) /\ ~Beyond(NewestOf(pinned), t)
    BY <1>1, <1>4, <2>1 DEF AtLeast, Beyond
  <2> QED BY <1>7, <2>2 DEF AdmittedBy
<1> QED BY <1>2, <1>5, <1>6, <1>7 DEF Understood

\* The floors of a range are majors its terms name, and every lower bound is one.
LEMMA FloorsOfRange ==
  ASSUME NEW range \in AllRanges, Readable(range)
  PROVE  /\ Floors(range) \subseteq Nat
         /\ \A f \in Floors(range) : \E a \in range : \E t \in a :
              f = t.major /\ t.op \in {">=", ">", "^"}
         /\ \A a \in range : \A t \in a : t.op \in {">=", ">", "^"} => t.major \in Floors(range)
<1>1. \A a \in range : \A t \in a : t.op \in Understood
  BY DEF Readable
<1>2. ASSUME NEW f \in Floors(range)
      PROVE  \E a \in range : \E t \in a : f = t.major /\ t.op \in {">=", ">", "^"}
  <2>1. PICK a \in range : \E c \in ParseConjunction(a) : c.kind = "lower" /\ c.major = f
    BY DEF Floors
  <2>2. PICK t \in a : \E c \in ReadTerm(t) : c.kind = "lower" /\ c.major = f
    BY <2>1 DEF ParseConjunction
  <2> QED BY <1>1, <2>2 DEF ReadTerm, Bound, Understood
<1>3. ASSUME NEW a \in range, NEW t \in a, t.op \in {">=", ">", "^"}
      PROVE  t.major \in Floors(range)
  <2>1. Bound("lower", t.major) \in ReadTerm(t)
    BY <1>3 DEF ReadTerm
  <2>2. Bound("lower", t.major) \in UNION {ParseConjunction(b) : b \in range}
    BY <2>1 DEF ParseConjunction
  <2> QED BY <2>2 DEF Floors, Bound
<1> QED BY <1>2, <1>3, TermsOfRanges

LEMMA LowestIsLeast ==
  ASSUME NEW range \in AllRanges, HasFloor(range)
  PROVE  /\ LowestAdmitted(range) \in Floors(range)
         /\ \A f \in Floors(range) : LowestAdmitted(range) <= f
<1>1. Floors(range) \subseteq Nat /\ Floors(range) # {}
  BY FloorsOfRange DEF HasFloor
<1>2. PICK least \in Floors(range) : \A f \in Floors(range) : ~(<<f, least>> \in OpToRel(<, Nat))
  BY <1>1, NatLessThanWellFounded, WFMin
<1>3. \A f \in Floors(range) : ~(f < least)
  BY <1>1, <1>2, Zenon DEF OpToRel
<1>4. \A f \in Floors(range) : least <= f
  BY <1>1, <1>3
<1> QED BY <1>4 DEF LowestAdmitted, Min

\* A version that is admitted by a range whose alternatives all state a floor is of no
\* major below the lowest of them.
LEMMA AdmittedIsAbove ==
  ASSUME NEW range \in AllRanges, HasFloor(range), EachStatesFloor(range),
         NEW v \in Versions, Admits(range, v)
  PROVE  LowestAdmitted(range) <= v.major
<1>1. PICK a \in range : \A t \in a : AdmittedBy(t, v)
  BY DEF Admits
<1>2. PICK t \in a : t.op \in {">=", ">", "^"}
  BY DEF EachStatesFloor
<1>3. t.major \in Nat /\ v.major \in Nat
  BY TermsOfRanges, NodeRangeAssumption DEF Versions
<1>4. v.major >= t.major
  <2>1. AdmittedBy(t, v)
    BY <1>1
  <2>2. AtLeast(v, t) \/ Beyond(v, t)
    BY <1>2, <2>1 DEF AdmittedBy
  <2> QED BY <1>3, <2>2 DEF AtLeast, Beyond
<1>5. LowestAdmitted(range) <= t.major /\ LowestAdmitted(range) \in Nat
  BY <1>2, FloorsOfRange, LowestIsLeast DEF HasFloor
<1> QED BY <1>3, <1>4, <1>5

\* A plain floor admits the newest version of every major from the lowest it names on.
LEMMA AboveIsAdmitted ==
  ASSUME NEW range \in AllRanges, HasFloor(range), StatesFloorsOnly(range),
         \A a \in range : \A t \in a : ~IsBareAbove(t),
         NEW major \in Nat, LowestAdmitted(range) <= major
  PROVE  Admits(range, NewestOf(major))
<1>1. PICK a \in range : \E t \in a : LowestAdmitted(range) = t.major
  BY LowestIsLeast, FloorsOfRange DEF HasFloor
<1>2. PICK t \in a : a = {t} /\ t.op \in {">=", ">"}
  BY DEF StatesFloorsOnly
<1>3. /\ t.major \in Nat
      /\ \/ t.minor = Unstated
         \/ t.minor \in Nat /\ NewestMinor > t.minor /\ NewestMinor >= t.minor
  BY TermsOfRanges, MinorOf
<1>4. NewestOf(major).major = major /\ NewestOf(major).minor = NewestMinor
  BY DEF NewestOf
<1>5. AdmittedBy(t, NewestOf(major))
  <2>1. major >= t.major
    BY <1>1, <1>2, <1>3
  <2>2. AtLeast(NewestOf(major), t)
    BY <1>3, <1>4, <2>1 DEF AtLeast
  <2>3. t.op = ">" => Beyond(NewestOf(major), t)
    BY <1>2, <1>3, <1>4, <2>1 DEF Beyond, IsBareAbove
  <2> QED BY <1>2, <2>2, <2>3 DEF AdmittedBy
<1> QED BY <1>2, <1>5 DEF Admits

-----------------------------------------------------------------------------
\* The visit.

\* What the visit read is what is there until it writes, or nothing; the workflows hold
\* every required check from the first write or report on; and a claim follows from the
\* engines it was made on.
Inv ==
  /\ TypeOK
  /\ pc = "decide" => existing \in {workflows, Unlisted}
  /\ pc \in {"reread", "done"} \/ assessment # "none" => Missing(workflows) = {}
  /\ addressed => Discharged(repository.floors, engines)

LEMMA RepositoriesTyped ==
  ASSUME NEW r \in Repositories
  PROVE  /\ r.checks \subseteq Purposes /\ r.workflows \in [Paths -> Workflows]
         /\ r.floors \subseteq AllRanges /\ r.engines \in AllRanges \cup {NoRange}
BY CiAuthorAssumption

LEMMA AuthoredCovers ==
  ASSUME TypeOK
  PROVE  /\ Authored(Required) \in Workflows
         /\ \A p \in Required : \E l \in Authored(Required).lines :
              l.place = "run" /\ l.purpose = p /\ l.runs
<1>1. Required \subseteq AllPurposes
  BY RepositoriesTyped DEF TypeOK, Required, AllPurposes
<1>2. \A p \in AllPurposes : [place |-> "run", purpose |-> p, runs |-> TRUE] \in Lines
  BY DEF Lines, Places
<1>3. \A p \in Required : [place |-> "run", purpose |-> p, runs |-> TRUE] \in StepsFor(Required)
  BY DEF StepsFor
<1>4. StepsFor(Required) \subseteq Lines
  BY <1>1, <1>2 DEF StepsFor
<1> QED BY <1>3, <1>4 DEF Authored, Workflows

\* A floor the visit may discharge is one npm agrees the pinned version meets.
LEMMA DischargedIsAdmitted ==
  ASSUME NEW r \in AllRanges, NEW declared, PinnedMajor \in Majors, PinnedMajor # 0,
         \A a \in r : \A t \in a : ~IsBareAbove(t),
         DischargedByWorkflow(r, declared, PinnedMajor)
  PROVE  Admits(r, NewestOf(PinnedMajor))
<1>1. Readable(r)
  BY DEF DischargedByWorkflow, Satisfies
<1>2. PICK a \in r : Meets(ParseConjunction(a), PinnedMajor)
  BY DEF DischargedByWorkflow, Satisfies
<1>3. \A t \in a : AdmittedBy(t, NewestOf(PinnedMajor))
  BY <1>1, <1>2, MetIsAdmitted
<1> QED BY <1>3 DEF Admits

LEMMA UnlistedTyped == Unlisted \in [Paths -> Workflows]
BY DEF Unlisted, NotThere, Workflows

\* An install step is always required, so a visit that saw nothing never finds enough.
LEMMA UnlistedIsShort == Missing(Unlisted) # {}
<1>1. \A p \in Paths : Covered(Unlisted[p]) = {}
  BY DEF Unlisted, NotThere, Covered
<1>2. "install" \in Missing(Unlisted)
  BY <1>1 DEF Missing, Required
<1> QED BY <1>2

LEMMA InitInv == Init => Inv
<1> SUFFICES ASSUME Init PROVE Inv
  OBVIOUS
<1>1. workflows \in [Paths -> Workflows]
  BY RepositoriesTyped DEF Init
<1> QED BY <1>1, UnlistedTyped DEF Init, Inv, TypeOK

LEMMA StepInv == Inv /\ [Next]_vars => Inv'
<1> SUFFICES ASSUME Inv, [Next]_vars PROVE Inv'
  OBVIOUS
<1> USE DEF Inv, TypeOK
<1>1. CASE ReadsWorkflows
  <2>1. existing' \in [Paths -> Workflows] /\ existing' \in {workflows', Unlisted'}
    BY <1>1, UnlistedTyped DEF ReadsWorkflows, Readings, Unlisted
  <2> QED BY <1>1, <2>1 DEF ReadsWorkflows, Missing, Required
<1>2. CASE FindsEnough
  <2>1. Missing(workflows) = {}
    BY <1>2, UnlistedIsShort DEF FindsEnough
  <2> QED BY <1>2, <2>1 DEF FindsEnough, Missing, Required, Credited
<1>3. CASE WritesWorkflow
  <2>1. workflows' \in [Paths -> Workflows]
    BY <1>3, AuthoredCovers DEF WritesWorkflow
  <2>2. workflows'[Own] = Authored(Required) /\ Own \in Paths
    BY <1>3 DEF WritesWorkflow, Paths
  <2>3. \A p \in Required : p \in Covered(workflows'[Own])
    BY <2>2, AuthoredCovers DEF Covered
  <2>4. Missing(workflows)' = {}
    BY <1>3, <2>2, <2>3 DEF WritesWorkflow, Missing, Required
  <2> QED BY <1>3, <2>1, <2>4 DEF WritesWorkflow
<1>4. CASE Reports
  <2>1. Missing(workflows) = {} /\ Missing(workflows)' = {}
    BY <1>4 DEF Reports, Missing, Required
  <2>2. repository.engines \in AllRanges \cup {NoRange}
    BY RepositoriesTyped
  <2>3. assessment' \in {"sufficient", "short"} /\ credited' \subseteq Paths
    BY <1>4 DEF Reports, Credited
  <2>4. PICK declared \in {repository.engines, NoRange} :
          IF Discharged(repository.floors, declared)
          THEN addressed' = TRUE /\ engines' = declared
          ELSE UNCHANGED <<addressed, engines>>
    BY <1>4 DEF Reports
  <2>5. /\ engines' \in AllRanges \cup {NoRange} /\ addressed' \in BOOLEAN
        /\ addressed' => Discharged(repository.floors, engines')
    BY <2>2, <2>4
  <2> QED BY <1>4, <2>1, <2>3, <2>5 DEF Reports, Discharged
<1>5. CASE Revisits
  BY <1>5 DEF Revisits, Missing, Required
<1>6. CASE VisitFails
  BY <1>6 DEF VisitFails, Missing, Required
<1>7. CASE UNCHANGED vars
  BY <1>7 DEF vars, Missing, Required
<1> QED BY <1>1, <1>2, <1>3, <1>4, <1>5, <1>6, <1>7 DEF Next

\* Every variable keeps to its type, and the invariant of the visit with it, for any
\* repositories (ci-author.ts, createCiAuthor).
THEOREM InvariantHolds == Spec => []Inv
BY InitInv, StepInv, PTL DEF Spec

\* Whatever a listing failed to show it, a visit that has reported leaves a step for every
\* required check in the workflows (ci-author.ts, createCiAuthor and readWorkflows).
THEOREM ReportedHolds == Spec => []ReportedIsCovered
<1>1. Inv => ReportedIsCovered
  BY DEF Inv, ReportedIsCovered
<1> QED BY <1>1, InvariantHolds, PTL

\* No gate that was there is lost to the workflow a run writes, whatever the file it
\* replaces held (ci-author.ts, workflowFor).
THEOREM GateHolds == Spec => RequiredGateStays
<1>1. Inv /\ [Next]_vars => [\A p \in Required : Gated(p) => Gated(p)']_vars
  <2> SUFFICES ASSUME Inv, [Next]_vars, NEW p \in Required, Gated(p)
               PROVE  Gated(p)'
    OBVIOUS
  <2>1. CASE UNCHANGED workflows
    BY <2>1 DEF Gated
  <2>2. CASE WritesWorkflow
    <3>1. workflows'[Own] = Authored(Required) /\ Own \in Paths
      BY <2>2 DEF WritesWorkflow, Paths, Inv, TypeOK
    <3>2. PICK l \in Authored(Required).lines : l.place = "run" /\ l.purpose = p /\ l.runs
      BY AuthoredCovers DEF Inv
    <3> QED BY <3>1, <3>2 DEF Gated
  <2> QED BY <2>1, <2>2 DEF Next, ReadsWorkflows, FindsEnough, Reports, Revisits,
         VisitFails, vars
<1> QED BY <1>1, InvariantHolds, PTL DEF Spec, RequiredGateStays

\* For any ranges of any length, a claimed floor is one npm agrees the pinned version
\* meets, and a declared range of floors admits no major below a claimed plain one
\* (ci-author.ts, dischargedByWorkflow, satisfies and lowestAdmitted).
THEOREM ClaimHolds == Spec => []ClaimedFloorIsMet
<1>1. Inv => ClaimedFloorIsMet
  <2> SUFFICES ASSUME Inv, addressed, FloorsRead = repository.floors
               PROVE  \E r \in repository.floors :
                        /\ Admits(r, NewestOf(PinnedMajor))
                        /\ engines # NoRange /\ EachStatesFloor(engines) /\ StatesFloorsOnly(r)
                             => \A v \in Versions : Admits(engines, v) => Admits(r, NewestOf(v.major))
    BY DEF ClaimedFloorIsMet
  <2>1. PICK r \in repository.floors : DischargedByWorkflow(r, engines, PinnedMajor)
    BY DEF Inv, Discharged
  <2>2. /\ r \in AllRanges /\ engines \in AllRanges \cup {NoRange}
        /\ PinnedMajor \in Majors /\ PinnedMajor # 0
    BY RepositoriesTyped, CiAuthorAssumption DEF Inv, TypeOK
  <2>3. Readable(r) /\ \A a \in r : \A t \in a : ~IsBareAbove(t)
    BY DEF FloorsRead
  <2>4. Admits(r, NewestOf(PinnedMajor))
    BY <2>1, <2>2, <2>3, DischargedIsAdmitted
  <2>5. ASSUME engines # NoRange, EachStatesFloor(engines), StatesFloorsOnly(r),
               NEW v \in Versions, Admits(engines, v)
        PROVE  Admits(r, NewestOf(v.major))
    <3>1. /\ HasFloor(engines) /\ HasFloor(r)
          /\ LowestAdmitted(engines) >= LowestAdmitted(r)
      BY <2>1, <2>5 DEF DischargedByWorkflow
    <3>2. engines \in AllRanges /\ v.major \in Nat
      BY <2>2, <2>5, NodeRangeAssumption DEF Versions
    <3>3. LowestAdmitted(engines) <= v.major
      BY <2>5, <3>1, <3>2, AdmittedIsAbove
    <3>4. LowestAdmitted(engines) \in Nat /\ LowestAdmitted(r) \in Nat
      BY <2>2, <3>1, <3>2, LowestIsLeast, FloorsOfRange DEF HasFloor
    <3>5. LowestAdmitted(r) <= v.major
      BY <3>1, <3>2, <3>3, <3>4
    <3> QED BY <2>2, <2>3, <2>5, <3>1, <3>2, <3>5, AboveIsAdmitted
  <2> QED BY <2>4, <2>5
<1> QED BY <1>1, InvariantHolds, PTL

\* The condition under which EveryFloorIsMet does hold: with one stated floor at most, a
\* claim is a claim about that floor, and npm agrees (ci-author.ts, dischargedByWorkflow).
THEOREM SingleFloorIsMet ==
  Spec => []((\A r, s \in repository.floors : r = s) => EveryFloorIsMet)
<1>1. Inv => ((\A r, s \in repository.floors : r = s) => EveryFloorIsMet)
  <2> SUFFICES ASSUME Inv, \A r, s \in repository.floors : r = s, addressed,
                      NEW r \in FloorsRead
               PROVE  Admits(r, NewestOf(PinnedMajor))
    BY DEF EveryFloorIsMet
  <2>1. PICK s \in repository.floors : DischargedByWorkflow(s, engines, PinnedMajor)
    BY DEF Inv, Discharged
  <2>2. r = s /\ r \in AllRanges /\ PinnedMajor \in Majors /\ PinnedMajor # 0
    BY <2>1, RepositoriesTyped, CiAuthorAssumption DEF Inv, TypeOK, FloorsRead
  <2> QED BY <2>1, <2>2, DischargedIsAdmitted DEF FloorsRead
<1> QED BY <1>1, InvariantHolds, PTL
=============================================================================
