------------------------------- MODULE CiAuthor -------------------------------
(***************************************************************************)
(* The CI author's visit to a worktree (workers/ci-author.ts): it reads    *)
(* the workflows, writes one of its own when a check the upgrade was       *)
(* verified against is in none of them, reads them again, and claims the   *)
(* raised Node floors its workflow discharges.  A listing that fails is    *)
(* taken for an empty one; any other call that fails ends the visit, and   *)
(* with it the run.  A visit whose re-read saw nothing reports too little  *)
(* and is made again.  A workflow of an earlier upgrade may be there, as   *)
(* it was written or as somebody has changed it since.                     *)
(*                                                                         *)
(* A workflow is the set of its lines; a line mentions one purpose.  Where *)
(* it stands decides whether it is read as a step, and `runs` whether the  *)
(* shell gets to run the check: a commented line of a block, or one that   *)
(* only prints the command, is read and runs nothing.                      *)
(***************************************************************************)
EXTENDS NodeRange

CONSTANTS
  Purposes,        \* the checks besides "install"
  Repositories,    \* what the visits may find
  PinnedMajor      \* WORKFLOW_NODE_MAJOR

Own == "safe-upgrade-checks.yml"
Theirs == "ci.yml"
Paths == {Own, Theirs}
AllPurposes == Purposes \cup {"install"}

\* "indirect" is a step that reaches the check by a script's other name; "aside" any
\* line outside the steps' commands, the env of a step among them.
Places == {"run", "block", "indirect", "aside"}
Lines == [place : Places, purpose : AllPurposes, runs : BOOLEAN]
Risks == {"write_permission", "secret_read", "deploy_step"}
Workflows == [exists : BOOLEAN, lines : SUBSET Lines, risks : SUBSET Risks]

NotThere == [exists |-> FALSE, lines |-> {}, risks |-> {}]

ASSUME CiAuthorAssumption ==
  /\ PinnedMajor \in Majors \ {0} /\ "install" \notin Purposes
  /\ \A r \in Repositories :
       /\ r.checks \subseteq Purposes
       /\ r.floors \subseteq AllRanges /\ r.engines \in AllRanges \cup {NoRange}
       /\ r.workflows \in [Paths -> Workflows]
       /\ \A f \in Paths : ~r.workflows[f].exists => r.workflows[f] = NotThere

VARIABLES
  repository,    \* what the run is about: the raised floors, the engines, the checks
  workflows,     \* .github/workflows in the worktree
  pc,            \* the call the visit is at
  existing,      \* what the visit read first
  assessment,    \* "none", "sufficient" or "short"
  credited,      \* the workflows whose risks it states
  engines,       \* what its latest claim took the repository's engines to be
  addressed      \* the id "node-requirement-raised" is claimed

vars == <<repository, workflows, pc, existing, assessment, credited, engines, addressed>>

Required == {"install"} \cup repository.checks

\* coveredPurposes, from the lines runLines finds.
Covered(w) == {l.purpose : l \in {m \in w.lines : m.place \in {"run", "block"}}}

Missing(found) == Required \ UNION {Covered(found[p]) : p \in Paths}

Credited(found) ==
  {p \in Paths : Covered(found[p]) \cap Required # {} /\ found[p].risks # {}}

StepsFor(purposes) == {[place |-> "run", purpose |-> p, runs |-> TRUE] : p \in purposes}

AuthoredIfMissing(required) ==
  [exists |-> TRUE, lines |-> StepsFor({"install"} \cup Missing(existing)), risks |-> {}]

AuthoredIfChecksOnly(required) ==
  [exists |-> TRUE, lines |-> StepsFor(required \ {"install"}), risks |-> {}]

\* workflowFor: everything required, not what is missing.  It grants `contents: read`
\* and reads no secret, so inspecting it finds nothing and the visit never refuses it.
Authored(required) == [exists |-> TRUE, lines |-> StepsFor(required), risks |-> {}]

\* nodeFindingsSatisfied: the targets' findings carry one id between them.
Discharged(floors, declared) ==
  \E r \in floors : DischargedByWorkflow(r, declared, PinnedMajor)

\* What a reading of the workflows finds: all of them, or none when they cannot be listed.
Unlisted == [p \in Paths |-> NotThere]
Readings == {workflows, Unlisted}

-----------------------------------------------------------------------------
Init ==
  /\ repository \in Repositories
  /\ workflows = [p \in Paths |-> repository.workflows[p]]
  /\ pc = "read"
  /\ existing = Unlisted
  /\ assessment = "none" /\ credited = {} /\ engines = NoRange /\ addressed = FALSE

ReadsWorkflows ==
  /\ pc = "read"
  /\ existing' \in Readings
  /\ pc' = "decide"
  /\ UNCHANGED <<repository, workflows, assessment, credited, engines, addressed>>

\* Nothing is missing: nothing is written, and no floor is claimed either.
FindsEnough ==
  /\ pc = "decide" /\ Missing(existing) = {}
  /\ assessment' = "sufficient"
  /\ credited' = credited \cup Credited(existing)
  /\ pc' = "done"
  /\ UNCHANGED <<repository, workflows, existing, engines, addressed>>

\* The write expects the hash just read, or no file: one that was not listed refuses it.
\* Nobody else writes workflows.
WritesWorkflow ==
  /\ pc = "decide" /\ Missing(existing) # {}
  /\ existing[Own] = workflows[Own]
  /\ workflows' = [workflows EXCEPT ![Own] = Authored(Required)]
  /\ pc' = "reread"
  /\ UNCHANGED <<repository, existing, assessment, credited, engines, addressed>>

\* The re-read, the manifest's engines and the report.  A manifest that cannot be read
\* counts as one that declares nothing.  A claim once made stays.
Reports ==
  /\ pc = "reread"
  /\ \E found \in Readings :
       assessment' = IF Missing(found) = {} THEN "sufficient" ELSE "short"
  /\ credited' = credited \cup Credited(existing)
  /\ \E declared \in {repository.engines, NoRange} :
       IF Discharged(repository.floors, declared)
       THEN addressed' = TRUE /\ engines' = declared
       ELSE UNCHANGED <<addressed, engines>>
  /\ pc' = "done"
  /\ UNCHANGED <<repository, workflows, existing>>

\* While CI is not sufficient the visit is offered again (as often as the attempts allow).
Revisits ==
  /\ pc = "done" /\ assessment = "short"
  /\ pc' = "read"
  /\ UNCHANGED <<repository, workflows, existing, assessment, credited, engines, addressed>>

\* A refused or expired call other than a listing, a refused write among them: nothing is
\* reported.
VisitFails ==
  /\ pc \in {"read", "decide", "reread"}
  /\ pc' = "failed"
  /\ UNCHANGED <<repository, workflows, existing, assessment, credited, engines, addressed>>

Next ==
  ReadsWorkflows \/ FindsEnough \/ WritesWorkflow \/ Reports \/ Revisits \/ VisitFails

Spec == Init /\ [][Next]_vars

-----------------------------------------------------------------------------
\* Properties.

TypeOK ==
  /\ repository \in Repositories
  /\ workflows \in [Paths -> Workflows] /\ existing \in [Paths -> Workflows]
  /\ pc \in {"read", "decide", "reread", "done", "failed"}
  /\ assessment \in {"none", "sufficient", "short"}
  /\ credited \subseteq Paths
  /\ engines \in AllRanges \cup {NoRange} /\ addressed \in BOOLEAN

FloorsRead == {r \in repository.floors : Readable(r) /\ \A a \in r : \A t \in a : ~IsBareAbove(t)}

\* A claimed floor is one npm agrees the newest pinned version meets, whatever form it
\* has; and where it is a plain floor and each alternative of `engines` states one too,
\* no version the repository still admits is of a major below it (ci-author.ts:300).
ClaimedFloorIsMet ==
  addressed /\ FloorsRead = repository.floors =>
    \E r \in repository.floors :
      /\ Admits(r, NewestOf(PinnedMajor))
      /\ engines # NoRange /\ EachStatesFloor(engines) /\ StatesFloorsOnly(r)
           => \A v \in Versions : Admits(engines, v) => Admits(r, NewestOf(v.major))

Gated(p) ==
  \E f \in Paths : \E l \in workflows[f].lines : l.runs /\ l.place # "aside" /\ l.purpose = p

\* A check that was required and gated stays gated, although the run's own workflow of
\* an earlier upgrade is replaced whole and may have been edited since (ci-author.ts:449).
RequiredGateStays == [][\A p \in Required : Gated(p) => Gated(p)']_vars

\* Once a visit has reported, the workflows hold a step for every required check, though a
\* listing may have failed before its decision or after its write, and though it may itself
\* report too little (ci-author.ts, createCiAuthor and readWorkflows).
ReportedIsCovered == pc = "done" => Missing(workflows) = {}

\* "Claimed only when the pinned version actually satisfies the floor the researcher
\* found" (ci-author.ts:105): each of them, where several targets raised theirs.
EveryFloorIsMet ==
  addressed => \A r \in FloorsRead : Admits(r, NewestOf(PinnedMajor))
=============================================================================
