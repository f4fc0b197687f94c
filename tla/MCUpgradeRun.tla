---------------------------- MODULE MCUpgradeRun ----------------------------
(***************************************************************************)
(* Instances of UpgradeRun.  The ids are the shapes themselves, one of     *)
(* each; a run of this module fixes which sets of them research may        *)
(* return and which options are in play, the two limits among them.        *)
(***************************************************************************)
EXTENDS UpgradeRun

MCKind == [f \in Kinds |-> f]

\* Each shape alone, and the combinations whose shapes pull on each other: two
\* workers on one finding, one that only CI discharges, one that only a person does.
MCSingles == {{f} : f \in Kinds} \cup {{}}
MCResearched ==
  MCSingles \cup
  {{"esm", "node"}, {"esm", "renamed_in_tests"}, {"esm", "removed"},
   {"renamed_in_tests", "node"}, {"removed", "node_high"}, {"removed", "peer"}}

\* What the specification promises at a higher level shows on these already.
MCFew == {{}, {"esm", "node"}, {"renamed_in_tests"}, {"removed"}}

\* `honoured` only matters once an elevation is granted.  The runner's own limits are
\* three attempts and forty steps.
MCAll(limit) ==
  {o \in [jev : BOOLEAN, patchModel : BOOLEAN, granted : BOOLEAN, honoured : BOOLEAN,
          assessmentOnly : BOOLEAN, draft : BOOLEAN, partialAllowed : BOOLEAN,
          maxWorkerAttempts : {limit}, maxGraphSteps : {40}] : o.honoured => o.granted}

MCAssessment == {o \in MCAll(2) : o.assessmentOnly /\ o.draft /\ o.partialAllowed /\ ~o.granted}

\* With the coding model: without it a finding is left to a person, as a peer conflict is
\* with it.
MCJev ==
  {o \in MCAll(2) : o.jev /\ o.patchModel /\ ~o.assessmentOnly /\ o.partialAllowed /\ o.draft}
    \cup MCAssessment
MCDeterministic == {o \in MCAll(3) : ~o.jev /\ ~o.assessmentOnly}

\* Every order an engine may choose, and the fixed order with the default attempts.
MCGraph == MCJev \cup {o \in MCDeterministic : o.draft}

\* Also runs that may attempt nothing, and so exhaust the superstep budget, and runs
\* that are past their step limit from the start.
MCPromise ==
  {o \in MCJev : ~o.assessmentOnly /\ o.granted = o.honoured}
    \cup {o \in MCAll(0) : o.draft /\ ~o.patchModel}
    \cup {[o EXCEPT !.maxGraphSteps = 5] : o \in {p \in MCDeterministic : p.draft /\ ~p.granted}}
=============================================================================
