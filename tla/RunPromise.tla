----------------------------- MODULE RunPromise -----------------------------
(***************************************************************************)
(* What one run promises to whoever started it, however its steps are      *)
(* chosen: a passing verification is given once and never taken back, a    *)
(* draft only ever follows one, a recorded stop is final, and the run ends *)
(* with exactly one classification that agrees with all three.             *)
(***************************************************************************)

VARIABLES
  stopped,    \* a blocking condition or a prohibited action is on record
  judged,     \* the last verification: "not_run", "failed" or "passed"
  published,  \* "none", "pushed" or "open"
  outcome     \* "none" until the run is classified

vars == <<stopped, judged, published, outcome>>

Statuses == {"verified", "partial", "human_required", "blocked", "indeterminate"}

Init == /\ stopped = FALSE
        /\ judged = "not_run"
        /\ published = "none"
        /\ outcome = "none"

Running == ~stopped /\ outcome = "none"

\* A verification that fails may stop the run as well; one that passes does not.
Judge ==
  /\ Running /\ judged # "passed"
  /\ \/ judged' = "failed" /\ stopped' \in BOOLEAN
     \/ judged' = "passed" /\ UNCHANGED stopped
  /\ UNCHANGED <<published, outcome>>

Stop ==
  /\ Running
  /\ stopped' = TRUE
  /\ UNCHANGED <<judged, published, outcome>>

\* Opening the draft is the last thing the run does to the world.  When it fails
\* half way the branch may be out there, and the run is stopped.
Publish ==
  /\ Running /\ judged = "passed" /\ published = "none"
  /\ \/ published' = "open" /\ UNCHANGED stopped
     \/ published' = "pushed" /\ stopped' = TRUE
  /\ UNCHANGED <<judged, outcome>>

Settle ==
  /\ outcome = "none"
  /\ outcome' \in Statuses
  /\ stopped => outcome' = "blocked"
  /\ outcome' = "verified" => judged = "passed"
  /\ outcome' = "human_required" => judged # "passed" /\ published = "none"
  /\ UNCHANGED <<stopped, judged, published>>

Next == Judge \/ Stop \/ Publish \/ Settle

Spec == Init /\ [][Next]_vars /\ WF_vars(Settle)

=============================================================================
