---------------------------- MODULE VisitPromise ----------------------------
(***************************************************************************)
(* What the graph may take for granted about the workers it awaits, so     *)
(* that UpgradeRun may take a visit as one step: a migration is made whole *)
(* or not at all as long as the run goes on, and what reaches the remote   *)
(* is whole.  Only a stopped run leaves something half made behind.        *)
(***************************************************************************)

VARIABLES
  package,    \* "untouched", "partial" or "whole"
  stopped,
  published   \* "none", "left" on the remote without a recorded draft, or "open"

vars == <<package, stopped, published>>

Init == package = "untouched" /\ stopped = FALSE /\ published = "none"

Migrate ==
  /\ ~stopped /\ package = "untouched"
  /\ package' = "whole"
  /\ UNCHANGED <<stopped, published>>

Publish ==
  /\ ~stopped /\ package = "whole" /\ published = "none"
  /\ published' = "open"
  /\ UNCHANGED <<package, stopped>>

Abandon ==
  /\ ~stopped
  /\ stopped' = TRUE
  /\ \/ UNCHANGED <<package, published>>
     \/ /\ package = "untouched" /\ package' \in {"partial", "whole"}
        /\ UNCHANGED published
     \/ /\ package = "whole" /\ published = "none" /\ published' = "left"
        /\ UNCHANGED package

Next == Migrate \/ Publish \/ Abandon

Spec == Init /\ [][Next]_vars

=============================================================================
