--------------------------- MODULE MCRunLifecycle ---------------------------
(***************************************************************************)
(* Two invocations, one name that is no UUID, one directory both may name  *)
(* for their artifacts, and three commits: two that differ in their        *)
(* lockfile, and one that merges the commit of the first invocation.  The  *)
(* first assesses, under an id of its own, or upgrades under the name; the *)
(* second applies what the first assessed, under its own id or the         *)
(* assessment's, or upgrades under the name too.                           *)
(***************************************************************************)
EXTENDS RunLifecycle

CONSTANTS r1, r2, nightly, out, c1, c2, merged

MCMerges == [c \in Commits |-> IF c = merged THEN {r1} ELSE {}]

MCLockfile == [c \in Commits |-> IF c = merged THEN c2 ELSE c]

Request(mode, id, target, artifacts, draft, comment) ==
  [mode |-> mode, id |-> id, target |-> target, artifacts |-> artifacts,
   draft |-> draft, comment |-> comment]

MCAsked ==
  [r \in Runs |->
     IF r = r1
     THEN {Request("assess", r1, None, out, FALSE, FALSE),
           Request("upgrade", nightly, None, None, TRUE, TRUE)}
     ELSE {Request("apply", r2, r1, out, FALSE, FALSE),
           Request("apply", r1, r1, None, FALSE, FALSE),
           Request("upgrade", nightly, None, None, TRUE, FALSE)}]
=============================================================================
