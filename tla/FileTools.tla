------------------------------ MODULE FileTools ------------------------------
(***************************************************************************)
(* The file tools beside the process tool: what a worker reads, what the   *)
(* checks it runs do to the same files, and what it writes.                *)
(*                                                                         *)
(*   - A read tells the caller the content it found, as a hash.            *)
(*   - A write is refused unless the file still has the content the caller *)
(*     last saw; it goes to a temporary file that then takes the place of  *)
(*     the first, which is created empty when there was none.              *)
(*   - A manifest is edited in place, after the same check.                *)
(*                                                                         *)
(* The calls of a worker follow each other, so nothing else of the run     *)
(* gets in between the steps of a write; a process a check has left behind *)
(* may, and the run's own process may die.                                 *)
(***************************************************************************)
EXTENDS ProcessTool

CONSTANTS
  Files,       \* paths inside the worktree, as resolved
  ClassOf,     \* what classifyPath makes of each
  Contents,    \* what a file may hold
  Empty,       \* nothing, as a file that was just created holds
  Torn,        \* part of what was to be written
  Absent       \* there is no such file

Classes == {"source", "test", "ci", "manifest", "lockfile", "sensitive"}
Writable == {"source", "test", "ci"}

ASSUME FileAssumption ==
  /\ ClassOf \in [Files -> Classes]
  /\ Cardinality({Empty, Torn, Absent}) = 3
  /\ {Empty, Torn, Absent} \cap Contents = {}

Places ==
  {"none", "compare", "create", "write", "rename", "verify", "edit", "store", "failed"}

VARIABLES
  file,        \* the file that is looked at: calls on different files do not meet
  disk,        \* what it holds
  seen,        \* what the worker last saw in it
  write,       \* where the write that is being made has got to, if the last did not just fail
  content      \* what is written

fileVars == <<file, disk, seen, write, content>>
vars == <<processVars, fileVars>>

Held == Contents \cup {Empty, Torn, Absent}

TypeOK ==
  /\ ProcessTypeOK
  /\ file \in Files
  /\ disk \in Held
  /\ seen \in Held
  /\ write \in Places
  /\ content \in Contents

Init ==
  /\ ProcessInit
  /\ file \in Files
  /\ disk \in Contents \cup {Absent}
  /\ seen = Absent
  /\ write = "none"
  /\ content \in Contents

Class == ClassOf[file]

\* No write is being made.
Between == write \in {"none", "failed"}
At(place) == ~exited /\ write = place
Fails == write' = "failed"

\* A command may do to a file what it likes, one whole content at a time.
CommandEdits ==
  /\ alive # {}
  /\ disk' \in Contents \cup {Absent}
  /\ UNCHANGED <<processVars, file, seen, write, content>>

ReadFile ==
  /\ Idle /\ Between
  /\ Class # "sensitive" /\ disk # Absent
  /\ seen' = disk
  /\ UNCHANGED <<processVars, file, disk, write, content>>

-----------------------------------------------------------------------------
(* write_source_file, write_test_file, write_ci_file.                       *)

\* The tool is for one class of files; a file of another class is refused.
StartsWrite(class) ==
  /\ Idle /\ Between
  /\ content' \in Contents
  /\ write' = IF Class = class THEN "compare" ELSE "failed"
  /\ UNCHANGED <<processVars, file, disk, seen>>

\* Only whether there is a file is compared.
ComparesIfPresent ==
  /\ At("compare")
  /\ write' = IF (disk = Absent) # (seen = Absent) THEN "failed"
              ELSE IF disk = Absent THEN "create" ELSE "write"
  /\ UNCHANGED <<processVars, file, disk, seen, content>>

\* What is there may also be no file to replace, too large or unreadable.
Compares ==
  /\ At("compare")
  /\ \/ disk = seen /\ write' = IF disk = Absent THEN "create" ELSE "write"
     \/ Fails
  /\ UNCHANGED <<processVars, file, disk, seen, content>>

\* Exclusively: what has come into being in between is not touched.
Creates ==
  /\ At("create")
  /\ \/ disk = Absent /\ disk' = Empty /\ write' = "write"
     \/ Fails /\ UNCHANGED disk
  /\ UNCHANGED <<processVars, file, seen, content>>

WritesTemporary ==
  /\ At("write")
  /\ write' = "rename" \/ Fails
  /\ UNCHANGED <<processVars, file, disk, seen, content>>

\* What is there goes first.
RenamesIfUnlinked ==
  /\ At("rename")
  /\ \/ disk' = content /\ write' = "verify"
     \/ Fails /\ disk' = Absent
  /\ UNCHANGED <<processVars, file, seen, content>>

Renames ==
  /\ At("rename")
  /\ \/ disk' = content /\ write' = "verify"
     \/ Fails /\ UNCHANGED disk
  /\ UNCHANGED <<processVars, file, seen, content>>

\* The file is read again, which may itself fail, and a write that fails here is not undone.
Verifies ==
  /\ At("verify")
  /\ \/ disk = content /\ write' = "none" /\ seen' = content
     \/ Fails /\ UNCHANGED seen
  /\ UNCHANGED <<processVars, file, disk, content>>

-----------------------------------------------------------------------------
(* update_manifest_field.                                                   *)

\* A manifest that is not JSON, or that the edit would break, is refused as well.
StartsEdit ==
  /\ Idle /\ Between
  /\ content' \in Contents
  /\ \/ Class = "manifest" /\ disk # Absent /\ disk = seen /\ write' = "edit"
     \/ Fails
  /\ UNCHANGED <<processVars, file, disk, seen>>

\* The file is cut off first and filled again.
Truncates ==
  /\ At("edit")
  /\ \/ disk' = Torn /\ write' = "store"
     \/ Fails /\ UNCHANGED disk
  /\ UNCHANGED <<processVars, file, seen, content>>

Stores ==
  /\ At("store")
  /\ \/ disk' = content /\ seen' = content /\ write' = "none"
     \/ Fails /\ UNCHANGED <<disk, seen>>
  /\ UNCHANGED <<processVars, file, content>>

FileStep ==
  \/ ReadFile
  \/ \E class \in Writable : StartsWrite(class)
  \/ Compares \/ Creates \/ WritesTemporary \/ Renames \/ Verifies
  \/ StartsEdit \/ Truncates \/ Stores

\* The tools run in one thread: no command is spawned and no timer fires in the middle of
\* a write.
Next ==
  \/ CommandStep /\ UNCHANGED fileVars
  \/ ToolStep /\ Between /\ UNCHANGED fileVars
  \/ RunEnds /\ UNCHANGED fileVars
  \/ CommandEdits
  \/ FileStep

Spec == Init /\ [][Next]_vars /\ ProcessFairness

-----------------------------------------------------------------------------
(* Properties.                                                              *)

\* Under bubblewrap no process of a command is left when its call has settled, whatever the
\* command forked, detached or hid (process.ts, sandboxedCommand).
NothingOutlivesTheCall ==
  sandbox = "namespace" => \A p \in alive : running /\ p[1] = call

\* A command that was ever signalled is not reported as one that passed, whether its call
\* settles at once, after the second signal or when later calls have been made, and although
\* it may have caught the signal and exited with zero (process.ts, runProcess; packages.ts,
\* classify).
CutOffIsNotPassed == \A n \in signalled : outcome[n] # "passed"

\* A process that hangs on to the output from outside the group.
Holdout ==
  \E p \in alive : sandbox = "profile" /\ p[1] = call /\ p \in detached \ silent

\* A call that is never let go of by such a process ends: at its timeout at the latest, even
\* when everything it forked ignores SIGTERM (process.ts, runProcess).
EveryCallEnds == []<>(~running \/ Holdout)

\* Whatever is left of the group of a call that timed out goes in the end, though the call
\* has settled before, unless the run ends first (process.ts, killTree).
GroupGoesInTheEnd ==
  \A n \in 1..Calls :
    n \in escalations ~> (exited \/ alive \cap Of(n) \subseteq detached)

\* No process of a command that timed out is left once its second signal has been sent
\* (process.ts, runProcess: "does not leave orphans behind when we give up on it").
TimeoutLeavesNoOne ==
  \A p \in alive : outcome[p[1]] = "timed_out" => p[1] \in escalations

\* Under bubblewrap a write replaces exactly the content its caller saw, whatever checks
\* did to the file in between (files.ts, write).
OverwritesWhatWasSeen ==
  [][(sandbox = "namespace" /\ Renames) => disk = IF seen = Absent THEN Empty ELSE seen]_vars

\* Under bubblewrap a write that fails leaves no mixture: up to the rename the file is as its
\* caller saw it, or empty if there was none, and once renamed, when only reading it back can
\* fail, it is the whole of the new content (files.ts, writeAtomic).
FailureIsWhole ==
  [][(sandbox = "namespace" /\ write \in {"create", "write", "rename", "verify"} /\ Fails)
       => disk' \in IF write = "verify" THEN {content}
                    ELSE IF seen = Absent THEN {Absent, Empty} ELSE {seen}]_vars
=============================================================================
