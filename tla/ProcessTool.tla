----------------------------- MODULE ProcessTool -----------------------------
(***************************************************************************)
(* runProcess: the commands a run spawns, one at a time, and the processes *)
(* each of them becomes.  A command is its first process and whatever that *)
(* one forks; any of them may close its output, ignore SIGTERM or leave    *)
(* the process group.  The tool                                            *)
(*                                                                         *)
(*   - settles a call when its first process is gone and its output is     *)
(*     closed at every end;                                                *)
(*   - at the timeout signals the group, and again with SIGKILL five       *)
(*     seconds later, whether the call has settled by then or not.         *)
(*                                                                         *)
(* Under bubblewrap the first process is the sandbox, the others live in   *)
(* its namespace and none survives it; under a seatbelt profile, or none,  *)
(* each process lives on its own.                                          *)
(***************************************************************************)
EXTENDS Integers, FiniteSets

CONSTANTS
  Children,      \* what a command may fork besides its first process
  First,         \* its first process
  Calls          \* how many commands a run spawns

ASSUME ProcessAssumption ==
  /\ First \notin Children
  /\ Calls \in Nat

VARIABLES
  sandbox,       \* what stands around a command on this machine
  call,          \* the number of commands tried so far
  running,       \* whether the last of them has yet to settle
  timedOut,      \* whether its timer has fired
  exit,          \* how its first process ended
  outcome,       \* by call: what its caller was told
  alive,         \* the processes that exist
  detached,      \* those that left the group of their call
  silent,        \* those that hold its output no longer
  deaf,          \* those that ignore SIGTERM
  signalled,     \* the calls whose group was ever sent a signal
  escalations,   \* those of them whose second signal is still to come
  exited         \* whether the run's own process has ended

tool == <<call, running, timedOut, exit, outcome>>
processes == <<alive, detached, silent, deaf>>
signals == <<signalled, escalations>>
processVars == <<sandbox, tool, processes, signals, exited>>

Members == Children \cup {First}
Processes == (1..Calls) \X Members
Of(n) == {p \in Processes : p[1] = n}

Outcomes == {"passed", "failed", "timed_out", "refused"}

ProcessTypeOK ==
  /\ sandbox \in {"namespace", "profile"}
  /\ call \in 0..Calls
  /\ running \in BOOLEAN
  /\ timedOut \in BOOLEAN
  /\ exit \in {"none", "zero", "other"}
  /\ outcome \in [1..Calls -> Outcomes \cup {"none"}]
  /\ alive \subseteq Processes
  /\ detached \subseteq Processes
  /\ silent \subseteq Processes
  /\ deaf \subseteq Processes
  /\ signalled \subseteq 1..Calls
  /\ escalations \subseteq signalled
  /\ exited \in BOOLEAN

ProcessInit ==
  /\ sandbox \in {"namespace", "profile"}
  /\ call = 0
  /\ running = FALSE
  /\ timedOut = FALSE
  /\ exit = "none"
  /\ outcome = [n \in 1..Calls |-> "none"]
  /\ alive = {}
  /\ detached = {}
  /\ silent = {}
  /\ deaf = {}
  /\ signalled = {}
  /\ escalations = {}
  /\ exited = FALSE

Idle == ~running /\ ~exited

\* Nothing but what was signalled: the sandbox shares its host's processes.
GoneIfShared(P) == P

\* What goes when the processes in P do.
Gone(P) ==
  P \cup IF sandbox = "namespace" THEN UNION {Of(p[1]) : p \in {q \in P : q[2] = First}} ELSE {}

\* The processes a signal to the group of a call reaches.  Under bubblewrap the group is
\* the sandbox alone: the rest was given a session of its own.
Group(n) ==
  IF sandbox = "namespace" THEN {<<n, First>>} ELSE Of(n) \ detached

-----------------------------------------------------------------------------
(* The command.                                                             *)

Inherited(S, p, m) == IF p \in S THEN S \cup {<<p[1], m>>} ELSE S

Forks(p, m) ==
  /\ p \in alive
  /\ <<p[1], m>> \notin alive
  /\ alive' = alive \cup {<<p[1], m>>}
  /\ detached' = Inherited(detached, p, m)
  /\ silent' = Inherited(silent, p, m)
  /\ deaf' = Inherited(deaf, p, m)
  /\ UNCHANGED <<sandbox, tool, signals, exited>>

\* The sandbox itself does none of this.
Free(p) == p \in alive /\ ~(sandbox = "namespace" /\ p[2] = First)

\* The first process leads the group and the session it was spawned into, and cannot leave.
Detaches(p) ==
  /\ p \in alive /\ p[2] # First /\ p \notin detached
  /\ detached' = detached \cup {p}
  /\ UNCHANGED <<sandbox, tool, alive, silent, deaf, signals, exited>>

FallsSilent(p) ==
  /\ Free(p) /\ p \notin silent
  /\ silent' = silent \cup {p}
  /\ UNCHANGED <<sandbox, tool, alive, detached, deaf, signals, exited>>

TurnsDeaf(p) ==
  /\ Free(p) /\ p \notin deaf
  /\ deaf' = deaf \cup {p}
  /\ UNCHANGED <<sandbox, tool, alive, detached, silent, signals, exited>>

\* The processes in P end, and the first process of the call leaves a code behind.
End(P) ==
  /\ alive' = alive \ Gone(P)
  /\ detached' = detached \ Gone(P)
  /\ silent' = silent \ Gone(P)
  /\ deaf' = deaf \ Gone(P)
  /\ IF <<call, First>> \in P \cap alive THEN exit' \in {"zero", "other"} ELSE UNCHANGED exit

Exits(p) ==
  /\ p \in alive
  /\ End({p})
  /\ UNCHANGED <<sandbox, call, running, timedOut, outcome, signals, exited>>

-----------------------------------------------------------------------------
(* The tool.                                                                *)

\* No sandbox, a variable that may not be passed on, or nothing to spawn.
Refuses ==
  /\ Idle /\ call < Calls
  /\ call' = call + 1
  /\ outcome' = [outcome EXCEPT ![call + 1] = "refused"]
  /\ UNCHANGED <<sandbox, running, timedOut, exit, processes, signals, exited>>

Spawns ==
  /\ Idle /\ call < Calls
  /\ call' = call + 1
  /\ running' = TRUE
  /\ timedOut' = FALSE
  /\ exit' = "none"
  /\ alive' = alive \cup {<<call + 1, First>>}
  /\ UNCHANGED <<sandbox, outcome, detached, silent, deaf, signals, exited>>

\* Whoever catches SIGTERM and exits with a code of its own has exited with that code.
TimesOut ==
  /\ running /\ ~timedOut
  /\ timedOut' = TRUE
  /\ End(Group(call) \ deaf)
  /\ signalled' = signalled \cup {call}
  /\ escalations' = escalations \cup {call}
  /\ UNCHANGED <<sandbox, call, running, outcome, exited>>

\* The same signal again.
EscalatesIfTerm(n) ==
  /\ n \in escalations /\ ~exited
  /\ escalations' = escalations \ {n}
  /\ End(Group(n) \ deaf)
  /\ UNCHANGED <<sandbox, call, running, timedOut, outcome, signalled, exited>>

Escalates(n) ==
  /\ n \in escalations /\ ~exited
  /\ escalations' = escalations \ {n}
  /\ End(Group(n))
  /\ UNCHANGED <<sandbox, call, running, timedOut, outcome, signalled, exited>>

\* Whether a check passed is the exit code's to say.
ClassifyIfByCode == IF exit = "zero" THEN "passed" ELSE "failed"

Classify ==
  IF timedOut THEN "timed_out" ELSE IF exit = "zero" THEN "passed" ELSE "failed"

Closed == \A p \in alive : p[1] = call => p[2] # First /\ p \in silent

\* The second signal is called off with the timer.
SettlesIfCleared ==
  /\ running /\ Closed
  /\ running' = FALSE
  /\ timedOut' = FALSE
  /\ exit' = "none"
  /\ outcome' = [outcome EXCEPT ![call] = Classify]
  /\ escalations' = escalations \ {call}
  /\ UNCHANGED <<sandbox, call, processes, signalled, exited>>

Settles ==
  /\ running /\ Closed
  /\ running' = FALSE
  /\ timedOut' = FALSE
  /\ exit' = "none"
  /\ outcome' = [outcome EXCEPT ![call] = Classify]
  /\ UNCHANGED <<sandbox, call, processes, signals, exited>>

\* The run is over, or its process dies.  Its timers go with it, and a sandbox too.
RunEnds ==
  /\ ~exited
  /\ exited' = TRUE
  /\ running' = FALSE
  /\ timedOut' = FALSE
  /\ exit' = "none"
  /\ escalations' = {}
  /\ IF sandbox = "namespace"
     THEN alive' = {} /\ detached' = {} /\ silent' = {} /\ deaf' = {}
     ELSE UNCHANGED processes
  /\ UNCHANGED <<sandbox, call, outcome, signalled>>

CommandStep ==
  \E p \in alive :
    \/ \E m \in Children : Forks(p, m)
    \/ Detaches(p) \/ FallsSilent(p) \/ TurnsDeaf(p) \/ Exits(p)

ToolStep ==
  Refuses \/ Spawns \/ TimesOut \/ (\E n \in escalations : Escalates(n)) \/ Settles \/ RunEnds

\* Timers fire, and what is closed is noticed.  Nothing is promised of the command.
ProcessFairness ==
  /\ WF_processVars(TimesOut)
  /\ WF_processVars(\E n \in escalations : Escalates(n))
  /\ WF_processVars(Settles)
=============================================================================
