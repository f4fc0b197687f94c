--------------------------- MODULE FileToolsProofs ---------------------------
(***************************************************************************)
(* Theorems about FileTools and the ProcessTool in it, for any number of   *)
(* calls, any processes they fork and any contents: what a call leaves     *)
(* behind, and what a write may count on while it is made.                 *)
(***************************************************************************)
EXTENDS FileTools, TLAPS

-----------------------------------------------------------------------------
\* What ends when a signal arrives.

LEMMA ProcessesArePairs ==
  ASSUME NEW p \in Processes
  PROVE  /\ p = <<p[1], p[2]>> /\ p[1] \in 1 .. Calls /\ p[2] \in Members
         /\ p \in Of(p[1]) /\ \A m \in Members : <<p[1], m>> \in Processes
BY DEF Processes, Of

LEMMA GoneMeans ==
  ASSUME NEW P
  PROVE  /\ P \subseteq Gone(P)
         /\ sandbox # "namespace" => Gone(P) = P
         /\ sandbox = "namespace" =>
              \A p \in Gone(P) \ P : \E q \in P : q[2] = First /\ p \in Of(q[1])
         /\ sandbox = "namespace" =>
              \A n : <<n, First>> \in P => Of(n) \subseteq Gone(P)
BY DEF Gone

-----------------------------------------------------------------------------
\* Types.

\* What happens to processes, seen from the files.
ProcessStep == CommandStep \/ ToolStep \/ UNCHANGED processVars

LEMMA NextIsProcessStep ==
  ASSUME [Next]_vars
  PROVE  /\ ProcessStep
         /\ UNCHANGED fileVars \/ (UNCHANGED processVars /\ (CommandEdits \/ FileStep))
<1>1. CommandEdits \/ FileStep => UNCHANGED processVars
  BY DEF CommandEdits, FileStep, ReadFile, StartsWrite, Compares, Creates, WritesTemporary,
         Renames, Verifies, StartsEdit, Truncates, Stores
<1>2. RunEnds => ToolStep
  BY DEF ToolStep
<1>3. QED BY <1>1, <1>2 DEF Next, vars, ProcessStep

\* A call that runs is the last one tried, and nothing has been said of it or of a later
\* one; only calls that were tried have been signalled, and the one that runs only after its
\* timeout.
CallsInOrder ==
  /\ running => call \in 1 .. Calls /\ outcome[call] = "none"
  /\ \A n \in 1 .. Calls : n > call => outcome[n] = "none"
  /\ \A n \in signalled : n <= call
  /\ running /\ call \in signalled => timedOut

ProcessShape == ProcessTypeOK /\ CallsInOrder

LEMMA InitProcessShape == Init => ProcessShape
<1> SUFFICES ASSUME Init PROVE ProcessShape OBVIOUS
<1>1. Calls \in Nat BY ProcessAssumption
<1>2. ProcessTypeOK
  <2>1. call \in 0 .. Calls
    BY <1>1 DEF Init, ProcessInit
  <2>2. outcome \in [1 .. Calls -> Outcomes \cup {"none"}]
    BY DEF Init, ProcessInit
  <2>3. QED BY <2>1, <2>2 DEF Init, ProcessInit, ProcessTypeOK
<1>3. CallsInOrder
  BY DEF Init, ProcessInit, CallsInOrder
<1>4. QED BY <1>2, <1>3 DEF ProcessShape

\* What a command does to itself leaves what the tool knows of it alone, all but the code.
LEMMA CommandLeaves ==
  ASSUME CommandStep
  PROVE  UNCHANGED <<sandbox, call, running, timedOut, outcome, signals, exited>>
<1>1. PICK p \in alive : (\E m \in Children : Forks(p, m)) \/ Detaches(p) \/ FallsSilent(p)
                           \/ TurnsDeaf(p) \/ Exits(p)
  BY DEF CommandStep
<1>2. CASE \E m \in Children : Forks(p, m)
  BY <1>2 DEF Forks, tool
<1>3. CASE Detaches(p) \/ FallsSilent(p) \/ TurnsDeaf(p)
  BY <1>3 DEF Detaches, FallsSilent, TurnsDeaf, tool
<1>4. CASE Exits(p)
  BY <1>4 DEF Exits
<1>5. QED BY <1>1, <1>2, <1>3, <1>4

LEMMA NextCall ==
  ASSUME ProcessShape, call < Calls
  PROVE  call + 1 \in 1 .. Calls /\ call + 1 \in 0 .. Calls /\ <<call + 1, First>> \in Processes
<1>1. call \in Nat /\ Calls \in Nat
  BY ProcessAssumption DEF ProcessShape, ProcessTypeOK
<1>2. call + 1 \in 1 .. Calls /\ call + 1 \in 0 .. Calls
  BY <1>1
<1>3. QED BY <1>2 DEF Processes, Members

LEMMA ProcessTyped ==
  ASSUME ProcessShape, ProcessStep
  PROVE  ProcessTypeOK'
<1> USE DEF ProcessShape, ProcessTypeOK, tool, processes, signals
<1>1. ASSUME NEW p \in alive, NEW m \in Children, Forks(p, m) PROVE ProcessTypeOK'
  <2>1. <<p[1], m>> \in Processes
    BY ProcessesArePairs DEF Members
  <2>2. QED BY <1>1, <2>1 DEF Forks, Inherited
<1>2. ASSUME NEW p \in alive, Detaches(p) \/ FallsSilent(p) \/ TurnsDeaf(p)
      PROVE  ProcessTypeOK'
  BY <1>2 DEF Detaches, FallsSilent, TurnsDeaf
<1>3. ASSUME NEW p \in alive, Exits(p) PROVE ProcessTypeOK'
  BY <1>3 DEF Exits, End
<1>4. CASE Refuses
  <2>1. call' \in 0 .. Calls
    BY <1>4, NextCall DEF Refuses
  <2>2. outcome' \in [1 .. Calls -> Outcomes \cup {"none"}]
    BY <1>4 DEF Refuses, Outcomes
  <2>3. QED BY <1>4, <2>1, <2>2 DEF Refuses
<1>5. CASE Spawns
  <2>1. call' \in 0 .. Calls /\ alive' \subseteq Processes
    BY <1>5, NextCall DEF Spawns
  <2>2. QED BY <1>5, <2>1 DEF Spawns
<1>6. CASE TimesOut
  BY <1>6 DEF TimesOut, End, CallsInOrder
<1>7. ASSUME NEW n \in escalations, Escalates(n) PROVE ProcessTypeOK'
  BY <1>7 DEF Escalates, End
<1>8. CASE Settles
  BY <1>8 DEF Settles, Classify, Outcomes
<1>9. CASE RunEnds
  BY <1>9 DEF RunEnds
<1>10. CASE UNCHANGED processVars
  BY <1>10 DEF processVars
<1>11. ASSUME NEW p \in alive,
             (\E m \in Children : Forks(p, m)) \/ Detaches(p) \/ FallsSilent(p) \/ TurnsDeaf(p)
               \/ Exits(p)
       PROVE ProcessTypeOK'
  BY ONLY <1>1, <1>2, <1>3, <1>11
<1>12. QED
  BY ONLY ProcessStep, <1>4, <1>5, <1>6, <1>7, <1>8, <1>9, <1>10, <1>11
  DEF ProcessStep, CommandStep, ToolStep

LEMMA StepCallsInOrder ==
  ASSUME ProcessShape, ProcessStep
  PROVE  CallsInOrder'
<1> USE DEF ProcessShape, CallsInOrder, tool, processes, signals
<1>1. call \in Nat /\ signalled \subseteq Nat /\ Calls \in Nat
  BY ProcessAssumption DEF ProcessTypeOK
<1>2. CASE CommandStep
  BY <1>2, CommandLeaves
<1>3. CASE Refuses
  BY <1>1, <1>3, NextCall DEF Refuses, ProcessTypeOK, Idle
<1>4. CASE Spawns
  BY <1>1, <1>4, NextCall DEF Spawns, ProcessTypeOK, Idle
<1>5. CASE TimesOut
  BY <1>1, <1>5 DEF TimesOut
<1>6. ASSUME NEW n \in escalations, Escalates(n) PROVE CallsInOrder'
  BY <1>1, <1>6 DEF Escalates
<1>7. CASE Settles
  BY <1>1, <1>7 DEF Settles, ProcessTypeOK
<1>8. CASE RunEnds
  BY <1>1, <1>8 DEF RunEnds
<1>9. CASE UNCHANGED processVars
  BY <1>9 DEF processVars
<1>10. QED
  BY ONLY ProcessStep, <1>2, <1>3, <1>4, <1>5, <1>6, <1>7, <1>8, <1>9
  DEF ProcessStep, ToolStep

-----------------------------------------------------------------------------
\* What is left of a call.

\* Under bubblewrap there are processes of the call that runs only, and not without the
\* sandbox they are in.
NamespaceHolds ==
  sandbox = "namespace" =>
    \A p \in alive : running /\ p[1] = call /\ <<call, First>> \in alive

\* In the namespace of a call all of its processes end with the first, and a signal to
\* another call's ends none of them.
LEMMA EndInNamespace ==
  ASSUME ProcessShape, NamespaceHolds, sandbox = "namespace", NEW P, End(P)
  PROVE  alive' = {} \/ (<<call, First>> \in alive' /\ alive' \subseteq alive)
<1>1. alive' = alive \ Gone(P)
  BY DEF End
<1>2. CASE <<call, First>> \in Gone(P) /\ alive # {}
  <2>1. call \in 1 .. Calls /\ alive \subseteq Of(call)
    BY <1>2, ProcessesArePairs
       DEF NamespaceHolds, ProcessShape, ProcessTypeOK, CallsInOrder
  <2>2. Of(call) \subseteq Gone(P)
    <3>1. CASE <<call, First>> \in P
      BY <3>1, GoneMeans
    <3>2. CASE <<call, First>> \notin P
      <4>1. PICK q \in P : q[2] = First /\ <<call, First>> \in Of(q[1])
        BY <1>2, <3>2, GoneMeans
      <4>2. q[1] = call
        BY <4>1 DEF Of
      <4>3. QED BY <4>1, <4>2 DEF Gone
    <3>3. QED BY <3>1, <3>2
  <2>3. QED BY <1>1, <2>1, <2>2
<1>3. CASE <<call, First>> \notin Gone(P) /\ alive # {}
  BY <1>1, <1>3 DEF NamespaceHolds
<1>4. QED BY <1>1, <1>2, <1>3

LEMMA StepNamespace ==
  ASSUME ProcessShape, NamespaceHolds, ProcessStep
  PROVE  NamespaceHolds'
<1> SUFFICES ASSUME sandbox' = "namespace", NEW p \in alive'
             PROVE  running' /\ p[1] = call' /\ <<call', First>> \in alive'
  BY DEF NamespaceHolds
<1>1. sandbox = "namespace"
  BY CommandLeaves DEF ProcessStep, ToolStep, processVars, Refuses, Spawns, TimesOut,
                       Escalates, Settles, RunEnds
<1> USE DEF NamespaceHolds, tool, processes, signals
<1>2. ASSUME NEW P, End(P), UNCHANGED <<call, running>>
      PROVE  running' /\ p[1] = call' /\ <<call', First>> \in alive'
  BY <1>1, <1>2, EndInNamespace
<1>3. ASSUME NEW q \in alive, NEW m \in Children, Forks(q, m)
      PROVE  running' /\ p[1] = call' /\ <<call', First>> \in alive'
  BY <1>1, <1>3 DEF Forks
<1>4. CASE UNCHANGED <<alive, running, call>>
  BY <1>1, <1>4
<1>5. CASE CommandStep
  BY <1>2, <1>3, <1>4, <1>5 DEF CommandStep, Detaches, FallsSilent, TurnsDeaf, Exits
<1>6. CASE Refuses \/ Spawns
  BY <1>1, <1>6 DEF Refuses, Spawns, Idle
<1>7. CASE TimesOut \/ \E n \in escalations : Escalates(n)
  BY <1>2, <1>7 DEF TimesOut, Escalates
<1>8. CASE Settles
  BY <1>1, <1>8 DEF Settles, Closed
<1>9. CASE RunEnds
  BY <1>1, <1>9 DEF RunEnds
<1>10. CASE UNCHANGED processVars
  BY <1>4, <1>10 DEF processVars
<1>11. QED
  BY ONLY ProcessStep, <1>5, <1>6, <1>7, <1>8, <1>9, <1>10 DEF ProcessStep, ToolStep

-----------------------------------------------------------------------------
\* What a call that was cut off is called, and whom it leaves behind.

\* Whatever is left of a call once its second signal is out had left the group.
LeftHadEscaped ==
  ~exited =>
    \A p \in alive :
      \/ p[1] \in escalations
      \/ p \in detached
      \/ outcome[p[1]] # "timed_out" /\ ~(running /\ timedOut /\ p[1] = call)

LEMMA StepCutOff ==
  ASSUME ProcessShape, CutOffIsNotPassed, ProcessStep
  PROVE  CutOffIsNotPassed'
<1> USE DEF CutOffIsNotPassed, ProcessShape, CallsInOrder, tool, processes, signals
<1>1. call \in Nat /\ signalled \subseteq 1 .. Calls /\ Calls \in Nat
      /\ outcome \in [1 .. Calls -> Outcomes \cup {"none"}]
  BY ProcessAssumption DEF ProcessTypeOK
<1>2. CASE CommandStep
  BY <1>2, CommandLeaves
<1>3. CASE Refuses
  <2>1. call + 1 \notin signalled
    BY <1>1
  <2>2. QED BY <1>1, <1>3, <2>1 DEF Refuses
<1>4. CASE Spawns \/ RunEnds \/ UNCHANGED processVars
  BY <1>4 DEF Spawns, RunEnds, processVars
<1>5. CASE TimesOut
  BY <1>1, <1>5 DEF TimesOut
<1>6. ASSUME NEW n \in escalations, Escalates(n) PROVE CutOffIsNotPassed'
  BY <1>6 DEF Escalates
<1>7. CASE Settles
  <2>1. call \in signalled => outcome'[call] = "timed_out"
    BY <1>1, <1>7 DEF Settles, Classify
  <2>2. \A n \in signalled : n # call => outcome'[n] = outcome[n]
    BY <1>1, <1>7 DEF Settles
  <2>3. QED BY <1>7, <2>1, <2>2 DEF Settles
<1>8. QED
  BY ONLY ProcessStep, <1>2, <1>3, <1>4, <1>5, <1>6, <1>7 DEF ProcessStep, ToolStep

LEMMA StepLeft ==
  ASSUME ProcessShape, NamespaceHolds, LeftHadEscaped, ProcessStep
  PROVE  LeftHadEscaped'
<1> SUFFICES ASSUME ~exited', NEW p \in alive'
             PROVE  \/ p[1] \in escalations'
                    \/ p \in detached'
                    \/ /\ outcome'[p[1]] # "timed_out"
                       /\ ~(running' /\ timedOut' /\ p[1] = call')
  BY DEF LeftHadEscaped
<1> USE DEF tool, processes, signals
<1>1. ~exited /\ p \in Processes /\ p[1] \in 1 .. Calls
  <2>1. p \in Processes
    BY ProcessTyped DEF ProcessTypeOK
  <2>2. ~exited
    BY CommandLeaves DEF ProcessStep, ToolStep, processVars, Refuses, Spawns, TimesOut,
                         Escalates, Settles, RunEnds
  <2>3. QED BY <2>1, <2>2, ProcessesArePairs
<1> DEFINE Excused(q) ==
             \/ q[1] \in escalations
             \/ q \in detached
             \/ outcome[q[1]] # "timed_out" /\ ~(running /\ timedOut /\ q[1] = call)
           Left == /\ outcome'[p[1]] # "timed_out"
                   /\ ~(running' /\ timedOut' /\ p[1] = call')
<1>2. \A q \in alive : Excused(q)
  BY <1>1 DEF LeftHadEscaped
<1>3. ASSUME p \in alive, p \in detached => p \in detached',
             UNCHANGED <<call, running, timedOut, outcome, escalations>>
      PROVE  p[1] \in escalations' \/ p \in detached' \/ Left
  BY <1>2, <1>3
<1>4. ASSUME NEW P, End(P)
      PROVE  p \in alive /\ p \notin P /\ (p \in detached => p \in detached')
  BY <1>4, GoneMeans DEF End
<1>5. ASSUME NEW q \in alive, NEW m \in Children, Forks(q, m)
      PROVE  p[1] \in escalations' \/ p \in detached' \/ Left
  <2>1. CASE p \in alive
    BY <1>3, <1>5, <2>1 DEF Forks, Inherited
  <2>2. CASE p \notin alive
    <3>1. p = <<q[1], m>>
      BY <1>5, <2>2 DEF Forks
    <3>2. p[1] = q[1] /\ (q \in detached => p \in detached')
      BY <1>5, <3>1 DEF Forks, Inherited
    <3>3. UNCHANGED <<call, running, timedOut, outcome, escalations>>
      BY <1>5 DEF Forks
    <3>4. QED BY <1>2, <3>2, <3>3
  <2>3. QED BY <2>1, <2>2
<1>6. ASSUME NEW q \in alive, Detaches(q) \/ FallsSilent(q) \/ TurnsDeaf(q) \/ Exits(q)
      PROVE  p[1] \in escalations' \/ p \in detached' \/ Left
  BY <1>3, <1>4, <1>6 DEF Detaches, FallsSilent, TurnsDeaf, Exits
<1>7. CASE CommandStep
  BY <1>5, <1>6, <1>7 DEF CommandStep
<1>8. CASE Refuses
  <2>1. p \in alive /\ ~running' /\ UNCHANGED <<detached, escalations>>
    BY <1>8 DEF Refuses, Idle
  <2>2. outcome'[p[1]] = "timed_out" => outcome[p[1]] = "timed_out"
    BY <1>1, <1>8 DEF Refuses, ProcessShape, ProcessTypeOK
  <2>3. QED BY <1>2, <2>1, <2>2
<1>9. CASE Spawns
  <2>1. ~timedOut' /\ UNCHANGED <<outcome, detached, escalations>>
    BY <1>9 DEF Spawns
  <2>2. CASE p \in alive
    BY <1>2, <2>1, <2>2
  <2>3. CASE p = <<call + 1, First>>
    <3>1. outcome[call + 1] = "none"
      BY <1>9, NextCall DEF Spawns, ProcessShape, ProcessTypeOK, CallsInOrder
    <3>2. QED BY <2>1, <2>3, <3>1
  <2>4. QED BY <1>9, <2>2, <2>3 DEF Spawns
<1>10. CASE TimesOut
  <2>1. p \in alive /\ (p \in detached => p \in detached')
    BY <1>4, <1>10 DEF TimesOut
  <2>2. CASE p[1] = call
    BY <1>10, <2>2 DEF TimesOut
  <2>3. CASE p[1] # call
    BY <1>2, <1>10, <2>1, <2>3 DEF TimesOut
  <2>4. QED BY <2>2, <2>3
<1>11. ASSUME NEW n \in escalations, Escalates(n)
       PROVE  p[1] \in escalations' \/ p \in detached' \/ Left
  <2>1. /\ p \in alive /\ p \notin Group(n) /\ (p \in detached => p \in detached')
        /\ escalations' = escalations \ {n}
        /\ UNCHANGED <<call, running, timedOut, outcome>>
    BY <1>4, <1>11 DEF Escalates
  <2>2. CASE p[1] # n
    BY <1>2, <2>1, <2>2
  <2>3. CASE p[1] = n /\ sandbox # "namespace"
    <3>1. p \in Of(n)
      BY <1>1, <2>3, ProcessesArePairs
    <3>2. QED BY <2>1, <2>3, <3>1 DEF Group
  <2>4. CASE p[1] = n /\ sandbox = "namespace"
    <3>1. n = call /\ End({<<n, First>>})
      BY <1>11, <2>1, <2>4 DEF NamespaceHolds, Escalates, Group
    <3>2. <<call, First>> \notin alive' /\ alive' # {}
      BY <3>1, GoneMeans DEF End
    <3>3. QED BY <2>4, <3>1, <3>2, EndInNamespace
  <2>5. QED BY <2>2, <2>3, <2>4
<1>12. CASE Settles
  <2>1. p \in alive /\ ~running' /\ UNCHANGED <<detached, escalations>>
    BY <1>12 DEF Settles
  <2>2. outcome'[p[1]] = "timed_out" =>
          outcome[p[1]] = "timed_out" \/ (running /\ timedOut /\ p[1] = call)
    BY <1>1, <1>12 DEF Settles, Classify, ProcessShape, ProcessTypeOK
  <2>3. QED BY <1>2, <2>1, <2>2
<1>13. CASE RunEnds
  BY <1>13 DEF RunEnds
<1>14. CASE UNCHANGED processVars
  BY <1>2, <1>14 DEF processVars
<1>15. QED
  BY ONLY ProcessStep, <1>7, <1>8, <1>9, <1>10, <1>11, <1>12, <1>13, <1>14
  DEF ProcessStep, ToolStep, Left

-----------------------------------------------------------------------------
\* What a write may count on.

\* While a write is made no command runs, and under bubblewrap the file is from place to
\* place as the last step of the write, or the check before it, left it.
WriteHolds ==
  ~Between =>
    /\ ~running
    /\ sandbox = "namespace" =>
         /\ write = "create" => disk = Absent /\ seen = Absent
         /\ write \in {"write", "rename"} => disk = IF seen = Absent THEN Empty ELSE seen
         /\ write = "verify" => disk = content

FileTypeOK ==
  /\ file \in Files /\ disk \in Held /\ seen \in Held
  /\ write \in Places /\ content \in Contents

Tools ==
  /\ ProcessShape /\ NamespaceHolds /\ CutOffIsNotPassed /\ LeftHadEscaped
  /\ FileTypeOK /\ WriteHolds

LEMMA HeldIs == Contents \subseteq Held /\ Empty \in Held /\ Torn \in Held /\ Absent \in Held
BY DEF Held

LEMMA InitTools == Init => Tools
<1> SUFFICES ASSUME Init PROVE Tools OBVIOUS
<1>1. alive = {} /\ signalled = {} /\ write = "none"
  BY DEF Init, ProcessInit
<1>2. FileTypeOK
  BY HeldIs DEF Init, FileTypeOK, Places
<1>3. QED
  BY <1>1, <1>2, InitProcessShape DEF Tools, NamespaceHolds, CutOffIsNotPassed,
     LeftHadEscaped, WriteHolds, Between

\* Under bubblewrap nothing but the run touches a file while no command runs.
LEMMA NobodyElse ==
  ASSUME NamespaceHolds, sandbox = "namespace", ~running
  PROVE  alive = {} /\ ~CommandEdits
BY DEF NamespaceHolds, CommandEdits

\* The steps that change processes leave a write where it is, unless they end the run.
LEMMA ProcessesLetWrite ==
  ASSUME NamespaceHolds, WriteHolds, [Next]_vars, UNCHANGED fileVars
  PROVE  WriteHolds'
<1> USE DEF fileVars, Between
<1>1. CASE UNCHANGED <<running, sandbox>>
  BY <1>1 DEF WriteHolds
<1>2. CASE CommandStep
  BY <1>1, <1>2, CommandLeaves
<1>3. CASE ToolStep /\ Between
  BY <1>3 DEF WriteHolds
<1>4. CASE RunEnds
  BY <1>4 DEF RunEnds, WriteHolds
<1>5. CASE UNCHANGED vars \/ CommandEdits \/ FileStep
  BY <1>1, <1>5 DEF vars, processVars, tool, CommandEdits, FileStep, ReadFile, StartsWrite,
     Compares, Creates, WritesTemporary, Renames, Verifies, StartsEdit, Truncates, Stores
<1>6. QED BY <1>2, <1>3, <1>4, <1>5 DEF Next

LEMMA FilesTyped ==
  ASSUME FileTypeOK, [Next]_vars
  PROVE  FileTypeOK'
<1> USE DEF FileTypeOK, Places, At, Fails
<1>1. CASE UNCHANGED fileVars
  BY <1>1 DEF fileVars
<1>2. CASE CommandEdits \/ ReadFile
  BY <1>2, HeldIs DEF CommandEdits, ReadFile, Between
<1>3. CASE \E class \in Writable : StartsWrite(class)
  BY <1>3 DEF StartsWrite
<1>4. CASE Compares \/ WritesTemporary \/ Verifies
  BY <1>4, HeldIs DEF Compares, WritesTemporary, Verifies
<1>5. CASE Creates \/ Renames
  BY <1>5, HeldIs DEF Creates, Renames
<1>6. CASE StartsEdit
  BY <1>6 DEF StartsEdit
<1>7. CASE Truncates \/ Stores
  BY <1>7, HeldIs DEF Truncates, Stores
<1>8. QED
  BY ONLY NextIsProcessStep, [Next]_vars, <1>1, <1>2, <1>3, <1>4, <1>5, <1>6, <1>7 DEF FileStep

LEMMA StepWrite ==
  ASSUME NamespaceHolds, WriteHolds, [Next]_vars
  PROVE  WriteHolds'
<1>1. CASE UNCHANGED fileVars
  BY <1>1, ProcessesLetWrite
<1>2. CASE ~UNCHANGED fileVars
  <2>1. UNCHANGED <<running, sandbox>> /\ (CommandEdits \/ FileStep)
    BY <1>2, NextIsProcessStep DEF processVars, tool
  <2> USE <2>1 DEF WriteHolds, Between, At, Fails, Idle
  <2>2. CASE CommandEdits
    BY <2>2, NobodyElse DEF CommandEdits
  <2>3. CASE ReadFile
    BY <2>3 DEF ReadFile
  <2>4. CASE \E class \in Writable : StartsWrite(class)
    BY <2>4 DEF StartsWrite
  <2>5. CASE Compares
    BY <2>5 DEF Compares
  <2>6. CASE Creates
    BY <2>6 DEF Creates
  <2>7. CASE WritesTemporary
    BY <2>7 DEF WritesTemporary
  <2>8. CASE Renames
    BY <2>8 DEF Renames
  <2>9. CASE Verifies
    BY <2>9 DEF Verifies
  <2>10. CASE StartsEdit
    BY <2>10 DEF StartsEdit
  <2>11. CASE Truncates \/ Stores
    BY <2>11 DEF Truncates, Stores
  <2>12. QED
    BY <2>1, <2>2, <2>3, <2>4, <2>5, <2>6, <2>7, <2>8, <2>9, <2>10, <2>11 DEF FileStep
<1>3. QED BY <1>1, <1>2

LEMMA StepTools ==
  ASSUME Tools, [Next]_vars
  PROVE  Tools'
<1>1. ProcessStep
  BY NextIsProcessStep
<1>2. ProcessShape' /\ NamespaceHolds' /\ CutOffIsNotPassed' /\ LeftHadEscaped'
  BY <1>1, ProcessTyped, StepCallsInOrder, StepNamespace, StepCutOff, StepLeft
     DEF Tools, ProcessShape
<1>3. FileTypeOK' /\ WriteHolds'
  BY FilesTyped, StepWrite DEF Tools
<1>4. QED BY <1>2, <1>3 DEF Tools

LEMMA ToolsHold == Spec => []Tools
BY InitTools, StepTools, PTL DEF Spec

-----------------------------------------------------------------------------
\* The theorems.

\* Every state is well formed.
THEOREM ToolsTypeCorrect == Spec => []TypeOK
<1>1. Tools => TypeOK BY DEF Tools, ProcessShape, FileTypeOK, TypeOK
<1>2. QED BY ToolsHold, <1>1, PTL

\* A bubblewrap sandbox takes the processes of its call with it.
THEOREM NothingOutlives == Spec => []NothingOutlivesTheCall
<1>1. Tools => NothingOutlivesTheCall
  BY DEF Tools, NamespaceHolds, NothingOutlivesTheCall
<1>2. QED BY ToolsHold, <1>1, PTL

\* A command that was ever signalled is never reported as one that passed, before its second
\* signal, after it or once the run has gone on (process.ts, packages.ts).
THEOREM CutOffNeverPasses == Spec => []CutOffIsNotPassed
<1>1. Tools => CutOffIsNotPassed BY DEF Tools
<1>2. QED BY ToolsHold, <1>1, PTL

\* The orphans a timeout leaves, where it leaves any (TimeoutLeavesNoOne), had all left the
\* group of their command: no other process of it outlives the second signal.
THEOREM OnlyTheEscapedStay ==
  Spec => [](~exited =>
               \A p \in alive : outcome[p[1]] = "timed_out" =>
                                  p[1] \in escalations \/ p \in detached)
<1>1. Tools => (~exited =>
                  \A p \in alive : outcome[p[1]] = "timed_out" =>
                                     p[1] \in escalations \/ p \in detached)
  BY DEF Tools, LeftHadEscaped
<1>2. QED BY ToolsHold, <1>1, PTL

\* And under bubblewrap it leaves none.
THEOREM NamespaceLeavesNoOne == Spec => [](sandbox = "namespace" => TimeoutLeavesNoOne)
<1>1. Tools => (sandbox = "namespace" => TimeoutLeavesNoOne)
  BY DEF Tools, ProcessShape, CallsInOrder, NamespaceHolds, TimeoutLeavesNoOne
<1>2. QED BY ToolsHold, <1>1, PTL

\* A write replaces what its caller saw.
THEOREM WritesOverWhatWasSeen == Spec => OverwritesWhatWasSeen
<1>1. Tools /\ [Next]_vars =>
        [(sandbox = "namespace" /\ Renames) => disk = IF seen = Absent THEN Empty ELSE seen]_vars
  BY DEF Tools, WriteHolds, Between, Renames, At
<1>2. QED BY ToolsHold, <1>1, PTL DEF Spec, OverwritesWhatWasSeen

\* A write that fails leaves what its caller saw, an empty file where there was none, or
\* everything it was to write, whichever of its steps fails, the last one included (files.ts,
\* writeAtomic).
THEOREM FailedWriteIsWhole == Spec => FailureIsWhole
<1> DEFINE left == IF write = "verify" THEN {content}
                   ELSE IF seen = Absent THEN {Absent, Empty} ELSE {seen}
<1>1. ASSUME Tools, Next, sandbox = "namespace",
             write \in {"create", "write", "rename", "verify"}, Fails
      PROVE  disk' \in left
  <2>1. ~Between /\ ~running /\ alive = {}
    BY <1>1, NobodyElse DEF Tools, WriteHolds, Between
  <2>2. Creates \/ WritesTemporary \/ Renames \/ Verifies
    BY <1>1, <2>1, NextIsProcessStep
       DEF Fails, vars, fileVars, CommandEdits, FileStep, ReadFile, StartsWrite, Compares, StartsEdit,
           Truncates, Stores, At
  <2>3. QED
    BY <1>1, <2>1, <2>2
       DEF Tools, WriteHolds, Creates, WritesTemporary, Renames, Verifies, Fails, At
<1>2. Tools /\ [Next]_vars =>
        [(sandbox = "namespace" /\ write \in {"create", "write", "rename", "verify"} /\ Fails)
           => disk' \in left]_vars
  BY <1>1
<1>3. QED BY ToolsHold, <1>2, PTL DEF Spec, FailureIsWhole
=============================================================================
