----------------------------- MODULE MCDetection -----------------------------
(***************************************************************************)
(* Two workspace directories and three versions.  Every way to declare the *)
(* package and to contradict oneself over one lockfile, and every lockfile *)
(* of a repository that is clear about the rest.                           *)
(***************************************************************************)
EXTENDS Detection, TLC

CONSTANTS app, lib

OneBlock == {"dependencies"}
TwoBlocks == {"dependencies", "devDependencies"}
Only(x) == [y \in Projects |-> IF y = x THEN OneBlock ELSE {}]
All(e) == [x \in Projects |-> e]
Scripts == [x \in Projects |-> IF x = Root THEN {"lint"} ELSE {"test"}]

Plain(m, x) ==
  [lockfiles |-> {m}, field |-> Nowhere, unlocked |-> FALSE,
   roots |-> {app, lib}, nameless |-> {},
   declared |-> [p \in Packages |-> Only(x)],
   scripts |-> Scripts, lock |-> [p \in Packages |-> All(1)],
   pinned |-> [p \in Packages |-> Nowhere],
   asked |-> Nowhere, targets |-> [p \in {Primary, Companion} |-> IF p = Primary THEN 2 ELSE Nowhere],
   transitive |-> FALSE]

Declarations ==
  {[Plain(m, app) EXCEPT !.declared[Primary] = d, !.declared[Companion] = c, !.asked = a,
                         !.nameless = n, !.targets[Companion] = t] :
     m \in Managers, d \in [Projects -> {{}, OneBlock, TwoBlocks}],
     c \in {Only(app), Only(Root)}, a \in Projects \cup {Nowhere}, n \in {{}, {app}}, t \in {2, Nowhere}}

Contradictions ==
  {[Plain("npm", Root) EXCEPT !.lockfiles = l, !.field = f, !.unlocked = u] :
     l \in SUBSET Managers, f \in Managers \cup {Nowhere}, u \in BOOLEAN}

Lockfiles ==
  {[Plain(m, x) EXCEPT !.lock[Primary] = l, !.lock[Other] = o, !.targets[Primary] = v,
                       !.transitive = t, !.pinned[Primary] = e] :
     m \in Managers, x \in {Root, app}, l \in [Projects -> Entries], o \in {All(1), [All(1) EXCEPT ![app] = 2]},
     v \in {2, 3}, t \in BOOLEAN, e \in {1, Nowhere}}

MCShapes == {s \in Declarations \cup Contradictions \cup Lockfiles :
               \A p \in Packages : \A x \in Members \ s.roots : s.declared[p][x] = {}}
=============================================================================
