------------------------------ MODULE MCCiAuthor ------------------------------
(***************************************************************************)
(* Every pair of small ranges over one plain workflow, and every shape of  *)
(* the two workflows over a few ranges.                                    *)
(***************************************************************************)
EXTENDS CiAuthor

MCMajors == {0, 20, 22, 24}

Term(op, major, minor) == [op |-> op, major |-> major, minor |-> minor]
Bare == {Term(op, m, Unstated) : op \in Understood, m \in {20, 22, 24}}
Finer == {Term(op, 22, 1) : op \in Understood} \cup {Term("^", 0, 1)}
Other == {Term("other", 22, Unstated)}
Singles == {{t} : t \in Bare \cup Finer \cup Other}
Spans == {{Term(">=", m, Unstated), Term("<", n, k)} : m \in {20, 22}, n \in {22, 24}, k \in {1, Unstated}}
Ranges ==
  {{a} : a \in Singles \cup Spans \cup {{}}} \cup
  {{a, b} : a \in Singles, b \in {{Term(">=", 22, Unstated)}, {Term("^", 20, Unstated)}, {Term("<", 20, Unstated)}}}

Plain == {[place |-> "run", purpose |-> "install", runs |-> TRUE]}
OfLines(lines, risks) == [exists |-> TRUE, lines |-> lines, risks |-> risks]
Shapes ==
  {OfLines(Plain \cup mentions, risks) :
     mentions \in {{}} \cup {{[place |-> p, purpose |-> c, runs |-> r]} : p \in Places, c \in Purposes, r \in BOOLEAN},
     risks \in {{}, {"secret_read"}}}
  \cup {NotThere}

Repository(floors, declared, checks, own, theirs) ==
  [floors |-> floors, engines |-> declared, checks |-> checks,
   workflows |-> [p \in Paths |-> IF p = Own THEN own ELSE theirs]]

TwoFloors == {{{Term(">=", 20, Unstated)}}, {{Term(">=", 24, Unstated)}}}

MCRepositories ==
  {Repository({r}, e, Purposes, NotThere, OfLines(Plain, {})) : r \in Ranges, e \in Ranges \cup {NoRange}} \cup
  {Repository({r, s}, NoRange, Purposes, NotThere, OfLines(Plain, {})) : r, s \in {{a} : a \in Singles}} \cup
  {Repository(floors, NoRange, checks, own, theirs) :
     floors \in {{}, TwoFloors}, checks \in SUBSET Purposes, own \in Shapes, theirs \in Shapes}
=============================================================================
