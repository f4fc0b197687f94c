------------------------------ MODULE NodeRange ------------------------------
(***************************************************************************)
(* How the CI author reads an `engines.node` range (workers/ci-author.ts)  *)
(* and, beside it, what npm means by one.  A range is a set of             *)
(* alternatives, an alternative a set of terms, a term an operator on a    *)
(* version whose minor may be left out.  The reading keeps majors only.    *)
(***************************************************************************)
EXTENDS Integers, FiniteSetsExt

CONSTANTS
  Majors,          \* the major versions a range may name
  NewestMinor,     \* the newest minor of every major, which no range names
  Unstated,        \* the minor of a bound that names a major only
  NoRange          \* no range is stated

ASSUME NodeRangeAssumption ==
  /\ Majors \subseteq Nat
  /\ NewestMinor \in Nat /\ Unstated \notin Nat

\* "other" stands for every form the reading leaves alone: ~, a bare version, an x
\* range, a hyphen range.  An alternative of no terms is the empty text.
Understood == {">=", ">", "<", "<=", "^"}
Terms ==
  [op : Understood \cup {"other"}, major : Majors, minor : (0 .. NewestMinor - 1) \cup {Unstated}]
AllRanges == SUBSET SUBSET Terms

-----------------------------------------------------------------------------
\* The reading.

Bound(kind, major) == [kind |-> kind, major |-> major]

ReadTerm(t) ==
  CASE t.op = "^" -> {Bound("lower", t.major), Bound("upper", t.major + 1)}
    [] t.op \in {">=", ">"} -> {Bound("lower", t.major)}
    [] t.op \in {"<=", "<"} -> {Bound("upper", t.major)}

Readable(range) ==
  \A alternative \in range :
    alternative # {} /\ \A t \in alternative : t.op \in Understood

ParseConjunction(alternative) == UNION {ReadTerm(t) : t \in alternative}

\* As it once was: upper bounds ignored, so Node 22 met `>=12 <20`.
MeetsIfFloors(bounds, pinned) ==
  \A b \in bounds : b.kind = "lower" => pinned >= b.major

Meets(bounds, pinned) ==
  \A b \in bounds : IF b.kind = "lower" THEN pinned >= b.major ELSE pinned < b.major

\* "We could not tell" counts as no: only a `true` discharges.
Satisfies(range, pinned) ==
  /\ Readable(range)
  /\ \E alternative \in range : Meets(ParseConjunction(alternative), pinned)

Floors(range) ==
  {b.major : b \in {c \in UNION {ParseConjunction(a) : a \in range} : c.kind = "lower"}}

LowestAdmitted(range) == Min(Floors(range))

HasFloor(range) == Readable(range) /\ Floors(range) # {}

DischargedByWorkflow(required, declared, pinned) ==
  /\ Satisfies(required, pinned)
  /\ \/ declared = NoRange
     \/ /\ HasFloor(declared) /\ HasFloor(required)
        /\ LowestAdmitted(declared) >= LowestAdmitted(required)

-----------------------------------------------------------------------------
\* What a range means to npm, which installs by it.

Versions == [major : Majors, minor : 0 .. NewestMinor]

AtLeast(v, t) == \/ v.major > t.major
                 \/ v.major = t.major /\ (t.minor = Unstated \/ v.minor >= t.minor)

\* A bound that leaves the minor out covers the whole major: `>22` starts at 23.
Beyond(v, t) == \/ v.major > t.major
                \/ v.major = t.major /\ t.minor # Unstated /\ v.minor > t.minor

\* Under a caret at major 0 the minor is fixed as well.
AdmittedBy(t, v) ==
  CASE t.op = ">=" -> AtLeast(v, t)
    [] t.op = ">"  -> Beyond(v, t)
    [] t.op = "<"  -> ~AtLeast(v, t)
    [] t.op = "<=" -> ~Beyond(v, t)
    [] t.op = "^"  -> /\ v.major = t.major
                      /\ AtLeast(v, t)
                      /\ v.major = 0 /\ t.minor # Unstated => v.minor = t.minor

Admits(range, v) == \E alternative \in range : \A t \in alternative : AdmittedBy(t, v)

NewestOf(major) == [major |-> major, minor |-> NewestMinor]

\* `>22`: npm starts at 23, the reading at 22.
IsBareAbove(t) == t.op = ">" /\ t.minor = Unstated

\* Nothing but a lower bound in each alternative, as most packages state it.
StatesFloorsOnly(range) ==
  \A a \in range : \E t \in a : a = {t} /\ t.op \in {">=", ">"}

EachStatesFloor(range) == \A a \in range : \E t \in a : t.op \in {">=", ">", "^"}
=============================================================================
