SPECIFICATION Spec
CONSTANTS
  Children = {child}
  First = first
  Calls = 2
  src = src
  pkg = pkg
  Files = {src, pkg}
  ClassOf <- MCClassOf
  Contents = {a, b}
  Empty = Empty
  Torn = Torn
  Absent = Absent
INVARIANTS
  NothingOutlivesTheCall
  CutOffIsNotPassed
PROPERTIES
  OverwritesWhatWasSeen
  FailureIsWhole
  EveryCallEnds
  GroupGoesInTheEnd
CHECK_DEADLOCK FALSE
