SPECIFICATION Spec
CONSTANTS
  Majors <- MCMajors
  NewestMinor = 2
  Unstated = Unstated
  NoRange = NoRange
  Purposes = {"test", "lint"}
  Repositories <- MCRepositories
  PinnedMajor = 22
CHECK_DEADLOCK FALSE
INVARIANTS
  EveryFloorIsMet
