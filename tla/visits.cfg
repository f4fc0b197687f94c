SPECIFICATION Spec
CONSTANTS
  Sources = {"index.js", "search.js"}
  Tests = {"search.test.js"}
  Targets = {"requested", "companion"}
  MaxConvertedFiles = 2
  MaxWorkerAttempts = 3
  ParentTtl = 6
  Configurations <- MCConfigurations
CHECK_DEADLOCK FALSE
INVARIANTS
  TypeOK
  ScriptsFitProfiles
  EveryFileMoves
  RecordAgrees
PROPERTIES
  NothingAfterExpiry
  EveryVisitEnds
  KeepsPromise
