SPECIFICATION Spec
CONSTANTS
  Findings <- Kinds
  Kind <- MCKind
  Researched <- MCResearched
  Configurations <- MCGraph
CHECK_DEADLOCK FALSE
INVARIANTS
  TypeOK
  BudgetSuffices
  PhaseNamesTheVisit
  FallbackIsEligible
  VerifiedWasEstablished
  PassCoversTheMove
  WaitingWritesNoSource
  AssessmentOnlyReads
  MovedInFixedOrder
  DraftIsAsVerified
  VerifiedDraftIsOpened
