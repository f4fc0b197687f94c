SPECIFICATION Spec
CONSTANTS
  Findings <- Kinds
  Kind <- MCKind
  Researched <- MCFew
  Configurations <- MCJev
CHECK_DEADLOCK FALSE
INVARIANTS
  MovedOrUncertain
