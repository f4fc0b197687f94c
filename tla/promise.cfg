SPECIFICATION Spec
CONSTANTS
  Findings <- Kinds
  Kind <- MCKind
  Researched <- MCFew
  Configurations <- MCPromise
CHECK_DEADLOCK FALSE
PROPERTIES
  KeepsPromise
  EveryRunIsClassified
