CONSTANTS
  N = 4
  Size = 10
  Constructs <- MCConstructs
  Structured <- StructuredPrograms
SPECIFICATION Spec
INVARIANTS NoBlockLost TextFollows
CHECK_DEADLOCK FALSE
