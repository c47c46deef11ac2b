CONSTANTS
  N = 1
  Size = 6
  Constructs <- MCPlainIf
  Structured <- StructuredPrograms
SPECIFICATION Spec
INVARIANTS LatchesJumpBack
CHECK_DEADLOCK FALSE
