SPECIFICATION Spec
CONSTANTS
  MaxVer = 4
  MaxLen = 4
  Body <- MCBody
INVARIANTS CallsKept SingleAssignment ConditionsKept
PROPERTIES PassesKeepMeaning DeadCodeKeepsMeaning CopiesKeepMeaning
CHECK_DEADLOCK FALSE
