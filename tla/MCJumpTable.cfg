SPECIFICATION Spec
CONSTANTS
  Registers <- MCRegisters
  Images <- MCImages
  Indices <- MCIndices
  Data <- MCData
INVARIANTS SwitchAgrees NoDispatchMissed
CHECK_DEADLOCK FALSE
