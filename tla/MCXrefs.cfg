CONSTANTS
  Inputs <- MCInputs
  Regs <- MCRegs
  CallSaved <- MCCallSaved
  Strings <- MCStrings
SPECIFICATION Spec
INVARIANTS RangesDisjoint OwnAddress DataTargetsReal CallersContainSites
CHECK_DEADLOCK FALSE
