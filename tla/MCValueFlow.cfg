SPECIFICATION Spec
CONSTANTS
  a = a
  b = b
  c = c
  self = self
  Self = self
  Names <- MCNames
  Code <- MCCode
  MaxRounds = 3
INVARIANTS CopiesAgree SettlesInTime FlowsFound FlowsReal
PROPERTIES TypesOnlyRise
CHECK_DEADLOCK FALSE
