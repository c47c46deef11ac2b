CONSTANTS
  ParamName <- MCParams
  MaxParams = 3
  DwarfLists <- MCDwarf
  MethodLists <- MCMethod
  UserNames <- MCUser
  Order <- MCOrder
SPECIFICATION Spec
INVARIANTS OneNameEach ResultAgrees UserNamesShown StayDistinct
CHECK_DEADLOCK FALSE
