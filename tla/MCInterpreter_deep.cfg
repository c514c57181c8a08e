CONSTANTS
  Programs <- DeepPrograms
  Capacity = 128
  Budgets = {5}
  MaxBlocks = 24
  MaxCalls = 1
  Width = 4
  MaxRefSteps = 200
  BodyLen = 1
SPECIFICATION Spec
INVARIANT OverflowIndicated
CHECK_DEADLOCK FALSE
