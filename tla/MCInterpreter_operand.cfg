CONSTANTS
  Programs <- OperandPrograms
  Capacity = 64
  Budgets = {1, 3}
  MaxBlocks = 6
  MaxCalls = 1
  Width = 1
  MaxRefSteps = 40
  BodyLen = 7
SPECIFICATION Spec
INVARIANT ResultsAgree
CHECK_DEADLOCK FALSE
