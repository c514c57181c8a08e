CONSTANTS
  Programs <- WrittenPrograms
  Capacity = 128
  Budgets = {1, 2, 5}
  MaxBlocks = 6
  MaxCalls = 2
  Width = 2
  MaxRefSteps = 60
  BodyLen = 1
SPECIFICATION Spec
INVARIANT TypeOK
INVARIANT ResultsAgree
INVARIANT FailuresDue
INVARIANT Balanced
PROPERTY TickReturns
CHECK_DEADLOCK FALSE
