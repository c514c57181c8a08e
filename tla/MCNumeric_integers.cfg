CONSTANTS
  W8 = 1
  W16 = 2
  W32 = 4
  W64 = 8
  Group = 3
  Constants <- Boundaries
  Contents <- Patterns
SPECIFICATION Spec
INVARIANT OperandsAgree
INVARIANT TrapsDue
INVARIANT AccessesDue
CHECK_DEADLOCK FALSE
