CONSTANTS
  Addr <- WildAddr
  Byte = {0, 1}
  Accesses <- WildAccesses
  PageCounts = {1, 300}
  ArgSizes = {20, 70000}
  InitPages = 2
  FirstSegments <- AnySegment
  InitCap = 256
  Cut = 61440
  FirstInc = 4096
  MaxInc = 536870912
  PageSize = 65536
  ArgsBase = 16777216
  ArgsLimit = 65536
  MaxAlloc = 1048576
SPECIFICATION Spec
INVARIANT ArgumentsSpared
INVARIANT TranslationInside
PROPERTY StaysApart
PROPERTY BackedStaysBacked
PROPERTY ImplementsFlat
CHECK_DEADLOCK FALSE
