CONSTANTS
  Addr <- BoundaryAddr
  Byte = {0, 1}
  Accesses <- BoundaryAccesses
  PageCounts = {2, 3}
  ArgSizes = {}
  InitPages = 2
  FirstSegments <- LowSegment
  InitCap = 256
  Cut = 61440
  FirstInc = 4096
  MaxInc = 536870912
  PageSize = 65536
  ArgsBase = 16777216
  ArgsLimit = 65536
  MaxAlloc = 1048576
SPECIFICATION Spec
INVARIANT BoundaryAssertionHolds
CHECK_DEADLOCK FALSE
