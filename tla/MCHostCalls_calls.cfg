SPECIFICATION HostSpec
CONSTANTS
  Addr <- MCAddr
  Byte = {0, 1}
  Accesses <- MCAccesses
  PageCounts = {1, 2}
  ArgSizes = {}
  InitPages = 2
  FirstSegments <- MCFirstSegments
  InitCap = 256
  Cut = 61440
  FirstInc = 4096
  MaxInc = 536870912
  PageSize = 65536
  ArgsBase = 16777216
  ArgsLimit = 65536
  MaxAlloc = 1048576
  Copies <- MCCopies
  Vectors <- MCVectors
  Descriptors = {1, 3}
  SizeWords <- MCSizeWords
  ArgvAreas <- MCArgvAreas
  Argv <- MCArgv
  SystemCalls <- MCSystemCalls
  Increments = {1}
  Buffers <- MCBuffers
  Coded <- MCCoded
INVARIANT HostTypeOK
INVARIANT PreparedCopiesSafe
INVARIANT PreparedVectorsSafe
PROPERTY HostImplementsFlat
CHECK_DEADLOCK FALSE
