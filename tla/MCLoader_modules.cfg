CONSTANTS
  InitSize = 4
  MaxKeySize = 3
  MaxName = 3
  MaxNof = 5
  PageSize = 4
  MaxPages = 3
  Changes = 2
  AddressSpace = 16
  Available <- HostFunctions
  Files <- LoaderFiles
SPECIFICATION Spec
INVARIANT TypeOK
INVARIANT ValidModulesLoad
INVARIANT LoadedAsWritten
PROPERTY NamesKept
CHECK_DEADLOCK FALSE
