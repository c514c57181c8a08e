CONSTANTS
  Gas = 3
  MaxWork = 4
  Locals = 2
  MainTypes <- AnyMain
  Files = {"missing", "bad_program", "too_many", "bad_data", "bad_offset", "far_offset", "good"}
  Guests <- AllGuests
SPECIFICATION Spec
INVARIANT TypeOK
INVARIANT QuietGuestCompletes
INVARIANT ArgumentsArrive
PROPERTY ExitIsFinal
PROPERTY HostReturns
CHECK_DEADLOCK FALSE
