CONSTANTS
  Gas = 2
  MaxWork = 3
  Locals = 2
  MainTypes <- MainTakesArguments
  Files = {"good"}
  Guests <- ReturningGuests
SPECIFICATION Spec
INVARIANT OkMeansDone
CHECK_DEADLOCK FALSE
