SPECIFICATION NativeSpec
CONSTANTS
  Request = {r1, r2}
  NoRequest = NoRequest
  LateCallback = FALSE
INVARIANTS
  ResultTellsTheTruth
PROPERTIES
  NativeCallReturns
  NativeImplementsCommand
CHECK_DEADLOCK FALSE
