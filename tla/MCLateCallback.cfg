SPECIFICATION NativeSpec
CONSTANTS
  Request = {r1, r2}
  NoRequest = NoRequest
  LateCallback = TRUE
INVARIANTS
  FaultedCallIsOver
CHECK_DEADLOCK FALSE
