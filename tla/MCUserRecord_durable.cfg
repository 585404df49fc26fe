SPECIFICATION Spec
CONSTANTS
  Requests = {r1, r2}
  NoRequest = NoRequest
  NoEntry = NoEntry
CHECK_DEADLOCK FALSE
INVARIANT IncrementIsDurable
