SPECIFICATION Spec
CONSTANTS
  Requests = {r1, r2}
  NoRequest = NoRequest
  Histories <- NoHistory
  FirstInstant = 1
  LastInstant = 1
  FailureLimit = 2
  FailureWindow = 2
  ChangeLimit = 2
  ChangeWindow = 3
  Cooldown = 1
  FirstBlock = 1
  RecurrentBlock = 2
  RecurrenceWindow = 3
INVARIANT InitializedIsComplete
CHECK_DEADLOCK FALSE
