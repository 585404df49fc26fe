SPECIFICATION Spec
CONSTANTS
  Requests = {r1, r2}
  NoRequest = NoRequest
  Histories <- SomeHistories
  FirstInstant = 3
  LastInstant = 4
  FailureLimit = 2
  FailureWindow = 2
  ChangeLimit = 2
  ChangeWindow = 3
  Cooldown = 1
  FirstBlock = 1
  RecurrentBlock = 2
  RecurrenceWindow = 3
SYMMETRY Symmetry
INVARIANT BarrierHolds
INVARIANT VersionCountsChanges
INVARIANT AgedProjectionDecidesAsFacts
PROPERTY LiftingShowsFacts
CHECK_DEADLOCK FALSE
