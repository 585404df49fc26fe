SPECIFICATION FairSpec
CONSTANTS
  Messages = {m1, m2}
  Handlers = {h1, h2}
  Slots = {s1}
  NoSlot = NoSlot
  Attempts = 1
  MaxStalls = 0
  BatchSize = 1
CHECK_DEADLOCK FALSE
PROPERTY PendingIsReconciled
