SPECIFICATION FairSpec
CONSTANTS
  Messages = {m1}
  Handlers = {h1, h2}
  Slots = {s1, s2}
  NoSlot = NoSlot
  Attempts = 2
  MaxStalls = 1
  BatchSize = 1
CHECK_DEADLOCK FALSE
INVARIANT HandedOverOnce
INVARIANT CompletedJobSettles
PROPERTY TerminalIsFinal
PROPERTY DispatchBeforeDeadline
PROPERTY ImplementsContract
PROPERTY JobsFinish
