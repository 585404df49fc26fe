SPECIFICATION Spec
CONSTANTS
  Workers = {w1, w2}
  NoWorker = NoWorker
  Messages = {m1}
  Handlers = {h1}
  MaxAttempts = 2
  BatchLimit = 1
INVARIANT ExpiredLeaseRecoverable
CHECK_DEADLOCK FALSE
