SPECIFICATION Spec
CONSTANTS
  Workers = {w1, w2}
  NoWorker = NoWorker
  Messages = {m1, m2}
  Handlers = {h1}
  MaxAttempts = 2
  BatchLimit = 2
INVARIANT FailedIsRetryable
CHECK_DEADLOCK FALSE
