SPECIFICATION FairSpec
CONSTANTS
  Workers = {w1, w2}
  NoWorker = NoWorker
  Messages = {m1}
  Handlers = {h1, h2}
  MaxAttempts = 3
  BatchLimit = 1
PROPERTY EventuallySettled
CHECK_DEADLOCK FALSE
