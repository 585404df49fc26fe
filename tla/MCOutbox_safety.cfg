SPECIFICATION Spec
CONSTANTS
  Workers = {w1, w2}
  NoWorker = NoWorker
  Messages = {m1, m2}
  Handlers = {h1, h2}
  MaxAttempts = 2
  BatchLimit = 2
SYMMETRY Symmetry
INVARIANT TypeOK
INVARIANT ExclusiveClaim
PROPERTY ImplementsContract
CHECK_DEADLOCK FALSE
