CONSTANTS
  Tokens = {t1, t2}
  Requests = {r1, r2}
  NoToken = NoToken
  NoEntry = NoEntry
  LastVersion = 2
SYMMETRY Symmetry
SPECIFICATION Spec
INVARIANTS UsableIsListed CondemnedAreRevoked SurvivorsCrossed LogoutIsFinal
CHECK_DEADLOCK FALSE
PROPERTY ImplementsContract
