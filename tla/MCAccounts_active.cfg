CONSTANTS
  Accounts = {a1, a2}
  Cash = a1
  Requests = {r1, r2}
  NoAccount = NoAccount
  NoEntry = NoEntry
  NoRows = NoRows
SYMMETRY Symmetry
SPECIFICATION Spec
INVARIANT SomeAccountActive
CHECK_DEADLOCK FALSE
