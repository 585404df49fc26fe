SPECIFICATION FairSpec
CONSTANTS
  Requests = {r1, r2, r3}
  NoRequest = NoRequest
  NoEntry = NoEntry
CHECK_DEADLOCK FALSE
INVARIANT LockedChangesSurvive
INVARIANT EntryWasCommitted
PROPERTY StaleEntryEnds
