CONSTANTS
  Resends = {r1, r2, r3}
  Automatic = Automatic
  NoResend = NoResend
  LastInstant = 4
  Renewals = 1
  Limit = 2
  Window = 3
  InitialCooldown = 1
  MaxCooldown = 2
  MutationTtl = 2
  TokenTtl = 3
  MinimumUsable = 1
SYMMETRY Symmetry
SPECIFICATION Spec
INVARIANTS TypeOK SendsAreLimited SendsAreSpaced VerifiedOnce CooldownLeavesALink StatusIsAnswered RetryAfterSuffices
CHECK_DEADLOCK FALSE
CONSTRAINT Bounded
