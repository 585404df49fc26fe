CONSTANTS
  i1 = i1
  i2 = i2
  s1 = s1
  s2 = s2
  a1 = a1
  a2 = a2
  Categories = {i1, i2, s1, s2}
  KindOf <- Kind
  Transactions = {t1}
  Accounts = {a1, a2}
  Requests = {r1, r2}
  Drafts <- SomeDrafts
  Patches <- SomePatches
  None = None
SPECIFICATION Spec
INVARIANT CategoryAlwaysFits
