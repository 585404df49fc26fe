SPECIFICATION Spec
CONSTANTS
  i1 = i1
  x = x
  foreign = foreign
  Accounts = {a1, a2}
  Institutional = {i1}
  Customs = {t1, t2}
  Looks = {x, foreign}
  NoLook = NoLook
  Sanitized <- Sanitize
  Projection <- OneProjection
  NoTemplate = NoTemplate
  NoRow = NoRow
  Processes = {p1, p2}
  BatchSize = 1
CONSTRAINT Bounded
SYMMETRY Symmetry
INVARIANT CustomIsPrivate
INVARIANT VisualAgrees
INVARIANT ReconcileCovers
PROPERTY OperatorPrevails
CHECK_DEADLOCK FALSE
