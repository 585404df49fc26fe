CONSTANTS
  Assets = {a1, a2}
  Workers = {w1, w2}
  None = None
SYMMETRY Symmetry
SPECIFICATION Spec
INVARIANTS AvatarIsServed NoOrphans
