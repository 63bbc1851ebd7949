SPECIFICATION MCSpec
CONSTANTS
  r1 = r1  r2 = r2  g1 = g1
  Ids = {i1, i2, i3}
  Mutators = {m1, m2}
  BlockAddrs = {1, 2, 3}
SYMMETRY Symmetry
CHECK_DEADLOCK FALSE
INVARIANTS HeapsSound BitmapsSound LiveIntact NoLimbsLost
PROPERTIES IsObjectGraph FirstFree
