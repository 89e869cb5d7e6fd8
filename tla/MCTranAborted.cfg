SPECIFICATION MCSpec
CONSTANTS
  s1 = s1
  s2 = s2
  c1 = c1
  c2 = c2
  Sessions = {s1, s2}
  Catalogs = {c1, c2}
  MaxTid = 3
  MaxRows = 1
  MaxTrans = 3
  MaxRestarts = 1
SYMMETRY Symmetry
INVARIANTS
  AbortedByDefault
