SPECIFICATION MCSpec
CONSTANTS
  Pages = {a, b, c, d}
  a = a
  b = b
  c = c
  d = d
  Project <- MCProject
  Users = {u1, u2}
  u1 = u1
  None = None
  Requests = {r1, r2}
  Budget = 3
INVARIANTS PagesInv LocksHold
PROPERTY AccessByOwner
SYMMETRY Symmetric
CHECK_DEADLOCK FALSE
