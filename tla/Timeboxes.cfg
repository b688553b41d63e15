SPECIFICATION MCSpec
CONSTANTS
  Cycles = {c1, c2}
  Modules = {m1, m2}
  Issues = {i1, i2}
  Users = {u1, u2}
  Names = {Docs, docs}
  Docs = Docs
  docs = docs
  Folded <- MCFolded
  Times = {0, 1}
  None = None
  Requests = {r1, r2}
  Budget = 5
  LastNow = 2
INVARIANTS TimeboxesInv ArchivedAreOver TransferDrains OverlapsExplained
SYMMETRY Symmetric
CHECK_DEADLOCK FALSE
