SPECIFICATION MCSpec
CONSTANTS
  Issues = {i1, i2}
  Types = {"blocking", "blocked_by", "implements"}
  Requests = {r1, r2}
INVARIANTS TypeOK LinkedIffAdded
SYMMETRY Symmetric
CHECK_DEADLOCK FALSE
