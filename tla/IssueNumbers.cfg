SPECIFICATION NumbersSpec
CONSTANTS
  Creates = {c1, c2}
  Intakes = {i1}
  Promotions = {p1}
  Drafts = {d1}
  NoDraft = NoDraft
INVARIANTS NumbersOK NumbersDense NumbersFollowTime NoDraftLost
SYMMETRY Symmetric
CHECK_DEADLOCK FALSE
