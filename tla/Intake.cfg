SPECIFICATION Spec
CONSTANTS
  Issues = {i1}
  Names = {n1}
  NoName = NoName
  Requests = {r1, r2, r3}
INVARIANTS IntakeInv AcceptedOutOfTriage
PROPERTY DeleteSparesAccepted
SYMMETRY Symmetric
CHECK_DEADLOCK FALSE
