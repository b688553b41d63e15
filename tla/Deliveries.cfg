SPECIFICATION MCSpec
CONSTANTS
  Patches = {p1, p2}
  FieldOrder <- NameThenPriority
  Values = {"low", "high"}
  Hooks = {h1, h2}
  Visits = {v1, v2, v3}
  Projects = {e1, e2, e3}
  KeepN = 1
  Capacity = 2
  Backlog = 2
  Budget = 6
  FieldsSent = 2
INVARIANTS DeliveriesInv HistoryExplainsIssue InOrder EventsReachSubscribers
SYMMETRY Symmetric
CHECK_DEADLOCK FALSE
