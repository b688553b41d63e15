SPECIFICATION MCSpec
CONSTANTS
  backlog = backlog
  done = done
  States = {backlog, done}
  other = other
  Foreign = {other}
  Done = {done}
  Seeds <- MCSeeds
  Issues = {i1, i2}
  NoState = NoState
  Requests = {r1, r2}
INVARIANTS WorkflowInv IssuesHaveStates
PROPERTY GuardsHold
SYMMETRY Symmetric
CHECK_DEADLOCK FALSE
