SPECIFICATION DispatcherSpec
CONSTANTS
  Jobs = {j1, j2, j3, j4, j5}
  NilJobs = {j5}
  Awaiting = {j1}
  Workers = {w1, w2}
  Buffer = 2
  Stoppers = {s1, s2}
  NoJob = NoJob
  Exited = Exited
INVARIANTS DispatcherInv StartedInOrder ReturnedMeansDrained
PROPERTY KeepsPromise
SYMMETRY Symmetric
CHECK_DEADLOCK FALSE
