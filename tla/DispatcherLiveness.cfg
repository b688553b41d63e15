SPECIFICATION DispatcherFairSpec
CONSTANTS
  Jobs = {j1, j2, j3, j4}
  NilJobs = {}
  Awaiting = {j1, j2}
  Workers = {w1, w2}
  Buffer = 1
  Stoppers = {s1}
  NoJob = NoJob
  Exited = Exited
PROPERTIES SubmitReturns AcceptedRuns ShutdownCompletes
CHECK_DEADLOCK FALSE
