SPECIFICATION DispatcherSpec
CONSTANTS
  Jobs = {j1}
  NilJobs = {}
  Awaiting = {}
  Workers = {w1}
  Buffer = 1
  Stoppers = {s1}
  NoJob = NoJob
  Exited = Exited
INVARIANT SubmitsIgnored
CHECK_DEADLOCK FALSE
