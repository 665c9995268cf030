\* An execution outlives its lease and a second one runs the same job.
SPECIFICATION Spec
CONSTANTS
  w1 = w1
  w2 = w2
  j1 = j1
  j2 = j2
  r1 = r1
  r2 = r2
  Workers <- MCWorkers
  Jobs = {j1}
  Keys = {}
  NoKey = NoKey
  NoJob = NoJob
  Execs <- OneEachExecs
  WorkerOf <- MCWorkerOf
  JobOf <- MCJobOf
  Requests = {r1}
  RequestWorker <- MCRequestWorker
  Cancellers = {}
  Registered = {j1}
  SlowRuns = TRUE
  MaxErrors = 0
  MaxFaults = 0
INVARIANTS
  ExclusiveRun
