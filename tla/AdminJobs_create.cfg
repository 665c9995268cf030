\* Idempotent creation by two processes of a job that only its creator can run,
\* and what survives executions that outlive their lease.
SPECIFICATION Spec
CONSTANTS
  w1 = w1
  w2 = w2
  j1 = j1
  j2 = j2
  r1 = r1
  r2 = r2
  Workers <- MCWorkers
  Jobs = {j1, j2}
  Keys = {k1}
  NoKey = NoKey
  NoJob = NoJob
  Execs <- OneEachExecs
  WorkerOf <- MCWorkerOf
  JobOf <- MCJobOf
  Requests = {r1, r2}
  RequestWorker <- MCRequestWorker
  Cancellers = {}
  Registered = {}
  SlowRuns = TRUE
  MaxErrors = 0
  MaxFaults = 2
INVARIANTS
  SameKeySameJob
PROPERTIES
  SettledStaysSettled
