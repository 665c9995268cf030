\* One job while leases outlast runs: claims, outcomes, the operator's view and
\* the job's end, under crashes and rejected statements.
SPECIFICATION FairSpec
CONSTANTS
  w1 = w1
  w2 = w2
  j1 = j1
  j2 = j2
  r1 = r1
  r2 = r2
  Workers <- MCWorkers
  Jobs = {j1}
  Keys = {}
  NoKey = NoKey
  NoJob = NoJob
  Execs <- ThreeExecs
  WorkerOf <- MCWorkerOf
  JobOf <- MCJobOf
  Requests = {r1}
  RequestWorker <- MCRequestWorker
  Cancellers = {c1}
  Registered = {j1}
  SlowRuns = FALSE
  MaxErrors = 1
  MaxFaults = 2
INVARIANTS
  TypeOK
  ExclusiveRun
  CancelledWasRequested
PROPERTIES
  OutcomeFinal
  ErrorsKept
  ImplementsLifecycle
  JobsFinish
  CancelledNeverStarts
  CancellationSurvives
