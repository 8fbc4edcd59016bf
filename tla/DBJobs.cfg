SPECIFICATION FairSpec
CONSTANTS
  w1 = w1
  w2 = w2
  j1 = j1
  j2 = j2
  j3 = j3
  None = None
  Workers <- TwoWorkers
  Jobs <- ThreeJobs
INVARIANTS
  TypeOK
  JobsRunOnce
  HandledOnce
PROPERTIES
  ImplementsJobQueue
  BusyWorkerSuffices
CHECK_DEADLOCK FALSE
