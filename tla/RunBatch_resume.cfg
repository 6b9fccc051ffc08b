SPECIFICATION FairSpec
CONSTANTS
  j1 = j1
  j2 = j2
  j3 = j3
  Jobs = {j1, j2, j3}
  JobOf <- ThreeJobs
  Objectives = {o1}
  Concurrency = 2
  Dispatchers = {TRUE, FALSE}
  MaxCalls = 2
  NoKey = NoKey
INVARIANTS
  TypeOK
  SlotsConserved
  CacheSound
  SuccessIsBacked
PROPERTIES
  ImplementsLifecycle
  ResumeNeverRepeats
  BatchReturns
CHECK_DEADLOCK FALSE
