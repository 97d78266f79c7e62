\* Two coordinators, slow workers, a request that arrives three times, crashes and losses.
CONSTANTS
  jobA = jobA
  w1 = w1
  w2 = w2
  c1 = c1
  c2 = c2
  NoWorker = NoWorker
  NoJob = NoJob
  Jobs = {jobA}
  Priority <- OneJob
  Workers = {w1, w2}
  Coordinators = {c1, c2}
  MaxPublish = 3
  MaxRuns = 2
  MaxLost = 2
  MaxCrashes = 2
  SlowWorkers = TRUE
CHECK_DEADLOCK FALSE
SPECIFICATION Spec
SYMMETRY Anyone
INVARIANTS
  PendingIsClaimable
  OneRunPerJob
PROPERTIES
  FinishedIsFinal
