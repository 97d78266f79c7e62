\* The timers of vt_config in units of 30 seconds: heartbeat 60, post timeout 10 (rounded up), claim timeout 180, reaper period 90.
CONSTANTS
  jobA = jobA
  w1 = w1
  w2 = w2
  NoWorker = NoWorker
  Jobs = {jobA}
  Priority <- OneJob
  Workers = {w1, w2}
  HeartbeatInterval = 2
  PostTimeout = 1
  ClaimTimeout = 6
  ReaperPeriod = 3
  MaxRuns = 5
  MaxLost = 3
  MaxCrashes = 1
SPECIFICATION FairSpec
INVARIANTS
  ZombieDetected
  OneRunPerJob
PROPERTIES
  JobsFinish
