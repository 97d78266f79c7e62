\* Crashes, restarts, cancellation, stop(): two jobs of equal priority, one slot.
CONSTANTS
  jobA = jobA
  jobB = jobB
  NoObj = NoObj
  Jobs = {jobA, jobB}
  Priority <- TwoEqual
  MaxConcurrent = 1
  MaxCopies = 1
  MaxFaults = 2
  Persist = TRUE
  AsyncCallback = {jobA}
  SubmitWhenStopped = FALSE
  FileFails = FALSE
  Audit = "kept"
SPECIFICATION FairSpec
INVARIANTS
  PendingFifo
  RecordsAgree
PROPERTIES
  ImplementsService
  Progress
