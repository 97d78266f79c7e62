\* Clients also submit before start() and after stop(); writes of the file fail
\* or are torn.
CONSTANTS
  jobA = jobA
  jobB = jobB
  NoObj = NoObj
  Jobs = {jobA, jobB}
  Priority <- TwoPriorities
  MaxConcurrent = 2
  MaxCopies = 2
  MaxFaults = 1
  Persist = TRUE
  AsyncCallback = {jobA}
  SubmitWhenStopped = TRUE
  FileFails = TRUE
  Audit = "none"
SPECIFICATION Spec
INVARIANTS
  SlotsBounded
  PendingIsServed
PROPERTIES
  TerminalIsFinal
