\* The audit log: a correction changes what the log says was known before it.
SPECIFICATION Spec
CONSTANTS
  w1 = w1
  w2 = w2
  j1 = j1
  j2 = j2
  Writers = {w1}
  Jobs = {j1}
  Garbage = Garbage
  MaxRecords = 3
  MaxTime = 1
PROPERTY PastAnswersStand
CHECK_DEADLOCK FALSE
