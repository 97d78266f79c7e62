\* Syntheses with evictions and a restart; memories with failed saves, AgentDB and migrations; a torn, damaged log.
CONSTANTS
  math = math
  code = code
  Classes = {math, code}
  CodeClasses = {code}
  Scores = {2}
  MaxEntries = 5
  MinCluster = 2
  MaxClusters = 2
  MaxFewShot = 2
  MaxSolved = 5
  MaxUses = 1
  MaxCrashes = 1
  p1 = p1
  p2 = p2
  Problems = {p1, p2}
  Near <- Alike
  MemoryScores = {1}
  MemoryEntries = 2
  MaxInserts = 3
  MaxStarts = 2
  MaxFaults = 1
  MaxTools = 2
  w1 = w1
  w2 = w2
  j1 = j1
  j2 = j2
  Writers = {w1, w2}
  Jobs = {j1, j2}
  Garbage = Garbage
  MaxRecords = 3
  MaxTime = 1
SYMMETRY Symmetry
CHECK_DEADLOCK FALSE
SPECIFICATION StoresSpec
INVARIANTS
  DistilledOnce
  OnlyVerifiedServed
  NothingLost
  MirrorFaithful
  LogSound
PROPERTIES
  NothingForgotten
  OnlyCorrectionsRewrite
