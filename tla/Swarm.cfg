\* Two jobs over three coordinators, one of which has another secret; three gossiping nodes, one without the secret.
CONSTANTS
  j1 = j1
  j2 = j2
  c1 = c1
  c2 = c2
  c3 = c3
  n1 = n1
  n2 = n2
  n3 = n3
  pA = pA
  pB = pB
  Unknown = Unknown
  Jobs = {j1, j2}
  Coordinators <- ThreeUrls
  Readable = {c1, c3}
  Refused = {}
  Nodes = {n1, n2, n3}
  Patterns = {pA, pB}
  Source <- Learners
  Readers = {n1, n2}
  Senders = {"worker", "client"}
  Default = 7
  Floor = 3
  MaxLost = 1
  MaxOutages = 2
  MaxReports = 1
  MaxRestarts = 1
SPECIFICATION FairSwarmSpec
CHECK_DEADLOCK FALSE
INVARIANT
  OneCopyPerPublication
PROPERTIES
  BadNodesAddNothing
  NodesGoOn
