\* Queries in the web application, remote workers and live pages.
SPECIFICATION Spec
CONSTANTS
  j1 = j1
  j2 = j2
  page1 = page1
  page2 = page2
  laptop = laptop
  Jobs <- MCJobs
  Clients <- MCClients
  Workers <- MCWorkers
  Nobody = Nobody
  Transports <- MCTransports
  Scope <- MCScope
  MaxOutages = 1
  MaxFans = 2
INVARIANTS
  ShownIsSo
PROPERTIES
  OutcomeStands
  QueriesFinish
CHECK_DEADLOCK FALSE
