\* Concurrent executions over one gateway, its proxy and two connections.
CONSTANTS
  e1 = e1
  e2 = e2
  c1 = c1
  c2 = c2
  Names <- TheNames
  Parent <- TheParents
  Addresses <- TheAddresses
  Members <- TheMembers
  Ports = {80, 443}
  Execs = {e1, e2}
  Conns = {c1, c2}
  Requests <- TheRequests
  Lists <- SmallLists
  Settings <- TheSettings
  Resolvable = {"pypi.org"}
  SidecarLimit = 1
  MaxFaults = 1
  MaxCancels = 1
  MaxCleanups = 1
CHECK_DEADLOCK FALSE
SPECIFICATION Spec
SYMMETRY AnyConn
INVARIANTS
  
  EgressFiltered
  RateLimitKept
