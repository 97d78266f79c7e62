\* A pool that is started once and queues candidates; concurrent starts and a cleanup.
CONSTANTS
  s1 = s1
  Execs = {1, 2, 3, 4, 5}
  Warmups = {s1}
  MaxUses = 2
  Setups <- FourSetups
CHECK_DEADLOCK FALSE
SPECIFICATION FairSpec
INVARIANTS
  ExecutionsUndisturbed
PROPERTIES
  FreshAfterTimeout
  ExecutesReturn
