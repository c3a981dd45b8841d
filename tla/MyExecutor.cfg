SPECIFICATION Spec
CONSTANTS
  Submitters = {s1, s2}
  TaskCount = 6
  Pools <- MCPools
CHECK_DEADLOCK FALSE
INVARIANTS
  PoolInOrder
PROPERTIES
  ImplementsTaskPool
  NothingSwallowed
  AcceptedAreStarted
