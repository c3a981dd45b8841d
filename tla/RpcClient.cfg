SPECIFICATION FairSpec
CONSTANTS
  None = None
  Threads = {t1, t2}
  MaxCalls = 3
CHECK_DEADLOCK FALSE
INVARIANTS
  AnswersInOrder
PROPERTIES
  ImplementsRemoteCalls
  CallsReturn
