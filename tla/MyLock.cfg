SPECIFICATION Spec
CONSTANTS
  Lockers = {t1, t2, t3}
  Strangers = {t4}
  Careless = {}
  MaxCalls = 2
  Once = {t2, t3}
  Dummy = Dummy
  Null = Null
CHECK_DEADLOCK FALSE
INVARIANTS
  NoLostWakeup
  MutualExclusion
PROPERTIES
  ImplementsFifoMutex
  CallsReturn
