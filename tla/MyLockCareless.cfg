SPECIFICATION Spec
CONSTANTS
  Lockers = {t1, t2}
  Strangers = {}
  Careless = {t1}
  MaxCalls = 1
  Once = {t1, t2}
  Dummy = Dummy
  Null = Null
CHECK_DEADLOCK FALSE
PROPERTY NeverFreedUnderHolder
