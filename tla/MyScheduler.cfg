SPECIFICATION Spec
CONSTANTS
  Tasks = {a, b}
  Delays = {0, 2}
  MaxTime = 5
  None = None
INVARIANTS
  QueueInOrder
PROPERTIES
  NeverEarly
  KeepsRunning
CHECK_DEADLOCK FALSE
