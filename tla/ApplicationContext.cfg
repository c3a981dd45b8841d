SPECIFICATION Spec
CONSTANTS
  Beans = {b1, b2, b3}
  FieldLists <- DifferentTypes
  Null = Null
INVARIANTS
  WellWired
  ProcessedByAll
