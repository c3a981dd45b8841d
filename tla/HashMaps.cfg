SPECIFICATION Spec
CONSTANTS
  Keys = {1, 5, 13, 253}
  Values = {1, 2}
  Hash <- ByteHash
  Null = Null
  Exception = Exception
  FixedLength = 2
  InitialLength = 2
INVARIANTS
  AllAgree
PROPERTIES
  DynamicIsAMap
  MigrationEnds
