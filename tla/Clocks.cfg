SPECIFICATION ClocksSpec
CONSTANTS
  Capacity = 5
  Rate = 2
  Permits = {1, 3, 6}
  MaxNow = 5
  MaxForward = 7
  StampSize = 2
  RoomSize = 2
  MachineSize = 2
  SequenceSize = 4
  StartStamp = 1
  MaxTime = 4
  Machines = {m, n}
INVARIANTS TokenWindow SameAnswers OwnIds
PROPERTY Increasing
