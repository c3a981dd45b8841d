SPECIFICATION Spec
CONSTANTS
  Location <- MCLocation
  Cookies <- MCCookies
  Unsupported = {}
  Plans <- MCPlans
  Configured <- RequestConfig
  Transform <- TransformRequest
  AdapterFor <- GetAdapter
  Outgoing <- Wire
  Requests = {1, 2}
  Tokens = {1}
  Signals = {1}
  Threshold = 2
  ChunkSize = 2
  MaxTime = 7
  MaxLoaded = 3
INVARIANTS CancelReachesTheWire ListenersGo InOrder SentAsAsked ProgressGrows
PROPERTIES CancelHolds EveryRequestEnds
CHECK_DEADLOCK FALSE
