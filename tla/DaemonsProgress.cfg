SPECIFICATION ProgressSpec
CONSTANTS
  Daemons = {d1, d2}
  Runtimes = {r1}
  Runtime = r1
  WorkCount = 2
  RuntimeOf <- OneRuntime
  CapacityTotal <- OneEach
  Slots = 1
  PollBatchSize = 1
  MaxLosses = 1
  MaxStalls = 0
  MaxToggles = 0
  None = none
  MaxGeneration = 6
  Changes = {c1, c2}
  Root = root
  NoOp = noOp
  MaxAttempts = 1
  MaxRevision = 3
PROPERTIES ClaimsProgress 
CHECK_DEADLOCK FALSE
