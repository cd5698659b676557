CONSTANTS
  Daemons = {d1, d2}
  Runtimes = {r1}
  WorkCount = 2
  RuntimeOf <- OneRuntime
  CapacityTotal <- OneEach
  Slots = 1
  PollBatchSize = 1
  MaxLosses = 1
  MaxStalls = 0
  MaxToggles = 0
  None = None
SPECIFICATION FairSpec
PROPERTIES LapsedAlwaysReclaimed
CHECK_DEADLOCK FALSE
