SPECIFICATION DaemonsSpec
CONSTANTS
  Changes = {c1, c2}
  Root = root
  Workers = {d1, d2}
  NoOp = noOp
  MaxAttempts = 2
  MaxRevision = 4
  NoDaemon = none
  MaxGeneration = 4
  MaxFaults = 1
  NativeResume = TRUE
  Runtimes = {r1}
  WorkCount = 3
  RuntimeOf <- OneRuntime
  CapacityTotal <- TwoEach
  Slots = 2
  PollBatchSize = 2
  MaxLosses = 1
  MaxStalls = 1
  MaxToggles = 0
SYMMETRY Symmetry
INVARIANTS MergeSound ProposalSound 
PROPERTIES MergeDecides WorkIsKept ReceiptDecides
CHECK_DEADLOCK FALSE
