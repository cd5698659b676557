SPECIFICATION FairSpec
CONSTANTS
  Jobs = {j1, j2}
  Runtimes = {r1}
  Workers = {w1}
  Tasks = {}
  NoWorker = NoWorker
  NoRuntime = NoRuntime
  NoTask = NoTask
  NoCall = NoCall
  CapacityChoices = {1}
  EnabledChoices = {TRUE}
  DiscardChoices = {TRUE}
  LeaseTerm = 1
  MaxGeneration = 2
INVARIANTS CapacityConserved
  
