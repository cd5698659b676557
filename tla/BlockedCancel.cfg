SPECIFICATION Spec
CONSTANTS
  Jobs = {j1}
  Runtimes = {r1}
  Workers = {w1}
  Tasks = {}
  NoWorker = NoWorker
  NoRuntime = NoRuntime
  NoTask = NoTask
  NoCall = NoCall
  CapacityChoices = {1}
  EnabledChoices = {TRUE}
  DiscardChoices = {TRUE, FALSE}
  LeaseTerm = 1
  MaxGeneration = 2
INVARIANT OpenIncidentActionable
