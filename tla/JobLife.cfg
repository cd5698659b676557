SPECIFICATION Spec
CONSTANTS
  Jobs = {j1}
  Runtimes = {r1}
  Workers = {w1, w2}
  Tasks = {}
  NoWorker = NoWorker
  NoRuntime = NoRuntime
  NoTask = NoTask
  NoCall = NoCall
  CapacityChoices = {0, 1}
  EnabledChoices = {TRUE, FALSE}
  DiscardChoices = {TRUE, FALSE}
  LeaseTerm = 1
  MaxGeneration = 4
SYMMETRY Symmetry
INVARIANTS ControlSound QuestionsSound CompletionAnnouncedOnce IncidentMatchesQuarantine
PROPERTIES WritersNeverGoBack DecisionsKept KeepsContract
