SPECIFICATION RoomSpec
CONSTANTS
  Workers = {w1, w2}
  NoWorker = NoWorker
  MaxAttempts = 2
  Checkpoints = {TRUE, FALSE}
  LeaseTerm = 1
  MaxDeliveries = 2
  MaxGeneration = 4
  hostAgent = hostAgent
  ada = ada
  bob = bob
  message = message
  Calls = {c1, c2}
  NoAgent = NoAgent
  NoMessage = NoMessage
  NoCall = NoCall
  Jobs = {j1, j2}
  TeamTask = t1
  NoTask = NoTask
  Runtime = r1
  Daemon = d1
  NoDaemon = none
SYMMETRY Symmetry
INVARIANTS InboxSound AnswerIsOfThisAttempt DelegationSound
PROPERTIES HostsAreFenced KeepsMailbox OnlyAuthorized TasksFollow
CHECK_DEADLOCK FALSE
