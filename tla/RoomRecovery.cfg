SPECIFICATION Spec
CONSTANTS
  Workers = {w1, w2}
  NoWorker = NoWorker
  MaxAttempts = 2
  Checkpoints = {TRUE,FALSE}
  LeaseTerm = 1
  MaxDeliveries = 2
  MaxGeneration = 4
CHECK_DEADLOCK FALSE
INVARIANT LostIsRecoverable
