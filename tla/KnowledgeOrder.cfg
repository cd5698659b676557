SPECIFICATION Spec
CONSTANTS
  Changes = {c1, c2}
  Root = root
  Workers = {w1}
  NoOp = noOp
  MaxAttempts = 2
  MaxRevision = 4
INVARIANTS PublishedIsTip
CHECK_DEADLOCK FALSE
