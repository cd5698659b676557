SPECIFICATION WorkspaceSpec
CONSTANTS
  r1 = r1
  r2 = r2
  u1 = u1
  u2 = u2
  NoUser = NoUser
  Requests = {r1, r2}
  UserOf <- TwoUsers
  Ops = {"edit", "setPrimary", "create", "delete", "milestone", "checkpoint", "restore", "continue", "switch", "pin", "unpin", "patch", "propose"}
  Paths = {main, notes}
  DefaultPath = main
  Contents = {c0, c1}
  Initial = c0
  Proposals = {change}
  MaxPinned = 1
  MaxCalls = 3
  p1 = p1
  p2 = p2
  k1 = k1
  s1 = s1
  t1 = t1
  l1 = l1
  SelectedVersion = selected
INVARIANTS VersionsFormTree 
PROPERTIES VersionIsDraft ApplyIsExact
CHECK_DEADLOCK FALSE
