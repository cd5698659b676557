SPECIFICATION RequestsSpec
CONSTANTS
  Calls = {c1, c2, c3}
  NoCall = NoCall
  Payloads = {h1, h2}
  NoPayload = NoPayload
  Attempts = 2
  Inherited = {"in_progress", "failed"}
  Owners = {o1, o2}
  NoOwner = NoOwner
  MaxRevision = 7
  Connections = {k1, k2}
  NoConnection = none
  Callers = {a, b}
  NoCaller = nobody
  Disposer = disposer
  MaxTries = 1
  MaxErrors = 1
  Turns = {t1, t2}
  Adoptions = {w1}
  Chats = {m1}
  PlanDecisions = {d1, d2}
  Starts = {s1, s2}
  MaxCrashes = 1
INVARIANTS KeySound AtomicIsExact DecisionSound ConnectionSound ConversationSound
PROPERTIES EveryRequestEnds EndedIsFinal
CHECK_DEADLOCK FALSE
