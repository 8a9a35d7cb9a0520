SPECIFICATION FairSpec
CONSTANTS
  t1 = t1  t2 = t2
  Tabs = {t1, t2}
  Callers = {t1}
  MaxSessions = 3
  Atomic = TRUE
INVARIANTS OneLiveSession WaitsForRefresh
PROPERTIES DeadStaysDead CallSettles
CHECK_DEADLOCK FALSE
