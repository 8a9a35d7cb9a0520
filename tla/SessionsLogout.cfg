SPECIFICATION Spec
CONSTANTS
  t1 = t1  t2 = t2
  Tabs = {t1}
  Callers = {t1}
  MaxSessions = 3
  Atomic = TRUE
INVARIANTS LogoutHolds
CHECK_DEADLOCK FALSE
