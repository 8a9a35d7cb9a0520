SPECIFICATION Spec
CONSTANTS
  q1 = q1  q2 = q2
  Questions = {q1, q2}
  Options = {0, 1, 2}
  None = None
  Banks <- MCBanks
  MaxClicks = 3
  MaxFinishes = 1
  MaxAfter = 0
CHECK_DEADLOCK FALSE
INVARIANT VerdictWhileTaking
