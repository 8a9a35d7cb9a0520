SPECIFICATION JobsSpec
CONSTANTS
  u1 = u1  u2 = u2  e1 = e1  a1 = a1  a2 = a2
  Uploads = {u1, u2}
  Creates = {e1}
  Assets = {a1, a2}
  Cap = 1
  Rolling = FALSE
  Crashes = 1
INVARIANTS MaterialsPresent DoneIsFull QuotaKept CleanWhenQuiet
PROPERTIES JobFinal
SYMMETRY Symmetry
CHECK_DEADLOCK FALSE
