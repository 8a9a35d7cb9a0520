SPECIFICATION Spec
CONSTANTS
  u1 = u1  u2 = u2  h1 = h1  h2 = h2
  Users = {u1, u2}
  Handlers = {h1, h2}
  Nobody = Nobody
  MaxRequests = 3
INVARIANTS ListingAgrees OnePending ApprovedWasGranted
PROPERTIES DecisionFinal
SYMMETRY ThreadSymmetry
CHECK_DEADLOCK FALSE
