SPECIFICATION Spec
CONSTANTS
  v1 = v1  v2 = v2  v3 = v3  w1 = w1
  c1 = c1  c2 = c2  c3 = c3  c4 = c4  c5 = c5  p1 = p1  p2 = p2
  Writers = {v1, v2}
  Reviews = {v1, v2}
  CRs = {c1}
  Seed = 1
  Fields <- MCFields
  Ops <- NoOps
  Proposal <- MCProposal
  Processes = {p1}
  Home <- BothInOne
  Nobody = Nobody
  Crashes = 0
INVARIANTS AppliedOnce
CHECK_DEADLOCK FALSE
