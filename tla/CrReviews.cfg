SPECIFICATION Spec
CONSTANTS
  v1 = v1  v2 = v2  v3 = v3  w1 = w1
  c1 = c1  c2 = c2  c3 = c3  c4 = c4  c5 = c5  p1 = p1  p2 = p2
  Writers = {v1, v2, v3}
  Reviews = {v1, v2, v3}
  CRs = {c1, c2, c3, c4, c5}
  Seed = 2
  Fields <- MCFields
  Ops <- NoOps
  Proposal <- MCProposal
  Processes = {p1}
  Home <- OneProcess
  Nobody = Nobody
  Crashes = 1
INVARIANTS Numbered BankFollowsDecisions
PROPERTIES BankEdits DecisionFinal
CHECK_DEADLOCK FALSE
