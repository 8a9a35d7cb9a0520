SPECIFICATION FlowSpec
CONSTANTS
  q1 = q1
  q2 = q2
  TestOrder <- MCTestOrder
  NOptions = 3
  Marked <- MCMarked
  Draws <- MCDraws
  MaxAttempts = 2
  MaxTime = 2
  MaxLoads = 2
  MaxImports = 1
  MaxKeys = 1
  Presets = {0, 5, 40}
  Customs = {7}
  Pools <- MCPools
  Links = {"take", "pretest", "results", "perq", "home"}
  Tours <- MCExamTours
INVARIANT ExamAccepted
CHECK_DEADLOCK FALSE
