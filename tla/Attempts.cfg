SPECIFICATION Spec
CONSTANTS
  q1 = q1  q2 = q2
  Questions = {q1, q2}
  Options = {0, 1}
  None = None
  Banks <- MCBanks
  MaxClicks = 2
  MaxFinishes = 2
  MaxAfter = 1
CHECK_DEADLOCK FALSE
INVARIANTS VerdictFollowsAnswer FinalTally TallyWithinPaper AggregatedPerHandIn NothingUngraded
PROPERTIES AnswerNeverErased
