SPECIFICATION FairSpec
CONSTANTS
  p1 = p1
  p2 = p2
  Plans <- TwoPlans
  Owner <- OwnPlans
  NJobs = 1
  CheckOrder <- OnlyAnswer
  Checklists <- AnswerOnly
  MAX_ATTEMPTS = 1
  MAX_RUNNING = 1
  MAX_OPEN_PLANS = 1
  RecoverLimit = 1
  MaxLives = 2
  MaxFaults = 0
INVARIANTS
  NoPlanForgotten
PROPERTIES
  PlansEnd
CHECK_DEADLOCK FALSE
