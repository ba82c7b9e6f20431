SPECIFICATION Spec
CONSTANTS
  p1 = p1
  p2 = p2
  Plans <- OnePlan
  Owner <- OwnPlans
  NJobs = 2
  CheckOrder <- TestsThenAnswer
  Checklists <- AnswerOnly
  MAX_ATTEMPTS = 2
  MAX_RUNNING = 1
  MAX_OPEN_PLANS = 1
  RecoverLimit = 1
  MaxLives = 2
  MaxFaults = 1
INVARIANTS
  TypeOK
  DoneMeansChecked
  JobsSettleInOrder
  NotRunTwice
PROPERTIES
  FinalStays
  CutOffHasNoTicks
CHECK_DEADLOCK FALSE
