\* A thread of at most two wake-ups and one dispatched task, one thing that goes wrong.
SPECIFICATION FamilySpec
CONSTANTS
  b1 = b1
  Tasks = {t1}
  Squads = {b1}
  SquadOf <- OneSquad
  MaxWakes = 4
  MAX_THREAD_WAKES = 2
  MaxLateWakes = 1
  WakeSlots = {w1, w2}
  MaxUpsets = 1
INVARIANTS
  FamilyTypeOK
  WakesCapped
PROPERTIES
  SucceededIsNotRerun
  ReportsWhenChildrenEnded
  ThreadDies
CHECK_DEADLOCK FALSE
