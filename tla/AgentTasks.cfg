\* One squad of two tasks, maybe after another of its label, two overlapping polls, two places to run, one thing that goes wrong.
SPECIFICATION TasksSpec
CONSTANTS
  b1 = b1
  b2 = b2
  a1 = a1
  Tasks = {t1, t2}
  Squads = {b1, b2}
  SquadOf <- OneSquad
  LabelOf <- OneLabel
  AssigneeOf <- OneAgent
  Pollers = {p1, p2}
  Boot = boot
  Slots = {s1, s2}
  MAX_CONCURRENT = 2
  NoTask = NoTask
  EarlierMail <- Earlier
  MaxUpsets = 1
SYMMETRY Symmetry
INVARIANTS
  TasksTypeOK
  OneRunner
  NoOrphans
  SquadReported
PROPERTIES
  ImplementsBoard
CHECK_DEADLOCK FALSE
