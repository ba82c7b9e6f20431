\* One schedule that may fire twice, one call of an agent elsewhere, one poll beside the
\* recovery at the start, two places to run, one thing that goes wrong.
SPECIFICATION SchedulesSpec
CONSTANTS
  Calls = {x1}
  Firings = {f1, f2}
  CardPolls = {p1}
  CardBoot = boot
  CardSlots = {e1, e2}
  MAX_CONCURRENT = 2
  NoRun = NoRun
  MaxUpsets = 1
  Plans = {s1}
  ByAgent = {s1}
  NoPlan = NoPlan
INVARIANTS
  SchedulesTypeOK
  SentOnce
  OneRunPerDueTime
PROPERTIES
  ScheduleSettles
