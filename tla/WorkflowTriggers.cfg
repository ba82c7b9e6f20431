\* Two run objects at a time over a graph of one step, which the trigger alone starts; two
\* windows that land, up to twice each, two ticks that may overlap, and two things that go
\* wrong.
SPECIFICATION WorkflowsSpec
CONSTANTS
  Graph <- StepGraph
  KindOf <- StepKinds
  Walkers = {w1, w2}
  NoOne = NoOne
  MaxRuns = 4
  MaxAsks = 0
  MaxUpsets = 2
  Docs = {d1, d2}
  MAX_SEEN = 2
  Ticks = {t1, t2}
  MaxLandings = 2
INVARIANTS
  WorkflowsTypeOK
  HandedOnce
PROPERTIES
  EveryDocHanded
CHECK_DEADLOCK FALSE
