\* Two run objects at a time over a graph with a check and a review, three presses of
\* Run or Stop, one thing that goes wrong.
SPECIFICATION RunsSpec
CONSTANTS
  Graph <- ReviewGraph
  KindOf <- ReviewKinds
  Walkers = {w1, w2}
  NoOne = NoOne
  MaxRuns = 2
  MaxAsks = 3
  MaxUpsets = 1
SYMMETRY Symmetry
INVARIANTS
  StepsFollowGraph
  NothingUnapproved
  RunningIsReal
CHECK_DEADLOCK FALSE
