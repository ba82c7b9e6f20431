\* Two compactions of one process overlap: the base one of them wrote is replaced.
SPECIFICATION Spec
CONSTANTS
  None = None
  Processes = {p1}
  Actors = {x}
  Compactors = {c1, c2}
  Readers = {}
  MaxRows = 1
  MaxUpdates = 3
SYMMETRY Symmetry
INVARIANTS
  NothingLost
