\* One process, one compaction at a time, one reader.
SPECIFICATION Spec
CONSTANTS
  None = None
  Processes = {p1}
  Actors = {x, y}
  Compactors = {c1}
  Readers = {q1}
  MaxRows = 1
  MaxUpdates = 3
SYMMETRY Symmetry
INVARIANTS
  TypeOK
  NothingLost
  LogTellsHistory
  ReadsAreExact
