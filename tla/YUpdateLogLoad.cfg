\* A load whose two reads have a compaction between them.
SPECIFICATION Spec
CONSTANTS
  None = None
  Processes = {p1}
  Actors = {x}
  Compactors = {c1}
  Readers = {q1}
  MaxRows = 1
  MaxUpdates = 2
SYMMETRY Symmetry
INVARIANTS
  LoadIsWhole
