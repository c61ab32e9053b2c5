SPECIFICATION Spec
CONSTANTS
  Procs = {p1, p2}
  Checkouts = {c1, c2}
  Sources = {s1, s2}
  LockFiles = {l1}
  Shareable = {s1}
  Interference = {"edit"}
  Faults = {"io", "damage", "crash"}
  MaxStarts = 3
  MaxEdits = 1
  None = None
  Garbage = Garbage
SYMMETRY Symmetry
INVARIANT TypeOK
INVARIANT ExecutesNamedInputs
INVARIANT ExecutesOwnBuild
INVARIANT EntriesTruthful
INVARIANT StampsTruthful
CHECK_DEADLOCK FALSE
