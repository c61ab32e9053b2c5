SPECIFICATION Spec
CONSTANTS
  Procs = {p1, p2}
  Checkouts = {c1}
  Sources = {s1, s2}
  LockFiles = {l1}
  Shareable = {s1, s2}
  Interference = {"edit", "revert"}
  Faults = {}
  MaxStarts = 2
  MaxEdits = 2
  None = None
  Garbage = Garbage
SYMMETRY Symmetry
INVARIANT EntriesTruthful
CHECK_DEADLOCK FALSE
