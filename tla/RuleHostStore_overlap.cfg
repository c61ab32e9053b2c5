SPECIFICATION Spec
CONSTANTS
  Procs = {p1, p2}
  Checkouts = {c1}
  Sources = {s1, s2}
  LockFiles = {l1}
  Shareable = {s1, s2}
  Interference = {"edit"}
  Faults = {}
  MaxStarts = 3
  MaxEdits = 1
  None = None
  Garbage = Garbage
SYMMETRY Symmetry
INVARIANT ExecutesVerified
CHECK_DEADLOCK FALSE
