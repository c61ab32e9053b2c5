SPECIFICATION FairSpec
CONSTANTS
  Procs = {p1, p2}
  Checkouts = {c1, c2}
  Sources = {s1, s2}
  LockFiles = {l1}
  Shareable = {s1, s2}
  Interference = {"edit", "revert", "relock"}
  Faults = {"crash"}
  MaxStarts = 2
  MaxEdits = 1
  None = None
  Garbage = Garbage
INVARIANT EntriesRestorable
PROPERTY EveryRunEnds
CHECK_DEADLOCK FALSE
