SPECIFICATION FairSpec
CONSTANTS
  Procs = {p1, p2}
  Versions = {v1, v2}
  Plans = {a}
  FactSets = {v1, v2}
  Facts <- OwnFacts
  Missing = Missing
  Garbage = Garbage
  SetupMissing = SetupMissing
  None = None
  Edits = {"between"}
  Faults = {"crash", "damage", "prune", "io", "stat", "setup"}
  MaxFaults = 2
INVARIANT TypeOK
INVARIANT HitsTruthful
INVARIANT EntriesWhole
PROPERTY EventuallyWarm
