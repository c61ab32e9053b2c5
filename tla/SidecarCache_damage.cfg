SPECIFICATION FairSpec
CONSTANTS
  Procs = {p1, p2}
  Files = {f1}
  Marker = Marker
  Shared = Shared
  Absent = Absent
  Spoiled = Spoiled
  Faults = {"crash", "failure", "damage"}
PROPERTY PublishedForGood
PROPERTY EveryoneAnswered
