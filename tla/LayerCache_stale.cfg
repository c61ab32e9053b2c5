SPECIFICATION Spec
CONSTANTS
  Procs = {p1}
  Versions = {v1, v2}
  Plans = {a}
  FactSets = {v1, v2}
  Facts <- OwnFacts
  Missing = Missing
  Garbage = Garbage
  SetupMissing = SetupMissing
  None = None
  Edits = {"between", "during"}
  Faults = {}
  MaxFaults = 0
INVARIANT HitsTruthful
