SPECIFICATION Spec
CONSTANTS
  Procs = {p1, p2, p3}
  Files = {f1, f2}
  Marker = Marker
  Shared = Shared
  Absent = Absent
  Spoiled = Spoiled
  Faults = {"crash"}
INVARIANT TypeOK
PROPERTY FilledOnce
INVARIANT RefusedForCause
SYMMETRY Symmetry
