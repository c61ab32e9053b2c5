SPECIFICATION Spec
CONSTANTS
  k0 = k0
  k1 = k1
  k2 = k2
  Keys <- MCKeys
  NoId = NoId
  Main = Main
  Existing <- MCExisting
  NumTasks = 2
  Others = {o1}
  MaxAsks = 2
INVARIANT TypeOK
INVARIANT IdsIndexTheirText
INVARIANT OverlaysResolve
INVARIANT RemapKeepsText
INVARIANT SameAsSequential
PROPERTY InternIsAtomic
