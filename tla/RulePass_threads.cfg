SPECIFICATION FairSpec
CONSTANTS
  N = 3
  a = a
  b = b
  Ids = {a, b}
  Threads = {t1, t2}
  Durations = {0, 1}
  Suites <- SmallSuites
  None = None
  MaxPasses = 2
INVARIANT TypeOK
INVARIANT RunsOnce
PROPERTY RulesRunAtomically
INVARIANT SameAsSequential
INVARIANT CountsConserved
PROPERTY LongestFirst
PROPERTY PassEnds
CHECK_DEADLOCK FALSE
