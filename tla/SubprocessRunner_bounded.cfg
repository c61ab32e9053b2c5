SPECIFICATION FairSpec
CONSTANTS
  Streams = {"stderr"}
  Capacity = 2
  Timeout = 2
  Grace = 2
  MaxOutput = 2
  Hazards = {"error", "reuse"}
INVARIANT TypeOK
INVARIANT CompleteOutput
INVARIANT TreeKilled
INVARIANT ReturnsInTime
PROPERTY EveryThreadEnds
