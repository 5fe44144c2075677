CONSTANTS
  Streams <- TwoStreams
  Commands = {}
  CmdCap = 1
  MaxConsoleFaults = 1
  MaxCrashes = 0
  Revocable = FALSE
  Timed = TRUE
  None = None
  d1 = d1
  d2 = d2
SPECIFICATION FairSpec
INVARIANTS
  TypeOK
PROPERTIES
  SupersededEnds
  GoneIsReported
  LiveIsReported
CHECK_DEADLOCK FALSE
