CONSTANTS
  Streams <- TwoStreams
  Commands = {}
  CmdCap = 1
  MaxConsoleFaults = 0
  MaxCrashes = 0
  Revocable = TRUE
  Timed = TRUE
  None = None
  d1 = d1
  d2 = d2
SPECIFICATION FairSpec
PROPERTIES

  RevokedIsDrained

CHECK_DEADLOCK FALSE
