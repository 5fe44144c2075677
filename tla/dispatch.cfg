CONSTANTS
  Streams <- TwoStreams
  Commands = {d1, d2}
  CmdCap = 1
  MaxConsoleFaults = 0
  MaxCrashes = 1
  Revocable = TRUE
  Timed = FALSE
  None = None
  d1 = d1
  d2 = d2
SPECIFICATION Spec
SYMMETRY Symmetric
INVARIANTS
  RegistryTracksSessions
  OkMeansStored
  PendingIsAwaited
CHECK_DEADLOCK FALSE
