CONSTANTS
  Pods = {p1, p2}
  Writers = {w1, w2}
  Readers = {r1}
  PodOf <- WriterPods
  FromSeq <- Froms
  EventBatch = 2
  OutCap = 1
  MaxBlock = 2
  MaxSeq = 4
  MaxConnects = 2
  Faults = TRUE
  Deletable = TRUE
  None = None
  p1 = p1
  p2 = p2
  w1 = w1
  w2 = w2
  r1 = r1
SPECIFICATION FairSpec
INVARIANTS
  TypeOK
  LogDense
  StreamIsSeamless
  NoLostWakeup
PROPERTIES
  ImplementsEventLog
  ConnectedReaderCatchesUp
CHECK_DEADLOCK FALSE
