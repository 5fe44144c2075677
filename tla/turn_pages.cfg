CONSTANTS
  Threads = {1}
  Turns = {1, 2}
  Txs = {}
  Patches = {}
  Walks = {"turns"}
  Size = 1
  MaxSeq = 3
  MaxClock = 0
  None = None
SPECIFICATION Spec
INVARIANTS
  TurnWalkExact
CHECK_DEADLOCK FALSE
