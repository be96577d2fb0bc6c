SPECIFICATION Spec
CONSTANTS
  kDelta = 2
  Word = 64
  IntWord = 32
  Peers = {p0, p1}
  Receivers <- MCReceivers
  HEARTBEAT_INTERVAL = 1
  MaxTurn = 2
  MinDelay = 0
  MaxDelay = 1
  MaxSkew = 0
  MaxTime = 28
  p0 = p0
  p1 = p1
INVARIANTS NobodyAhead
CHECK_DEADLOCK FALSE
