SPECIFICATION Spec
CONSTANTS
  kDelta = 2
  Word = 64
  IntWord = 32
  Peers = {p0, p1}
  Receivers <- MCReceivers
  HEARTBEAT_INTERVAL = 1
  MaxTurn = 2
  MinDelay = 0
  MaxDelay = 15
  MaxSkew = 1
  MaxTime = 20
  p0 = p0
  p1 = p1
INVARIANTS TypeOK NoRoundMissed
PROPERTIES TimelyKept UsedInTheirRound EveryRoundEntered
CHECK_DEADLOCK FALSE
