SPECIFICATION Spec
CONSTANTS
  kDelta = 1
  Word = 64
  IntWord = 32
  Dimension = 1
  Peers = {p0, p1, p2}
  NoPeer = NoPeer
  LastRound = 6
INVARIANTS TypeOK NoRouteClash Isolated ParticipantsAgree
CHECK_DEADLOCK FALSE
