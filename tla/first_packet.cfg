SPECIFICATION Spec
CONSTANTS
  kDelta = 1
  Word = 64
  IntWord = 32
  Dimension = 1
  Clients = {c1, c2, c3}
  kNumRequiredClients = 3
  kNumNodesPerQuorum = 1
INVARIANTS FirstPacketFromServer
CHECK_DEADLOCK FALSE
