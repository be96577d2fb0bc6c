SPECIFICATION Spec
CONSTANTS
  kDelta = 1
  Word = 128
  IntWord = 64
  Dimension = 0
  kRecv = 1
  kAMax = 1
  kSend = 1
  kPseudonymSize = 65
  m_corrupt = 1
  max_routing_msg_out = 1
  MaxTime = 12
  p0 = p0
  p1 = p1
  p2 = p2
  p3 = p3
  p4 = p4
  none = none
  zeros = zeros
  NoPseudonym = zeros
  MaxCopies = 1
  m0 = m0
  m1 = m1
  Self = p0
  Self0 = p1
  NoPeer = none
  NoMsg = m0
  Peers = {p0, p1, p2, p3, p4}
  Msgs = {m1}
  Foreign = {}
  Destinations = {}
  SendTimes = {}
  InitMessages <- MCInit0
  Payloads <- DeliverPayloads
  Rank <- MCRank
  IntermediateTarget <- MCTarget
INVARIANTS DeliveredOnce
CHECK_DEADLOCK FALSE
