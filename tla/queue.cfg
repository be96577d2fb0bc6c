SPECIFICATION Spec
CONSTANTS
  kDelta = 1
  Word = 64
  IntWord = 32
  Dimension = 0
  kRecv = 1
  kAMax = 2
  kSend = 1
  kPseudonymSize = 65
  m_corrupt = 1
  max_routing_msg_out = 1
  MaxTime = 10
  p0 = p0
  p1 = p1
  p2 = p2
  p3 = p3
  p4 = p4
  none = none
  zeros = zeros
  NoPseudonym = zeros
  MaxCopies = 1
  m0 = m0
  m1 = m1
  Self = p0
  Self0 = p1
  NoPeer = none
  NoMsg = m0
  Peers = {p0, p1}
  Msgs = {m1}
  Foreign <- MCForeign
  Destinations <- MCForeign
  SendTimes <- QueueTimes
  InitMessages <- MCInit0
  Payloads <- NoPayloads
  Rank <- MCRank
  IntermediateTarget <- MCTarget
INVARIANTS TypeOK AnnounceFits Punctual NothingLost PacketsKeepTime
CHECK_DEADLOCK FALSE
