SPECIFICATION Spec
CONSTANTS
  Peers <- MCPeers
  InitMessages <- MCInitMessages
  Routes <- MCRoutes
  KeyNames <- MCKeyNames
  Plaintexts <- MCPlaintexts
  Outputs <- MCOutputs
  MaxCalls = 2
  onids = {0, 1}
  kAMax = 1
  PseudonymSizes = {28, 64, 65, 66}
  ByteBits = 2
  NumberBytes = 4
  IntBits = 4
INVARIANTS
  TypeOK
  ReadAsSent
  InitMessageFits
  PacketsArrive
  PseudonymsFit
  NumbersKept
CHECK_DEADLOCK FALSE
