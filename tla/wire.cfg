SPECIFICATION Spec
CONSTANTS
  kPseudonymCells = 8
  kMessageCells = 16
  Garbage = Garbage
INVARIANTS DecodedAsSent
CHECK_DEADLOCK FALSE
