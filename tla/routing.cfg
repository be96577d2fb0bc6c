SPECIFICATION Spec
CONSTANTS
  kDelta = 1
  Word = 64
  IntWord = 32
  Dimension = 1
  kRecv = 2
  MaxTuples = 3
  Pseudonyms <- TwoPseudonyms
  Rank <- NumberRank
  IntermediateTarget <- NoTarget
INVARIANTS ExceedingDropped
CHECK_DEADLOCK FALSE
