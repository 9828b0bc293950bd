SPECIFICATION Spec
CONSTANTS
  Plan <- OneItem
  Length <- Bytes
  Other = "other"
  Answers <- GoodAnswer
  MaxValue = 1299
  Faults <- NoFault
  MaxPieces = 4
INVARIANTS ResidualFrameNeverUsed
