SPECIFICATION Spec
CONSTANTS
  Plan <- TwoItems
  Length <- Bytes
  Other = "other"
  Answers <- GoodAnswer
  MaxValue = 1299
  Faults <- NoFault
  MaxPieces = 4
PROPERTIES SlowMeterIsRead
