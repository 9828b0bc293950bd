SPECIFICATION Spec
CONSTANTS
  Plan <- Shared
  Length <- Bytes
  Other = "other"
  Answers <- FewAnswers
  MaxValue = 1299
  Faults <- LineFault
  MaxPieces = 4
INVARIANTS TypeOK QuietStartIsExact 
PROPERTIES ReadReturns
