SPECIFICATION Spec
CONSTANTS
  d1 = d1
  d2 = d2
  Meter = {m1}
  Di = {d1, d2}
  Malformed = Malformed
  MaxQueue = 2
  MaxReports = 3
  MaxQueries = 1
SYMMETRY ItemSymmetry
INVARIANTS TypeOK UplinkInOrder AnswerFresh AnswerNewest DrainedOnReturn
PROPERTIES LossOnlyWithConnection OutboxImplemented DrainAdvances
