SPECIFICATION Spec
CONSTANTS
  Absent = Absent
  Garbled = Garbled
  SizeValues = 1000
  Files <- SomeFiles
  AnswerSizes = {1, 2}
  SignalInLog = TRUE
  MaxSignals = 2
  MaxBacklog = 3
PROPERTIES SignalStops
CHECK_DEADLOCK FALSE
