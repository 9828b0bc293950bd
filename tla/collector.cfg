SPECIFICATION Spec
CONSTANTS
  Absent = Absent
  Garbled = Garbled
  SizeValues = 1000
  Files <- SomeFiles
  AnswerSizes = {1, 2}
  SignalInLog = FALSE
  MaxSignals = 2
  MaxBacklog = 3
INVARIANTS TypeOK ReadyToPoll DrainedAtExit AbortCause QueueAsConfigured
PROPERTIES AcceptedIsPolled SignalStops PollsAsFiled OutboxUsed StopLeadsOut
