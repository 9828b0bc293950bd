SPECIFICATION Spec
CONSTANTS
  Sendable <- TwoFrames
  Wakeups <- SomeWakeups
  Strays <- SomeStrays
  ReadChunk = 8
  MaxBuffer = 17
  MaxReads = 2
  MaxSent = 2
  MaxFaults = 1
INVARIANTS TypeOK WrongByteNeverData WholeFrameReturned ExactlyOneFrameConsumed FirstFrameReturned
