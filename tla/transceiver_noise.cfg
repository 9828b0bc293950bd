SPECIFICATION Spec
CONSTANTS
  Sendable <- TwoFrames
  Wakeups <- SomeWakeups
  Strays <- SomeStrays
  ReadChunk = 8
  MaxBuffer = 17
  MaxReads = 1
  MaxSent = 1
  MaxFaults = 1
INVARIANT FrameBoundaryFound
