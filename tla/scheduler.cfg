SPECIFICATION Spec
CONSTANTS
  MaxMeters = 3
  MaxItems = 2
  MaxInterval = 1
  Configs <- AnyConfig
  Code = {"success", "timeout"}
INVARIANTS TypeOK OneReadAfterStop
PROPERTIES BatchWhole StopReturns EveryMeterPolled StopIsPrompt RoundEnds InTurn
