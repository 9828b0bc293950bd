SPECIFICATION Spec
CONSTANTS
  MaxMeters = 2
  MaxItems = 2
  MaxInterval = 1
  Configs <- AnyConfig
  Code = {"success", "timeout"}
INVARIANTS StopIsFinal
