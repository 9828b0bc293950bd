SPECIFICATION Spec
CONSTANTS
  d1 = d1
  d2 = d2
  Meter = {m1}
  Di = {d1}
  Malformed = Malformed
  MaxQueue = 1
  MaxReports = 3
  MaxQueries = 2
PROPERTIES ShutdownCompletes QueriesServed UplinkImplemented
