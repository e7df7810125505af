SPECIFICATION FailoverSpec
CONSTANTS
  Primaries = {p1}
  Backups = {b1}
  Partitions = {k1}
  Interval = 1
  PreemptionHoldTime = 1
  CallTime = 0
  ClockSkew = 0
  Faults = {"crash"}
INVARIANTS StopsOnlyStarted
CHECK_DEADLOCK FALSE
