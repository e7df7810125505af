SPECIFICATION FreshSpec
CONSTANTS
  Primaries = {p1, p2}
  Backups = {b1}
  Interval = 2
  PreemptionHoldTime = 4
  CallTime = 1
  ClockSkew = 0
  Faults = {}
SYMMETRY Interchangeable
PROPERTIES TakeoverOnlyAfterFailure
CHECK_DEADLOCK FALSE
