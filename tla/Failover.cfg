SPECIFICATION FairFailoverSpec
CONSTANTS
  Primaries = {p1}
  Backups = {b1}
  Partitions = {k1}
  Interval = 1
  PreemptionHoldTime = 1
  CallTime = 0
  ClockSkew = 0
  Faults = {"crash", "write", "read", "publish", "create", "consumer", "close"}
INVARIANTS FailoverTypeOK NoOrphan FollowsBelief SingleActive ConsumesUnlessLost TimelyTakeover
PROPERTIES TakesOver HandsBack
CHECK_DEADLOCK FALSE
