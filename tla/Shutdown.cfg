SPECIFICATION FairSpec
CONSTANTS
  Tasks = {"monitor", "cache", "publisher"}
  Role = "Secondary"
  Enabled = {"chaosPrimary"}
INVARIANTS TypeOK SendersHaveAReceiver
PROPERTIES StopsReturn
CHECK_DEADLOCK FALSE
