SPECIFICATION FairSpec
CONSTANTS
  Clients = {c1, c2}
  NoClient = NoClient
  MaxEvents = 2
  MaxBatch = 2
  Faults = {"crash", "steal", "receive", "primary", "secondary", "checkpoint"}
INVARIANTS TypeOK NothingLost NoOvertaking
PROPERTIES Handled ImplementsPartitionLog
CHECK_DEADLOCK FALSE
