SPECIFICATION FairSpec
CONSTANTS
  Writers = {w1, w2, w3}
  Main = w1
  NoIngestor = NoIngestor
  Attempts = 2
  CreateTables = TRUE
  Faults = {"mgmt", "create", "ingest"}
INVARIANTS TypeOK PushOnlyIntoTable RaceNeedsFailure
PROPERTIES ImplementsAdxWrite WritesReturn
CHECK_DEADLOCK FALSE
