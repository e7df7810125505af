SPECIFICATION FairSpec
CONSTANTS
  Partitions = {p1, p2}
  k1 = k1
  k2 = k2
  Keys = {k1}
  Data = {d1}
  NoData = NoData
  Garbage = Garbage
  Logging = TRUE
  Batches <- MCShortBatches
PROPERTIES BatchesEnd StopReturns
CHECK_DEADLOCK FALSE
