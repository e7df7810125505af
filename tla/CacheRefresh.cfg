SPECIFICATION FairSpec
CONSTANTS
  Keys = {k1, k2}
  Data = {d1}
  NoData = NoData
  NoTable = NoTable
  Maps = {m1, m2, m3}
  NoMap = NoMap
  Readers = {r1, r2}
  Attempts = 2
  Faults = {"query", "row", "info"}
INVARIANTS TypeOK OneOwner BufferIsOneResult
PROPERTIES ImplementsAtomicCache Converges Stops
CHECK_DEADLOCK FALSE
