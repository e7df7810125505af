SPECIFICATION Spec
CONSTANTS
  Partitions = {p1, p2}
  k1 = k1
  k2 = k2
  Keys <- MCKeys
  Data = {d1}
  NoData = NoData
  Garbage = Garbage
  Logging = TRUE
  Batches <- MCBatches
SYMMETRY MCSymmetry
INVARIANTS TypeOK KnownIsTranslated UnknownIsNotSent CutNotHoled
CHECK_DEADLOCK FALSE
