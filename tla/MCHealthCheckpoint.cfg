SPECIFICATION Spec
CONSTANTS
  Primaries = {p1, p2}
  Backups = {b1}
  Interval = 2
  PreemptionHoldTime = 5
  CallTime = 1
  ClockSkew = 1
  Faults = {"crash", "write", "read", "publish"}
SYMMETRY Interchangeable
INVARIANTS TypeOK DetectsSilence TrustsTheLiving
PROPERTIES NoFalseTakeover
CHECK_DEADLOCK FALSE
