SPECIFICATION FairSpec
CONSTANTS
  Callers = {c1, c2}
  Gatherer = gatherer
  Health = health
  Monitor = monitor
INVARIANTS TypeOK NoCircularWait
PROPERTIES CallsReturn
