\* Four rows of two missions, two broken connections; polls that are fair.
CONSTANTS
  m1 = m1
  m2 = m2
  Missions = {m1, m2}
  Watched = m1
  HeartbeatTicks = 2
  MaxRows = 4
  MaxBreaks = 2
  MaxWire = 4
SPECIFICATION FairSpec
INVARIANTS
  TypeOK
  NothingSkipped
  EachRowOnceInOrder
PROPERTIES
  EveryRowArrives
  LoneRowIsShown
