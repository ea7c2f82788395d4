\* Two rows are enough to lose both.
CONSTANTS
  m1 = m1
  Missions = {m1}
  Watched = m1
  HeartbeatTicks = 2
  MaxRows = 2
  MaxBreaks = 0
  MaxWire = 3
SPECIFICATION Spec
INVARIANTS
  AcknowledgedIsShown
