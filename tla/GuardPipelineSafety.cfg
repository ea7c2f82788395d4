\* Three calls for two providers of one mission, and one crash.
CONSTANTS
  m1 = m1
  p1 = p1
  p2 = p2
  c1 = c1
  c2 = c2
  c3 = c3
  Missions = {m1}
  Providers = {p1, p2}
  Calls = {c1, c2, c3}
  Amounts = {1}
  Limits = {1, 2}
  MaxCrashes = 1
SPECIFICATION Spec
SYMMETRY Symmetry
INVARIANTS
  TypeOK
  OneHolderPerQuote
  RowsMatchHolder
  AuditedBeforeRelease
  PendingIsOwned
