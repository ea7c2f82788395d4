\* One mission and two resources, two requests in progress, one crash.
CONSTANTS
  m1 = m1
  p1 = p1
  s1 = s1
  s2 = s2
  Missions = {m1}
  Providers = {p1}
  Slots = {s1, s2}
  Resources = {1, 2}
  Default = 1
  Budgets = {0, 1}
  Price = 1
  MaxTime = 3
  MaxCrashes = 1
  MaxEvents = 1
SPECIFICATION ExportSpec
SYMMETRY Symmetry
INVARIANTS
  TypeOK
  LatestRequestWins
  ShownReceiptIsCurrent
  LastDecisionIsShown
  MixedExportIsExplained
PROPERTIES
  ContextIsFinal
  ImplementsBudgetLock
