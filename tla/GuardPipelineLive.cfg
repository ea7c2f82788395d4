\* Two calls with different amounts and limits for one or two quotes, a budget
\* that callers change, and one crash.  Liveness, hence without symmetry.
CONSTANTS
  m1 = m1
  p1 = p1
  p2 = p2
  c1 = c1
  c2 = c2
  Missions = {m1}
  Providers = {p1, p2}
  Calls = {c1, c2}
  Amounts = {1, 2}
  Limits = {1, 2}
  MaxCrashes = 1
SPECIFICATION FairSpec
PROPERTIES
  ExposureWithinLimit
  ImplementsBudgetLock
  BudgetSettles
