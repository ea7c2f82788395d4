\* The instance of GuardedPayment.cfg, for decisions that ask for approval.
CONSTANTS
  m1 = m1
  p1 = p1
  c1 = c1
  c2 = c2
  c3 = c3
  Missions = {m1}
  Providers = {p1}
  Calls = {c1, c2, c3}
  Amounts = {1}
  Limits = {0, 3}
  MaxCrashes = 1
  Inputs <- MCInputs
  Benign <- MCBenign
  Answers <- MCAnswers
  LabCalls <- MCLabCalls
  LabTimes = {0, 59, 60}
SPECIFICATION MCSpec
CHECK_DEADLOCK FALSE
INVARIANTS
  UncertainIsApproved
