\* Every input that differs from an agreeing payment in one part, or in two that
\* one layer reads together, and the scenarios of the attack lab.  A call that
\* ended stays ended, and so does a lab run, hence no deadlock check.
CONSTANTS
  m1 = m1
  p1 = p1
  c1 = c1
  c2 = c2
  c3 = c3
  Missions = {m1}
  Providers = {p1}
  Calls = {c1, c2, c3}
  Amounts = {1}
  Limits = {0, 3}
  MaxCrashes = 1
  Inputs <- MCInputs
  Benign <- MCBenign
  Answers <- MCAnswers
  LabCalls <- MCLabCalls
  LabTimes = {0, 59, 60}
SPECIFICATION MCSpec
CHECK_DEADLOCK FALSE
INVARIANTS
  PaidIsBound
  PaidIsNeverReleased
  AllowIsDelivered
  LiveLabelIsLive
  BenignIsNotRefused
  EveryAttackIsBlocked
  OneRunIsPaid
