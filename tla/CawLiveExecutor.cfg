\* Two payments with one or two request ids, one restart; runs that are fair.
CONSTANTS
  r1 = r1
  r2 = r2
  q1 = q1
  q2 = q2
  Runs = {r1, r2}
  Requests = {q1, q2}
  MaxPolls = 1
  MaxRestarts = 1
SPECIFICATION FairSpec
CHECK_DEADLOCK FALSE
INVARIANTS
  TypeOK
  RetryDoesNotResubmit
  PostedWasAccepted
  PaidAndReleasedIsExplained
PROPERTIES
  EveryRunEnds
