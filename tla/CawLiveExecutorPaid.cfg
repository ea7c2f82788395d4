\* One payment is enough.
CONSTANTS
  r1 = r1
  q1 = q1
  Runs = {r1}
  Requests = {q1}
  MaxPolls = 1
  MaxRestarts = 0
SPECIFICATION Spec
CHECK_DEADLOCK FALSE
INVARIANTS
  VoidWasNotPaid
