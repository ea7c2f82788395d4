\* Three escrows between two addresses, refunds to any depth that matters.
CONSTANTS
  h1 = h1
  h2 = h2
  h3 = h3
  a1 = a1
  a2 = a2
  Hashes = {h1, h2, h3}
  Addresses = {a1, a2}
  NoAddress = NoAddress
  Amounts = {0, 1, 2}
  MaxDepth = 3
SPECIFICATION Spec
SYMMETRY Symmetry
CHECK_DEADLOCK FALSE
INVARIANTS
  TypeOK
  Solvent
  PaidBackOnce
PROPERTIES
  DeliveredAndRefundedAreFinal
