\* Two resource paths and two challenges that clients may hold; a challenge
\* lives for one tick, the clock runs for two; a client may say of it what
\* MCDescriptions lists.
CONSTANTS
  Paths = {"/paid/other"}
  Ttl = 1
  Descriptions <- MCDescriptions
  MaxTime = 2
  MaxHeld = 2
SPECIFICATION Spec
INVARIANTS DeliveryIsBound RefusedForCause
