SPECIFICATION FairSpec
CONSTANTS
  Rows = {r1}
  Senders = {s1, s2}
  None = None
  MaxAttempts = 2
  MaxFaults = 2
INVARIANTS TypeOK CopiesBounded
PROPERTIES SettledIsStable EventuallySettled ImplementsDelivery
CHECK_DEADLOCK FALSE
