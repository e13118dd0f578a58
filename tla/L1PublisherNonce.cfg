\* One publication at a time, a receipt that may come late.
CONSTANTS
  Calls = {p1, p2}
  Concurrency = 1
  MaxAttempts = 2
  Environments <- LateReceipts
SPECIFICATION Spec
CHECK_DEADLOCK FALSE
INVARIANT NonceAccurate
