\* Overlapping publications, with no fault and with every fault.
CONSTANTS
  Calls = {p1, p2, p3}
  Concurrency = 3
  MaxAttempts = 2
  Environments <- MCEnvironments
SPECIFICATION FairSpec
CHECK_DEADLOCK FALSE
INVARIANTS MinedOnce SuccessIsMined
PROPERTY EveryPublicationMined
