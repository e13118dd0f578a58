CONSTANTS
    MaxRollupSize = 3
    RollupDelay = 1
    MaxL1 = 3
    MaxGenesisRollups = 1
    Environments <- MCEnvironments
SPECIFICATION FairSpec
INVARIANT NoBatchMissing
PROPERTY EveryBatchRolledUp
CHECK_DEADLOCK FALSE
