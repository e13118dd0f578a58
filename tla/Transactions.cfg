CONSTANTS
    Txs <- MCTxs
    MaxBatchSize = 3
    MaxSends = 1
    Environments <- MCEnvironments
SPECIFICATION FairSpec
INVARIANT NoTransactionLost
PROPERTY EveryTransactionExecuted
CHECK_DEADLOCK FALSE
