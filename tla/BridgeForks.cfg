CONSTANTS
    Assets = {t}
    RollupDelay = 1
    Environments <- MCForkEnvironments
SPECIFICATION Spec
INVARIANT MessagesOfCanonicalBatches
CHECK_DEADLOCK FALSE
