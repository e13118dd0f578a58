CONSTANTS
    Assets = {t}
    RollupDelay = 1
    Environments <- MCEnvironments
SPECIFICATION Spec
INVARIANTS Conservation InboundExactlyOnce
CHECK_DEADLOCK FALSE
