CONSTANTS
    Labels = {a, b}
    MaxHeight = 3
    MaxBlocks = 5
    MaxSeqNo = 5
    Txs = {m, t}
    MsgBusTx = m
    RollupDelay = 2
    Environments <- MCEnvironments
SPECIFICATION Spec
SYMMETRY LabelSymmetry
INVARIANTS
    BatchesFormTree
    ChecksPass
    OneCanonicalPerHeight
    SoftFinality
    ExecutedOnce
    RecreatesBatches
    RollupPossible
CHECK_DEADLOCK FALSE
