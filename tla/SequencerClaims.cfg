CONSTANTS
    Labels = {a, b}
    MaxHeight = 3
    MaxBlocks = 5
    MaxSeqNo = 5
    Txs = {m, t}
    MsgBusTx = m
    RollupDelay = 2
    Environments <- MCClaims
SPECIFICATION Spec
SYMMETRY LabelSymmetry
INVARIANTS
    SoftFinalityGuarantee
    RecreatesAfterLiveBatches
CHECK_DEADLOCK FALSE
