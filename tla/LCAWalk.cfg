CONSTANTS
    Labels = {a, b}
    MaxHeight = 3
    MaxBlocks = 5
    MaxSeqNo = 1
    Txs = {}
    Rows <- MCRows
SPECIFICATION L1Spec
SYMMETRY LabelSymmetry
INVARIANTS
    L1Inv
    CanonicalChain
    BatchFlagsAgree
    WalksMatchClosedForms
PROPERTY
    FlagsRefineView
CHECK_DEADLOCK FALSE
