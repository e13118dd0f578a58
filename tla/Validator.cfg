CONSTANTS
    left = left
    right = right
    t = t
    Labels = {left, right}
    MaxHeight = 2
    MaxBlocks = 4
    MaxSeqNo = 3
    Txs = {t}
    Ledgers <- MCLedgers
    Calls = {c1, c2}
    Environments <- MCEnvironments
SPECIFICATION Spec
SYMMETRY CallSymmetry
INVARIANTS
    NothingExecutableLeft
    ExecutedOnParentState
    ExecutedInOrder
    FailsOnlyOnLostMessages
CHECK_DEADLOCK FALSE
