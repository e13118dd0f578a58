\* One failing submission of a live batch.
CONSTANTS
  NoHash = NoHash
  L1Head = l1
  Main = main
  Cap = 1
  MaxSeqNo = 4
  MaxFailures = 1
  Environments <- LiveSubmissionFails
SPECIFICATION Spec
CHECK_DEADLOCK FALSE
INVARIANT LiveMeansFed
