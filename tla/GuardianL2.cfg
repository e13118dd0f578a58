\* Batches that come late or are lost, failing calls, restarts.
CONSTANTS
  NoHash = NoHash
  L1Head = l1
  Main = main
  Cap = 1
  MaxSeqNo = 4
  MaxFailures = 1
  Environments <- MCEnvironments
SPECIFICATION FairSpec
CHECK_DEADLOCK FALSE
INVARIANTS TrackedBatchIsStored LiveMeansFedIfTimely
PROPERTY CatchesUp
