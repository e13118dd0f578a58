CONSTANTS
  Ids <- MCIds
  Account <- MCAccount
  Contracts <- MCContracts
  BatchLogs <- MCBatchLogs
  FirstTx <- MCFirstTx
  Executors = {1, 2}
  RecvCapacity = 1
  Environments <- MCEnvironments
SPECIFICATION FairSpec
INVARIANTS LogsComplete SendsToOpenChannels
PROPERTIES UpdatesReachHost UnsubscribeCompletes
CHECK_DEADLOCK FALSE
