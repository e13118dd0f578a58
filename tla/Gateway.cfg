CONSTANTS
  Users = {"u", "v"}
  DefaultUser = "defaultUser"
  Accounts = {"a", "b"}
  Requests = {1, 2}
  MaxLogs = 3
  Environments <- MCEnvironments
SPECIFICATION FairSpec
INVARIANTS RestartKeepsClients ProxyFindsClient
PROPERTIES SubscriptionEnds LogsReachUser
CHECK_DEADLOCK FALSE
