CONSTANTS
  Users = {"u", "v"}
  DefaultUser = "defaultUser"
  Accounts = {"a", "b"}
  Requests = {1, 2}
  MaxLogs = 3
  Environments <- MCClaims
SPECIFICATION FairSpec
INVARIANTS KeysSurviveRestart SubscribesAllAccounts
PROPERTY TerminatedWhenClosed
CHECK_DEADLOCK FALSE
