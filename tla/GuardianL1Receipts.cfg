\* One failure to fetch receipts.
CONSTANTS
  Labels = {a}
  MaxHeight = 3
  NoHash = NoHash
  Main = Main
  L1StartHash = NoHash
  Environments <- NoReceipts
SPECIFICATION FairSpec
PROPERTY CaughtUp
