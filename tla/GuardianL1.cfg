\* Forks, lost headers, failing calls; blocks handled in time or not.
CONSTANTS
  Labels = {a, b}
  MaxHeight = 3
  NoHash = NoHash
  Main = Main
  L1StartHash = NoHash
  Environments <- MCEnvironments
SPECIFICATION FairSpec
PROPERTIES HeadKept EventuallyInSync
