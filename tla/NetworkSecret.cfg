\* A genesis node, one that joins and one whose report does not verify.
CONSTANTS
  a = a
  x = x
  Nodes = {g, a, x}
  Genesis = g
  Verified = {g, a}
  Environments <- MCEnvironments
SPECIFICATION FairSpec
PROPERTIES RefinesMembership EveryoneJoins
CHECK_DEADLOCK FALSE
