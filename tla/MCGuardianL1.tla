--------------------------- MODULE MCGuardianL1 ---------------------------
\* Instances of GuardianL1 for TLC.
EXTENDS GuardianL1

\* Receipts that cannot be fetched.
NoReceipts == {[faults |-> {"receipts"}, failures |-> 1, height |-> 2]}

\* Forks with blocks handled in time, and blocks handled late on one branch.
MCEnvironments ==
  {[faults |-> {"fork", "drop", "fetch", "rpc", "down"},
    failures |-> 1, height |-> 3],
   [faults |-> {"overlap", "drop", "fetch", "rpc", "down"},
    failures |-> 1, height |-> 2]}
    \cup NoReceipts
===========================================================================
