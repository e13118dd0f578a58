--------------------------- MODULE MCL1Publisher ---------------------------
\* Instances of L1Publisher for TLC.
EXTENDS L1Publisher

\* An L1 that answers, one that fails in every way, and a host that stops.
MCEnvironments ==
  {{"revert"}, {"prepare", "send", "timeout", "revert"}, {"timeout", "stop"}}

\* An L1 whose receipts are late.
LateReceipts == {{"timeout"}}
=============================================================================
