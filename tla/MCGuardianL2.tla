--------------------------- MODULE MCGuardianL2 ---------------------------
\* Instances of GuardianL2 for TLC.
EXTENDS GuardianL2

\* A node that joins late and catches up in several responses; live batches
\* that are handled side by side, and whose submission may fail; messages
\* that get lost, calls of the main loop that fail, and a host that restarts.
MCEnvironments ==
  {[faults |-> {"late", "lose", "rpc"}, batches |-> 4],
   [faults |-> {"overlap", "liveRpc"}, batches |-> 2],
   [faults |-> {"lose", "loseLive", "rpc", "restart"}, batches |-> 3]}

\* The submission of a live batch fails.
LiveSubmissionFails == {[faults |-> {"liveRpc"}, batches |-> 3]}
===========================================================================
