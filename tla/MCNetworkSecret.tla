-------------------------- MODULE MCNetworkSecret --------------------------
\* Instances of NetworkSecret for TLC.
EXTENDS NetworkSecret

CONSTANTS a, x  \* a node that joins, and one whose report does not verify

MCEnvironments ==
  {[nodes |-> {Genesis, a}, faults |-> {"lost", "enclave"}, failures |-> 1, timeouts |-> 0, reorgs |-> 1],
   [nodes |-> {Genesis, a}, faults |-> {}, failures |-> 0, timeouts |-> 1, reorgs |-> 1],
   [nodes |-> {Genesis, a}, faults |-> {"init", "refresh", "overlap"}, failures |-> 1,
    timeouts |-> 0, reorgs |-> 0],
   [nodes |-> {Genesis, a}, faults |-> {}, failures |-> 0, timeouts |-> 0, reorgs |-> 0],
   [nodes |-> {Genesis, x}, faults |-> {}, failures |-> 0, timeouts |-> 0, reorgs |-> 0]}
============================================================================
