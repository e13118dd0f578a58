------------------------------- MODULE MCBridge -------------------------------
(* Small instances of Bridge: one asset that has a wrapped token from the      *)
(* start, or not.                                                              *)
EXTENDS Bridge

MCEnvironments ==
    { [ listed |-> Assets, l1 |-> 5, batches |-> 5, reorgs |-> 0 ],
      [ listed |-> Assets, l1 |-> 4, batches |-> 6, reorgs |-> 1 ],
      [ listed |-> {}, l1 |-> 4, batches |-> 6, reorgs |-> 0 ] }

\* Room for a deposit and its withdrawal, abandoned and computed again.
MCForkEnvironments == { [ listed |-> Assets, l1 |-> 3, batches |-> 8, reorgs |-> 1 ] }
===============================================================================
