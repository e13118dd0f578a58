-------------------------- MODULE MCRollupPublication --------------------------
(* Small instances of RollupPublication: reorganisations that put the          *)
(* transactions of batches with messages back, batches that do not all fit,    *)
(* lost transactions, late receipts, a late receipt and a reorganisation.      *)
EXTENDS RollupPublication

MCEnvironments ==
    { [ messages |-> TRUE, losses |-> FALSE, sizes |-> {1}, batches |-> 4,
        reorgs |-> 2, timeouts |-> 0, failures |-> 0, met |-> {} ],
      [ messages |-> FALSE, losses |-> FALSE, sizes |-> {1, 2}, batches |-> 4,
        reorgs |-> 0, timeouts |-> 0, failures |-> 1, met |-> {} ],
      [ messages |-> FALSE, losses |-> TRUE, sizes |-> {1}, batches |-> 3,
        reorgs |-> 1, timeouts |-> 0, failures |-> 0, met |-> {} ],
      [ messages |-> TRUE, losses |-> FALSE, sizes |-> {1}, batches |-> 4,
        reorgs |-> 0, timeouts |-> 2, failures |-> 1, met |-> {} ],
      [ messages |-> FALSE, losses |-> FALSE, sizes |-> {1}, batches |-> 3,
        reorgs |-> 1, timeouts |-> 1, failures |-> 0, met |-> {} ] }
===============================================================================
