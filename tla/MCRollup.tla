------------------------------- MODULE MCRollup -------------------------------
(* Rollup on small L1 trees. *)
EXTENDS Rollup, TLC

LabelSymmetry == Permutations(Labels)

\* L1 forks alone, on a chain of three; every fault together, on a chain of two.
MCEnvironments ==
    { [ faults |-> {}, crashes |-> 0, height |-> 3, blocks |-> 5, batches |-> 5, txs |-> Txs ],
      [ faults |-> Faults, crashes |-> 1, height |-> 2, blocks |-> 4, batches |-> 5, txs |-> {MsgBusTx} ] }

\* L1 forks, with no transaction but the one that deploys the message bus; a
\* crash, and forks of which none is remarkable.
MCClaims ==
    { [ faults |-> {}, crashes |-> 0, height |-> 3, blocks |-> 5, batches |-> 5, txs |-> {MsgBusTx} ],
      [ faults |-> {}, crashes |-> 1, height |-> 2, blocks |-> 4, batches |-> 4, txs |-> Txs ] }
===============================================================================
