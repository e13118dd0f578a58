---------------------------- MODULE MCTransactions ----------------------------
(* Small instances of Transactions: two accounts whose transactions do not all *)
(* fit in one batch, one of them replaced, one not funded; then a restart and  *)
(* a loss.                                                                     *)
EXTENDS Transactions

Tx(id, sender, nonce, size, funded) ==
    [ id |-> id, sender |-> sender, nonce |-> nonce, size |-> size, funded |-> funded ]

Alice == { Tx(1, "alice", 0, 1, TRUE), Tx(2, "alice", 1, 2, TRUE), Tx(3, "alice", 0, 2, TRUE) }
Bob == { Tx(4, "bob", 0, 2, TRUE), Tx(5, "bob", 1, 1, TRUE) }
Carol == { Tx(6, "carol", 0, 1, FALSE), Tx(7, "carol", 1, 1, TRUE) }

MCTxs == Alice \cup Bob \cup Carol

MCEnvironments ==
    { [ txs |-> Alice \cup Bob, losses |-> 0, crashes |-> 0, failures |-> 1, reliable |-> TRUE ],
      [ txs |-> Alice \cup Carol, losses |-> 0, crashes |-> 0, failures |-> 0, reliable |-> TRUE ],
      [ txs |-> Bob, losses |-> 1, crashes |-> 1, failures |-> 1, reliable |-> FALSE ] }
===============================================================================
