------------------------- MODULE MCLogSubscriptions -------------------------
EXTENDS LogSubscriptions

\* Two subscriptions of two accounts, the second for one contract only.
MCIds == {1, 2}
MCAccount == <<"a", "b">>
MCContracts == << {}, {"c"} >>

\* A log of nobody's, one that names b's address before and one after b's
\* first transaction, one of another contract.
MCBatchLogs ==
  << << [address |-> "c", topics |-> {"b"}] >>,
     << [address |-> "c", topics |-> {"b"}], [address |-> "d", topics |-> {}] >>,
     << [address |-> "c", topics |-> {}] >> >>
MCFirstTx == [a |-> 1, b |-> 2]

Environment(executors, ids, batches, rolledUp, capacity) ==
  [executors |-> executors, ids |-> ids, batches |-> batches, rolledUp |-> rolledUp,
   capacity |-> capacity, breaks |-> 0, restarts |-> 0, openFails |-> 0, idFails |-> 0,
   unsubscribeFails |-> 0]

MCEnvironments ==
  { [Environment({1}, {1, 2}, 3, {}, 1) EXCEPT !.unsubscribeFails = 1],
    [Environment({1}, {2}, 3, {2}, 2) EXCEPT !.unsubscribeFails = 1],
    [Environment({1}, {1, 2}, 2, {}, 4) EXCEPT !.breaks = 1],
    [Environment({1}, {2}, 3, {}, 6) EXCEPT
       !.breaks = 1, !.restarts = 1, !.openFails = 1, !.unsubscribeFails = 1],
    [Environment({1}, {1, 2}, 2, {}, 1) EXCEPT !.idFails = 1],
    Environment({1, 2}, {2}, 3, {3}, 1) }
=============================================================================
