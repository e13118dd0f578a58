----------------------------- MODULE Transactions -----------------------------
(* A transaction's way into a batch: a user gives it to the host of a          *)
(* validator, which has its enclave check it and sends it on to the sequencer; *)
(* there it waits in the mempool until a batch selects it.  The selection      *)
(* reads the mempool, the batch is computed, and only then are the selected    *)
(* transactions removed; others arrive in the meantime.  The mempool is in     *)
(* memory.                                                                     *)
EXTENDS Integers, FiniteSets, Sequences, SequencesExt

CONSTANTS
    Txs,            \* records [id, sender, nonce, size, funded]
    MaxBatchSize,   \* what the batch size limiter lets into a batch
    MaxSends,       \* bound: how often a user sends a transaction
    Environments    \* see env

ASSUME TransactionsAssumption == MaxBatchSize \in Nat /\ MaxSends \in Nat

VARIABLES
    env,        \* txs: the transactions of this instance; losses, crashes, failures: faults left;
                \* reliable: there were none of the first two
    sends,      \* how often a transaction was sent and its hash returned to the user
    network,    \* on their way to the sequencer
    mempool,    \* the sequencer's mempool
    selected,   \* the transactions of the batch in production; NoBatch between batches
    stored,     \* whether that batch is stored
    nonces,     \* the nonces of the accounts in the state of the head batch
    executed    \* the transactions of the chain of batches, in order

vars == << env, sends, network, mempool, selected, stored, nonces, executed >>

NoBatch == << >>
Senders == { t.sender : t \in Txs }

Init ==
    /\ env \in Environments
    /\ sends = [ t \in env.txs |-> 0 ]
    /\ network = {}
    /\ mempool = {}
    /\ selected = NoBatch
    /\ stored = FALSE
    /\ nonces = [ s \in Senders |-> 0 ]
    /\ executed = << >>

Fault(kind) ==
    /\ env[kind] > 0
    /\ env' = [ env EXCEPT ![kind] = @ - 1 ]

-------------------------------------------------------------------------------
(* SubmitAndBroadcastTx: the validator's enclave checks the transaction and    *)
(* does nothing with it, SendTxToSequencer reaches the sequencer's host.       *)
Send(t) ==
    /\ sends[t] < MaxSends
    /\ sends' = [ sends EXCEPT ![t] = @ + 1 ]
    /\ network' = network \cup {t}
    /\ UNCHANGED << env, mempool, selected, stored, nonces, executed >>

\* The retries of sendBytesWithRetry end: the user has an error, and may send again.
SendFails(t) ==
    /\ sends[t] < MaxSends
    /\ Fault("failures")
    /\ UNCHANGED << sends, network, mempool, selected, stored, nonces, executed >>

\* Any nonce and any size is added.
AddMempoolTx(t) == mempool' = mempool \cup {t}

\* HandleTransaction, and SubmitTx on the sequencer.
HandleTransaction(t) ==
    /\ t \in network
    /\ network' = network \ {t}
    /\ AddMempoolTx(t)
    /\ UNCHANGED << env, sends, selected, stored, nonces, executed >>

\* The enclave does not answer the host: the transaction is gone, unknown to the user.
HandleTransactionFails(t) ==
    /\ t \in network
    /\ Fault("losses")
    /\ network' = network \ {t}
    /\ UNCHANGED << sends, mempool, selected, stored, nonces, executed >>

-------------------------------------------------------------------------------
\* FetchMempoolTxs in the order of a map, then sorted by nonce: equals in any order.
ByNonce == { order \in SetToSeqs(mempool) :
               \A i, j \in DOMAIN order : i < j => order[i].nonce <= order[j].nonce }

\* What is taken so far, the NonceTracker, and the room the limiter has left.
EmptySelection == [ taken |-> << >>, nonce |-> nonces, space |-> MaxBatchSize, full |-> FALSE ]

IsNextNonce(acc, t) == t.nonce = acc.nonce[t.sender]

\* AcceptTransaction, and what CurrentTxs makes of its answer.
AcceptTransaction(acc, t) ==
    IF t.size > acc.space THEN [ acc EXCEPT !.full = TRUE ]
    ELSE [ acc EXCEPT !.taken = Append(@, t), !.nonce[t.sender] = @ + 1, !.space = @ - t.size ]

\* Mutant: a nonce that is not the next of its sender ends the selection.
CurrentTxsUpToGap(order) ==
    FoldLeft(LAMBDA acc, t :
                IF acc.full \/ ~IsNextNonce(acc, t) THEN [ acc EXCEPT !.full = TRUE ] ELSE AcceptTransaction(acc, t),
             EmptySelection, order).taken

(* mempoolManager.CurrentTxs: a transaction whose nonce is not the next of its *)
(* sender is left for later; the first without space ends the selection.       *)
CurrentTxs(order) ==
    FoldLeft(LAMBDA acc, t :
                IF acc.full \/ ~IsNextNonce(acc, t) THEN acc ELSE AcceptTransaction(acc, t),
             EmptySelection, order).taken

\* createNewHeadBatch: the mempool is read; transactions arrive after that.
SelectTxs ==
    /\ selected = NoBatch
    /\ \E order \in ByNonce : selected' = CurrentTxs(order)
    /\ selected' # NoBatch
    /\ UNCHANGED << env, sends, network, mempool, stored, nonces, executed >>

(* ExecuteTransactions: the EVM refuses a transaction that is not funded, or   *)
(* whose nonce is not that of the state; the batch leaves it out.              *)
Execute(txs) ==
    FoldLeft(LAMBDA acc, t :
                IF t.funded /\ t.nonce = acc.nonce[t.sender]
                THEN [ acc EXCEPT !.done = Append(@, t), !.nonce[t.sender] = @ + 1 ]
                ELSE acc,
             [ done |-> << >>, nonce |-> nonces ], txs)

\* produceBatch: computed, committed and stored.
ProduceBatch ==
    /\ selected # NoBatch
    /\ ~stored
    /\ stored' = TRUE
    /\ nonces' = Execute(selected).nonce
    /\ executed' = executed \o Execute(selected).done
    /\ UNCHANGED << env, sends, network, mempool, selected >>

\* produceBatch fails: nothing is stored, and nothing is removed.
ProduceBatchFails ==
    /\ selected # NoBatch
    /\ ~stored
    /\ Fault("failures")
    /\ selected' = NoBatch
    /\ UNCHANGED << sends, network, mempool, stored, nonces, executed >>

\* Mutant: the mempool is emptied.
RemoveAllTxs ==
    /\ stored
    /\ mempool' = {}
    /\ selected' = NoBatch
    /\ stored' = FALSE
    /\ UNCHANGED << env, sends, network, nonces, executed >>

\* RemoveTxs: all that were selected, whether the batch has them or not.
RemoveTxs ==
    /\ stored
    /\ mempool' = mempool \ ToSet(selected)
    /\ selected' = NoBatch
    /\ stored' = FALSE
    /\ UNCHANGED << env, sends, network, nonces, executed >>

\* The enclave restarts: batches are stored, the mempool is not.
Crash ==
    /\ Fault("crashes")
    /\ mempool' = {}
    /\ selected' = NoBatch
    /\ stored' = FALSE
    /\ UNCHANGED << sends, network, nonces, executed >>

BatchStep == SelectTxs \/ ProduceBatch \/ RemoveTxs

Next ==
    \/ \E t \in env.txs : Send(t) \/ SendFails(t)
    \/ \E t \in network : HandleTransaction(t) \/ HandleTransactionFails(t)
    \/ BatchStep
    \/ ProduceBatchFails
    \/ Crash

Spec == Init /\ [][Next]_vars

(* The batch ticker goes on, what the network has arrives, and a user sends a  *)
(* transaction at least once.                                                  *)
Fairness ==
    /\ WF_vars(BatchStep)
    /\ WF_vars(\E t \in network : HandleTransaction(t))
    /\ WF_vars(\E t \in env.txs : sends[t] = 0 /\ Send(t))

FairSpec == Spec /\ Fairness

-------------------------------------------------------------------------------
\* The transactions of a sender up to t that are funded and exist at every nonce.
Executable(t) ==
    /\ t.funded
    /\ \A n \in 0..(t.nonce - 1) : \E u \in env.txs : u.sender = t.sender /\ u.nonce = n
    /\ \A u \in env.txs : u.sender = t.sender /\ u.nonce <= t.nonce => u.funded

Replaced(t) == \E u \in ToSet(executed) : u.sender = t.sender /\ u.nonce = t.nonce /\ u # t

(* A transaction whose hash the user has is not forgotten, though others       *)
(* arrive while a batch is in production and the batch may fail: without       *)
(* restarts and losses it is on its way, in the mempool or in the chain, or    *)
(* another with its nonce is, unless one of its sender's up to it is not       *)
(* funded.  Then RemoveTxs also drops the ones after that.                     *)
NoTransactionLost ==
    env.reliable =>
        \A t \in env.txs : sends[t] > 0 /\ Executable(t) =>
            t \in network \cup mempool \cup ToSet(executed) \/ Replaced(t)

(* No transaction starves: a batch that is full ends the selection, and the    *)
(* next starts again from the lowest nonces, so that every transaction which   *)
(* fits and follows funded ones of its sender is executed in the end, or       *)
(* another with its nonce.                                                     *)
EveryTransactionExecuted ==
    <>[](env.reliable => \A t \in env.txs : Executable(t) => t \in ToSet(executed) \/ Replaced(t))
===============================================================================
