---------------------------- MODULE L1Publisher ----------------------------
(***************************************************************************)
(* host/l1/publisher.go and wallet/wallet.go: the transactions the host    *)
(* publishes on L1 (rollups, secret requests and responses), each one a    *)
(* call of publishTransaction on a goroutine of its own, over the nonce of *)
(* the one wallet they share.  The L1 node (external) keeps a pool of the  *)
(* transactions it accepted and mines the one with the account's next      *)
(* nonce.  A transaction is its call and the attempt it was signed at:     *)
(* every attempt has its own gas price, hence its own hash.                *)
(***************************************************************************)
EXTENDS Integers, Sequences, FiniteSets

CONSTANTS
  Calls,        \* the calls of publishTransaction
  Concurrency,  \* bound: calls in progress at a time
  MaxAttempts,  \* bound: times a call signs and sends its transaction
  Environments  \* what the L1 and the host may do: sets of faults

ASSUME PublisherAssumption ==
  /\ Concurrency \in Nat
  /\ MaxAttempts \in Nat
  /\ \A e \in Environments :
       e \subseteq {"prepare",  \* gas price or signature cannot be had
                   "send",     \* the connection fails while sending
                   "timeout",  \* a receipt is late
                   "revert",   \* a transaction is mined and reverts
                   "stop"}     \* the host shuts down

VARIABLES
  wallet,    \* inMemoryWallet.nonce
  pc,        \* where each call is, or how it returned
  nonce,     \* the nonce a call took
  attempt,   \* the attempts a call has sent
  pool,      \* L1: transactions accepted, not mined
  mined,     \* L1: the account's mined transactions, nonce 0 first
  stopping,  \* StopControl.IsStopping
  faults     \* which of Environments this is

vars == <<wallet, pc, nonce, attempt, pool, mined, stopping, faults>>

Running == {"check", "prepare", "send", "wait"}

Returned == {"ok", "unsuccessful", "aborted", "failed", "stopped"}

InProgress == {c \in Calls : pc[c] \in Running}

Tx(c) == [call |-> c, attempt |-> attempt[c], nonce |-> nonce[c]]

TypeOK ==
  /\ wallet \in Nat
  /\ pc \in [Calls -> {"idle"} \cup Running \cup Returned]
  /\ nonce \in [Calls -> Nat]
  /\ attempt \in [Calls -> 0..MaxAttempts]
  /\ pool \subseteq [call : Calls, attempt : 1..MaxAttempts, nonce : Nat]
  /\ mined \in Seq([call : Calls, attempt : 1..MaxAttempts, ok : BOOLEAN])
  /\ stopping \in BOOLEAN
  /\ faults \in Environments

Init ==
  /\ wallet = 0          \* host_container.go sets it to the account's nonce
  /\ pc = [c \in Calls |-> "idle"]
  /\ nonce = [c \in Calls |-> 0]
  /\ attempt = [c \in Calls |-> 0]
  /\ pool = {}
  /\ mined = <<>>
  /\ stopping = FALSE
  /\ faults \in Environments

(***************************************************************************)
(* The call.                                                               *)
(***************************************************************************)
\* GetNonceAndIncrement is one atomic step, before anything is sent.
PublishTransaction(c) ==
  /\ pc[c] = "idle"
  /\ Cardinality(InProgress) < Concurrency
  /\ pc' = [pc EXCEPT ![c] = "check"]
  /\ nonce' = [nonce EXCEPT ![c] = wallet]
  /\ wallet' = wallet + 1
  /\ UNCHANGED <<attempt, pool, mined, stopping, faults>>

\* As CheckNonce, aborting unless the call is the last to have taken a nonce.
CheckNonceIsLast(c) ==
  /\ pc[c] = "check"
  /\ pc' = [pc EXCEPT ![c] = IF stopping THEN "stopped"
                             ELSE IF nonce[c] + 1 # wallet THEN "aborted"
                             ELSE "prepare"]
  /\ UNCHANGED <<wallet, nonce, attempt, pool, mined, stopping, faults>>

\* The head of the loop: leave when the host is stopping, abort when the
\* wallet's nonce was set back below the one this call holds.
CheckNonce(c) ==
  /\ pc[c] = "check"
  /\ pc' = [pc EXCEPT ![c] = IF stopping THEN "stopped"
                             ELSE IF nonce[c] > wallet THEN "aborted"
                             ELSE "prepare"]
  /\ UNCHANGED <<wallet, nonce, attempt, pool, mined, stopping, faults>>

\* Gas estimate, gas price and signature, none of which looks at the nonce.
PrepareTransaction(c) ==
  /\ pc[c] = "prepare"
  /\ attempt[c] < MaxAttempts
  /\ pc' = [pc EXCEPT ![c] = "send"]
  /\ attempt' = [attempt EXCEPT ![c] = @ + 1]
  /\ UNCHANGED <<wallet, nonce, pool, mined, stopping, faults>>

\* The error returns: the wallet's nonce is set to this call's, whatever it
\* is by now.
Fail(c) ==
  /\ pc' = [pc EXCEPT ![c] = "failed"]
  /\ wallet' = nonce[c]

PrepareFails(c) ==
  /\ "prepare" \in faults
  /\ pc[c] = "prepare"
  /\ Fail(c)
  /\ UNCHANGED <<nonce, attempt, pool, mined, stopping, faults>>

\* As SendTransaction, treating the broadcast as the publication.
SendTransactionAndReturn(c) ==
  /\ pc[c] = "send"
  /\ nonce[c] >= Len(mined)
  /\ pool' = pool \cup {Tx(c)}
  /\ pc' = [pc EXCEPT ![c] = "ok"]
  /\ UNCHANGED <<wallet, nonce, attempt, mined, stopping, faults>>

SendTransaction(c) ==
  /\ pc[c] = "send"
  /\ nonce[c] >= Len(mined)
  /\ pool' = pool \cup {Tx(c)}
  /\ pc' = [pc EXCEPT ![c] = "wait"]
  /\ UNCHANGED <<wallet, nonce, attempt, mined, stopping, faults>>

\* The node rejects a nonce that is mined, and may reject one it has a
\* transaction for ("already known", "replacement transaction underpriced").
Rejected(c) ==
  /\ \/ nonce[c] < Len(mined)
     \/ \E t \in pool : t.nonce = nonce[c]
  /\ pool' = pool

\* The connection fails, before or after the node accepted the transaction.
Unreachable(c) ==
  /\ "send" \in faults
  /\ \/ pool' = pool
     \/ nonce[c] >= Len(mined) /\ pool' = pool \cup {Tx(c)}

SendFails(c) ==
  /\ pc[c] = "send"
  /\ Rejected(c) \/ Unreachable(c)
  /\ Fail(c)
  /\ UNCHANGED <<nonce, attempt, mined, stopping, faults>>

\* TransactionReceipt is asked for the hash of the last attempt only.
ReceiptFound(c) ==
  /\ pc[c] = "wait"
  /\ \E i \in 1..Len(mined) :
       /\ mined[i].call = c
       /\ mined[i].attempt = attempt[c]
       /\ pc' = [pc EXCEPT ![c] = IF mined[i].ok THEN "ok" ELSE "unsuccessful"]
  /\ UNCHANGED <<wallet, nonce, attempt, pool, mined, stopping, faults>>

\* As ReceiptTimeout, taking a fresh nonce for the next attempt.
ReceiptTimeoutFreshNonce(c) ==
  /\ "timeout" \in faults
  /\ pc[c] = "wait"
  /\ attempt[c] < MaxAttempts
  /\ \A i \in 1..Len(mined) :
       mined[i].call # c \/ mined[i].attempt # attempt[c]
  /\ pc' = [pc EXCEPT ![c] = "check"]
  /\ nonce' = [nonce EXCEPT ![c] = wallet]
  /\ wallet' = wallet + 1
  /\ UNCHANGED <<attempt, pool, mined, stopping, faults>>

\* maxWaitForL1Receipt has passed and the last poll found no receipt: the
\* loop goes round "on the same nonce, with updated gas price".
ReceiptTimeout(c) ==
  /\ "timeout" \in faults
  /\ pc[c] = "wait"
  /\ attempt[c] < MaxAttempts
  /\ \A i \in 1..Len(mined) :
       mined[i].call # c \/ mined[i].attempt # attempt[c]
  /\ pc' = [pc EXCEPT ![c] = "check"]
  /\ UNCHANGED <<wallet, nonce, attempt, pool, mined, stopping, faults>>

(***************************************************************************)
(* The L1 and the host's shutdown.                                         *)
(***************************************************************************)
\* Of the transactions with the account's next nonce one is mined; the
\* others can never be.
Mine ==
  \E t \in pool, ok \in BOOLEAN :
    /\ t.nonce = Len(mined)
    /\ ok \/ "revert" \in faults
    /\ mined' = Append(mined, [call |-> t.call, attempt |-> t.attempt, ok |-> ok])
    /\ pool' = {u \in pool : u.nonce # t.nonce}
    /\ UNCHANGED <<wallet, pc, nonce, attempt, stopping, faults>>

Stop ==
  /\ "stop" \in faults
  /\ ~stopping
  /\ stopping' = TRUE
  /\ UNCHANGED <<wallet, pc, nonce, attempt, pool, mined, faults>>

Step(c) ==
  \/ PublishTransaction(c)
  \/ CheckNonce(c)
  \/ PrepareTransaction(c)
  \/ PrepareFails(c)
  \/ SendTransaction(c)
  \/ SendFails(c)
  \/ ReceiptFound(c)
  \/ ReceiptTimeout(c)

Next ==
  \/ \E c \in Calls : Step(c)
  \/ Mine
  \/ Stop

Spec == Init /\ [][Next]_vars

\* A goroutine that can go on does, and the L1 mines what it can mine.
FairSpec ==
  /\ Spec
  /\ \A c \in Calls : WF_vars(Step(c))
  /\ WF_vars(Mine)

(***************************************************************************)
(* Properties.                                                             *)
(***************************************************************************)
\* A publication that is retried after a receipt timeout, or whose broadcast
\* failed after the node took it, is mined at most once: all its attempts
\* carry one nonce (publishTransaction, "try again on the same nonce").
MinedOnce ==
  \A i, j \in 1..Len(mined) : mined[i].call = mined[j].call => i = j

\* publishTransaction returns without an error, the host not stopping, only
\* when the transaction is in the L1 with a successful receipt: the rollup
\* loop and the secret exchange build on that.
SuccessIsMined ==
  \A c \in Calls : pc[c] = "ok" =>
    \E i \in 1..Len(mined) : mined[i].call = c /\ mined[i].ok

\* The L1 takes every transaction and shows its receipt in time.
L1Answers == faults \subseteq {"revert"}

\* "It is responsible for keeping the nonce accurate": when no publication is
\* in progress the wallet's nonce is the account's next one, so that the next
\* publication can be mined.
NonceAccurate ==
  InProgress = {} /\ ~stopping => wallet = Len(mined)

\* While the L1 answers, every publication is mined and returns with its
\* receipt, whatever other publications overlap it: none aborts another.
EveryPublicationMined ==
  L1Answers => <>(\A c \in Calls : pc[c] \in {"ok", "unsuccessful"})
=============================================================================
