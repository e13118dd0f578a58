--------------------------- MODULE RollupPublication ---------------------------
(* Rollups on their way to L1: the guardian's periodic loop asks the           *)
(* management contract for the last batch it holds, has the enclave roll up    *)
(* the batches after it, and publishes the result.  The question, the rollup   *)
(* and its transaction are steps apart; the L1 reorganises between them, and   *)
(* the sequencer duplicates the batches that were on the abandoned blocks.     *)
(* The wallet's transactions are mined in the order of their nonces.           *)
EXTENDS Integers, FiniteSets, Sequences, FiniteSetsExt

CONSTANTS
    MaxRollupSize,      \* what the rollup limiter lets into a rollup
    RollupDelay,        \* number of L1 blocks to exclude
    MaxL1,              \* bound: L1 blocks without a transaction end here
    MaxGenesisRollups,  \* bound: rollups before a second batch is old enough
    Environments        \* what the instances may meet, see env

L2GenesisSeqNo == 1

VARIABLES
    env,        \* messages, losses: whether batches have messages and L1 loses
                \* transactions; sizes: of a batch; batches: bound on their number;
                \* reorgs, timeouts, failures: faults left; met: history, those met
    l1,         \* the canonical L1 blocks, each NoTx or a rollup transaction
    pool,       \* the transactions broadcast and not in the canonical chain
    batches,    \* the sequencer's batches, by sequence number
    pc,         \* where the guardian is in the loop
    last,       \* the sequence number it read
    rollup,     \* the rollup it publishes, as the range of its batches
    nonce,      \* the wallet's nonce
    attempt     \* the transactions sent for this rollup; a receipt is awaited for the last

vars == << env, l1, pool, batches, pc, last, rollup, nonce, attempt >>

NoMessage == 0
NoRollup == [ first |-> 0, last |-> 0 ]
NoTx == [ nonce |-> -1, rollup |-> NoRollup, attempt |-> 0, ok |-> FALSE ]

(* A batch fits in a rollup together with the genesis batch, which is rolled   *)
(* up again until there is a second one.                                       *)
ASSUME RollupPublicationAssumption ==
    /\ RollupDelay \in Nat
    /\ Environments \subseteq [ messages : BOOLEAN, losses : BOOLEAN, sizes : SUBSET Nat, batches : Nat,
                               reorgs : Nat, timeouts : Nat, failures : Nat, met : {{}} ]
    /\ \A e \in Environments : e.sizes \subseteq 1..(MaxRollupSize - 1)

Init ==
    /\ env \in Environments
    /\ l1 = << >>
    /\ pool = {}
    /\ batches = << [ l1 |-> 0, message |-> NoMessage, size |-> 1, canonical |-> TRUE ] >>
    /\ pc = "tick"
    /\ last = 0
    /\ rollup = NoRollup
    /\ nonce = 0
    /\ attempt = 0

Fault(kind) ==
    /\ env[kind] > 0
    /\ env' = [ env EXCEPT ![kind] = @ - 1, !.met = @ \cup {kind} ]

-------------------------------------------------------------------------------
\* The number of the wallet's transactions in the chain: the nonce that is next.
NextNonce == Cardinality({ i \in DOMAIN l1 : l1[i] # NoTx })

\* The rollups of the transactions that succeeded.
OnL1 == { tx.rollup : tx \in { l1[i] : i \in { j \in DOMAIN l1 : l1[j].ok } } }

Covered(rollups) == UNION { r.first..r.last : r \in rollups }

(* AddRollup does not revert: storeCrossChainMessage takes each message once,  *)
(* whether the first was in an earlier rollup or in this one.                  *)
AddRollupSucceeds(r) ==
    \A n \in r.first..r.last : batches[n].message # NoMessage =>
        /\ \A k \in r.first..r.last : k # n => batches[k].message # batches[n].message
        /\ \A k \in Covered(OnL1) : batches[k].message # batches[n].message

\* lastBatchSeqNo: AppendRollup keeps the greatest, from 0.
LastBatchSeqNo == Max({0} \cup { r.last : r \in OnL1 })

(* A block.  The wallet's transactions are mined in the order of their nonces, *)
(* one of several with the same nonce.                                         *)
MineBlock ==
    /\ \/ /\ Len(l1) < MaxL1
          /\ l1' = Append(l1, NoTx)
          /\ UNCHANGED pool
       \/ \E tx \in pool :
            /\ tx.nonce = NextNonce
            /\ l1' = Append(l1, [ tx EXCEPT !.ok = AddRollupSucceeds(tx.rollup) ])
            /\ pool' = { p \in pool : p.nonce # tx.nonce }
    /\ UNCHANGED << env, batches, pc, last, rollup, nonce, attempt >>

(* OnL1Fork's duplicates of the batches on abandoned blocks: the transactions  *)
(* are the same, so the messages are; the L1 proof is the parent of the first  *)
(* of the new blocks the enclave is given.                                     *)
Duplicates(orphans, l1Proof) ==
    [ i \in 1..Cardinality(orphans) |->
        LET n == CHOOSE k \in orphans : Cardinality({ j \in orphans : j < k }) = i - 1
        IN  [ batches[n] EXCEPT !.l1 = l1Proof ] ]

(* The last k blocks are replaced by k + 1 empty ones; their transactions wait *)
(* to be mined again, or L1 loses them.                                        *)
Reorg(k, at) ==
    LET kept    == Len(l1) - k
        orphans == { n \in DOMAIN batches : batches[n].canonical /\ batches[n].l1 > kept }
        dropped == { [ l1[i] EXCEPT !.ok = FALSE ] : i \in (kept + 1)..Len(l1) } \ {NoTx}
    IN  /\ kept >= 0
        /\ Len(l1) < MaxL1
        /\ Len(batches) + Cardinality(orphans) <= env.batches
        /\ Fault("reorgs")
        /\ l1' = SubSeq(l1, 1, kept) \o [ i \in 1..(k + 1) |-> NoTx ]
        /\ \/ pool' = pool \cup dropped
           \/ env.losses /\ dropped # {} /\ UNCHANGED pool
        /\ batches' = [ n \in DOMAIN batches |-> [ batches[n] EXCEPT !.canonical = @ /\ n \notin orphans ] ]
                      \o Duplicates(orphans, kept + at)
        /\ UNCHANGED << pc, last, rollup, nonce, attempt >>

\* A batch on the current L1 head.
CreateBatch(size, message) ==
    /\ Len(batches) < env.batches
    /\ size \in env.sizes
    /\ message # NoMessage => env.messages
    /\ batches' = Append(batches, [ l1 |-> Len(l1), message |-> message, size |-> size, canonical |-> TRUE ])
    /\ UNCHANGED << env, l1, pool, pc, last, rollup, nonce, attempt >>

-------------------------------------------------------------------------------
\* Mutant: the last batch on L1 is rolled up again.
FromBatchRepeats == IF last > L2GenesisSeqNo THEN last ELSE L2GenesisSeqNo

\* fromBatch, and then the RPC server's: no rollup starts before the genesis batch.
FromBatch ==
    LET fromBatch == IF last > L2GenesisSeqNo THEN last + 1 ELSE last
    IN  IF fromBatch > L2GenesisSeqNo THEN fromBatch ELSE L2GenesisSeqNo

\* The limiter has accepted every batch up to n.
AcceptBatches(from, n) == MapThenSumSet(LAMBDA k : batches[k].size, from..n) <= MaxRollupSize

\* batchRegistry.BatchesAfter takes the batches up to n: old enough, and they fit.
Accepted(from, n) ==
    /\ \A k \in from..n : batches[k].l1 <= Len(l1) - RollupDelay
    /\ AcceptBatches(from, n)

\* Mutant: the batches after the given one.
RollupsAfterFrom(from) ==
    { [ first |-> from + 1, last |-> n ] : n \in { k \in (from + 1)..Len(batches) : Accepted(from + 1, k) } }

\* What BatchesAfter's loop may have collected on its way, batch after batch.
RollupsFrom(from) ==
    { [ first |-> from, last |-> n ] : n \in { k \in from..Len(batches) : Accepted(from, k) } }

(* periodicRollupProduction: an error of FetchLatestSeqNo is a tick without    *)
(* effect.  As long as it is alone, every tick publishes the genesis batch.    *)
FetchLatestSeqNo ==
    /\ pc = "tick"
    /\ \/ nonce < MaxGenesisRollups
       \/ \E r \in RollupsFrom(L2GenesisSeqNo) : r.last > L2GenesisSeqNo
    /\ last' = LastBatchSeqNo
    /\ pc' = "create"
    /\ UNCHANGED << env, l1, pool, batches, rollup, nonce, attempt >>

(* CreateRollup: the loop ends at the first batch that is too recent or does   *)
(* not fit.  There is an error without batches, and when L1 is not yet as high *)
(* as the delay.                                                               *)
CreateRollup ==
    LET rollups == RollupsFrom(FromBatch)
    IN  /\ pc = "create"
        /\ IF rollups = {} \/ Len(l1) < RollupDelay
           THEN pc' = "tick" /\ UNCHANGED rollup
           ELSE /\ pc' = "publish"
                /\ rollup' = CHOOSE r \in rollups : \A s \in rollups : s.last <= r.last
        /\ UNCHANGED << env, l1, pool, batches, last, nonce, attempt >>

-------------------------------------------------------------------------------
\* publishTransaction fails: the wallet gets its nonce back, the loop goes on.
Abandon ==
    /\ pc' = "tick"
    /\ rollup' = NoRollup
    /\ attempt' = 0
    /\ UNCHANGED << l1, pool, batches, last, nonce >>

Sendable == AddRollupSucceeds(rollup) /\ nonce >= NextNonce

(* The gas estimate fails when the contract would revert, the broadcast when   *)
(* the nonce is used.                                                          *)
Rejected ==
    /\ pc = "publish"
    /\ ~Sendable
    /\ UNCHANGED env
    /\ Abandon

\* The L1 node does not answer.
Unavailable ==
    /\ pc = "publish"
    /\ Fault("failures")
    /\ Abandon

Send ==
    /\ pc = "publish"
    /\ Sendable
    /\ attempt' = attempt + 1
    /\ pool' = pool \cup { [ nonce |-> nonce, rollup |-> rollup, attempt |-> attempt', ok |-> FALSE ] }
    /\ pc' = "wait"
    /\ UNCHANGED << env, l1, batches, last, rollup, nonce >>

\* A receipt of the last attempt, successful or not: the nonce is used.
ReceiptFound ==
    /\ pc = "wait"
    /\ \E i \in DOMAIN l1 : l1[i].nonce = nonce /\ l1[i].attempt = attempt /\ l1[i].rollup = rollup
    /\ nonce' = nonce + 1
    /\ pc' = "tick"
    /\ rollup' = NoRollup
    /\ attempt' = 0
    /\ UNCHANGED << env, l1, pool, batches, last >>

\* No receipt in maxWaitForL1Receipt: another attempt with the same nonce.
ReceiptTimesOut ==
    /\ pc = "wait"
    /\ Fault("timeouts")
    /\ pc' = "publish"
    /\ UNCHANGED << l1, pool, batches, last, rollup, nonce, attempt >>

GuardianStep == FetchLatestSeqNo \/ CreateRollup \/ Rejected \/ Send \/ ReceiptFound

Next ==
    \/ MineBlock
    \/ \E k \in 1..MaxL1 : \E at \in 0..k : Reorg(k, at)
    \/ \E size \in 1..MaxRollupSize : \E message \in {NoMessage, Len(batches) + 1} : CreateBatch(size, message)
    \/ GuardianStep
    \/ Unavailable
    \/ ReceiptTimesOut

Spec == Init /\ [][Next]_vars

\* The ticker goes on, and L1 mines what is broadcast.
Fairness ==
    /\ WF_vars(GuardianStep)
    /\ WF_vars(MineBlock)

FairSpec == Spec /\ Fairness

-------------------------------------------------------------------------------
\* A receipt has come late, and L1 has reorganised.
Late == "timeouts" \in env.met
Reorganised == "reorgs" \in env.met

(* What a node that starts from L1 relies on: up to lastBatchSeqNo no batch,   *)
(* and so no message, is missing from the rollups of the canonical chain,      *)
(* though the sequence number the guardian asked for is old by the time the    *)
(* rollup is mined, and though either transactions are resent because their    *)
(* receipts are late or L1 blocks are abandoned with the rollups they hold.    *)
(* It is not asked once both have happened: publishTransaction leaves a used   *)
(* nonce in the wallet when a receipt is late, and after a reorganisation a    *)
(* rollup with that nonce may take the place of one that was abandoned.        *)
NoBatchMissing == ~(Late /\ Reorganised) => 1..LastBatchSeqNo \subseteq Covered(OnL1)

\* A batch and its duplicate publish the same message: the contract takes one.
DuplicateMessages ==
    \E n, k \in DOMAIN batches : n # k /\ batches[n].message = batches[k].message /\ batches[n].message # NoMessage

(* periodicRollupProduction goes on after every error: when receipts come in   *)
(* time, transactions are not lost and no reorganisation has duplicated a      *)
(* batch with messages, every batch that is old enough is in a rollup in the   *)
(* end, also after a rollup reverted because L1 had put an abandoned one back. *)
EveryBatchRolledUp ==
    <>[](\/ env.losses \/ Late \/ DuplicateMessages
         \/ \A n \in DOMAIN batches : batches[n].l1 <= Len(l1) - RollupDelay => n \in Covered(OnL1))
===============================================================================
