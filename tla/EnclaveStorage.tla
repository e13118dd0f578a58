----------------------------- MODULE EnclaveStorage -----------------------------
(* The tables of the enclave's SQL database that L1 ingestion and batch        *)
(* processing share, and the storage operations on them.  Each operation is    *)
(* one database transaction.                                                   *)
(*                                                                             *)
(* A batch is named by its sequence number: StoreBatch refuses a second batch  *)
(* with a sequence number that is taken, so the number identifies the hash.    *)
EXTENDS L1Blocks

CONSTANTS
    Txs,        \* L2 transactions
    MaxSeqNo    \* bound on the sequence numbers handed out

ASSUME MaxSeqNoAssumption == MaxSeqNo \in Nat \ {0}

VARIABLES
    blocks,             \* table block: the L1 blocks stored
    canonicalBlocks,    \* ... the ones with is_canonical
    batch,              \* table batch: sequence number -> immutable columns
    canonicalBatches,   \* ... the sequence numbers with is_canonical
    executedBatches     \* ... the sequence numbers with is_executed

storageVars == << blocks, canonicalBlocks, batch, canonicalBatches, executedBatches >>

L2GenesisSeqNo == 1
L2GenesisHeight == 0
NoParent == 0

SeqNo == 1..MaxSeqNo

Batch == [ parent  : SeqNo \cup {NoParent},
           height  : Nat,
           l1Proof : L1Block,
           txs     : SUBSET Txs ]

Stored == DOMAIN batch

StorageTypeOK ==
    /\ blocks \subseteq L1Block
    /\ canonicalBlocks \subseteq blocks
    /\ Stored \subseteq SeqNo
    /\ batch \in [Stored -> Batch]
    /\ canonicalBatches \subseteq Stored
    /\ executedBatches \subseteq Stored

StorageInit ==
    /\ blocks = {}
    /\ canonicalBlocks = {}
    /\ batch = << >>
    /\ canonicalBatches = {}
    /\ executedBatches = {}

-------------------------------------------------------------------------------
\* Queries.

(* FetchHeadBlock: a canonical block of the greatest height.  The query does   *)
(* not order its rows, so any such block may be returned.                      *)
HeadBlocks ==
    { b \in canonicalBlocks : \A c \in canonicalBlocks : Height(c) <= Height(b) }

CanonicalExecuted == canonicalBatches \cap executedBatches

\* Mutant: the query has no condition on the height.
HeadBatchesOfAnyHeight == CanonicalExecuted

\* ReadCurrentHeadBatch: any canonical, executed batch of the greatest height.
HeadBatches ==
    { n \in CanonicalExecuted :
        \A m \in CanonicalExecuted : batch[m].height <= batch[n].height }

\* ReadCurrentSequencerNo, plus one: the number the next batch gets.
NextSeqNo(n) ==
    /\ \A m \in Stored : m < n
    /\ n = L2GenesisSeqNo \/ n - 1 \in Stored

\* ReadBatchesByBlock, for every block of a path.
BatchesByBlocks(path) == { n \in Stored : batch[n].l1Proof \in path }

\* ReadCanonicalBatchByHeight: the batches the query may return.
CanonicalAtHeight(h) == { n \in canonicalBatches : batch[n].height = h }

-------------------------------------------------------------------------------
\* Updates.

\* Mutant: the blocks of the old branch keep their flag.
FlagBlocksKeepingOld(flags, canonical, nonCanonical) == flags \cup (blocks \cap canonical)

\* The is_canonical flags after UpdateCanonicalBlocks(canonical, nonCanonical).
FlagBlocks(flags, canonical, nonCanonical) ==
    (flags \ nonCanonical) \cup (blocks \cap canonical)

\* Mutant: the batches of the old branch keep their flag.
FlagBatchesKeepingOld(flags, canonical, nonCanonical) == flags \cup BatchesByBlocks(canonical)

FlagBatches(flags, canonical, nonCanonical) ==
    (flags \ BatchesByBlocks(nonCanonical)) \cup BatchesByBlocks(canonical)

(* StoreBlock: the paths are applied only when the ingestion found a fork; the *)
(* new block, and the batches that arrived before it, become canonical.        *)
StoreBlock(b, fork) ==
    /\ blocks' = blocks \cup {b}
    /\ canonicalBlocks' =
         {b} \cup ( IF IsFork(fork)
                   THEN FlagBlocks(canonicalBlocks, fork.canonicalPath, fork.nonCanonicalPath)
                   ELSE canonicalBlocks )
    /\ canonicalBatches' =
         BatchesByBlocks({b}) \cup
            ( IF IsFork(fork)
              THEN FlagBatches(canonicalBatches, fork.canonicalPath, fork.nonCanonicalPath)
              ELSE canonicalBatches )
    /\ UNCHANGED << batch, executedBatches >>

\* Mutant: every batch is stored as canonical.
StoreBatchAlwaysCanonical(n, b) ==
    /\ batch' = [ m \in Stored \cup {n} |-> IF m = n THEN b ELSE batch[m] ]
    /\ canonicalBatches' = canonicalBatches \cup {n}
    /\ UNCHANGED << blocks, canonicalBlocks, executedBatches >>

(* StoreBatch, of a sequence number that is free: the batch is canonical when  *)
(* the block that is its L1 proof is stored and canonical.                     *)
StoreBatch(n, b) ==
    /\ batch' = [ m \in Stored \cup {n} |-> IF m = n THEN b ELSE batch[m] ]
    /\ canonicalBatches' =
         IF b.l1Proof \in canonicalBlocks THEN canonicalBatches \cup {n} ELSE canonicalBatches
    /\ UNCHANGED << blocks, canonicalBlocks, executedBatches >>

\* StoreExecutedBatch.
StoreExecutedBatch(n) ==
    /\ executedBatches' = executedBatches \cup {n}
    /\ UNCHANGED << blocks, canonicalBlocks, batch, canonicalBatches >>
===============================================================================
