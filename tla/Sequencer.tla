------------------------------- MODULE Sequencer -------------------------------
(* The sequencer's enclave: L1 blocks are ingested, batches are created on the *)
(* head batch, and the batches an L1 fork orphans are produced again on the    *)
(* new branch.  CreateBatch and SubmitL1Block run under mainMutex, one at a    *)
(* time, but each is several database transactions, and the process can stop   *)
(* between any two of them: by a crash, or by one of its own Crit assertions.  *)
(* Executing a batch is abstracted to the transactions it contains; they are   *)
(* assumed to succeed.                                                         *)
EXTENDS L1BlockProcessor

CONSTANTS
    MsgBusTx,       \* the transaction that deploys the L2 message bus
    Environments    \* what may happen, and the bounds on it

Faults ==
    { "revival",        \* an L1 branch with batches becomes canonical again
      "genesisReorg",   \* an L1 fork orphans the genesis batch
      "gap",            \* a block is submitted before its parent
      "messages" }      \* storing the cross chain messages fails

\* Bounds on the L1, on the batches and on the crashes, and the transactions.
Environment ==
    [ faults : SUBSET Faults, crashes : Nat, height : 0..MaxHeight, blocks : 0..MaxBlocks,
      batches : 0..MaxSeqNo, txs : SUBSET Txs ]

ASSUME SequencerAssumption ==
    /\ MsgBusTx \in Txs
    /\ \A e \in Environments : e \in Environment

VARIABLES
    env,        \* one of Environments
    mempool,    \* the transactions waiting, in memory
    handler,    \* what the call that holds mainMutex still has to do
    crit,       \* the Crit assertions that have fired
    crashes     \* the number of crashes so far

seqVars == << env, l1Vars, mempool, handler, crit, crashes >>

Assertions == { "conflictingBatches", "orphansNotConsecutive", "proofsNotOnSameFork" }

Handler ==
    [ pending     : SeqNo \cup {NoParent},  \* stored, not yet marked executed
      selected    : SUBSET Txs,             \* to be removed from the mempool
      l1Proof     : L1Block,                \* of the batches to duplicate
      orphans     : SUBSET SeqNo,           \* the batches still to duplicate
      prev        : SeqNo \cup {NoParent},  \* the orphan duplicated last
      currentHead : SeqNo \cup {NoParent} ] \* its duplicate

Idle ==
    [ pending |-> NoParent, selected |-> {}, l1Proof |-> L1Genesis,
      orphans |-> {}, prev |-> NoParent, currentHead |-> NoParent ]

\* The transactions of a stored batch's chain, batch by batch from the genesis batch.
ChainOf[n \in Stored \cup {NoParent}] ==
    IF n = NoParent THEN << >> ELSE Append(ChainOf[batch[n].parent], batch[n].txs)

ChainTxs(n) == LET chain == ChainOf[n] IN UNION { chain[i] : i \in DOMAIN chain }

(* The process stops: what is in memory is lost, what is stored is not.        *)
(* The restart replays stored batches, which changes no table.                 *)
Stop ==
    /\ handler' = Idle
    /\ mempool' = {}
    /\ UNCHANGED << env, l1Vars >>

Crit(assertion) ==
    /\ Stop
    /\ crit' = crit \cup {assertion}
    /\ UNCHANGED crashes

-------------------------------------------------------------------------------
\* mempoolManager.AddMempoolTx, which does not take mainMutex.
SubmitTx(t) ==
    /\ mempool' = mempool \cup {t}
    /\ UNCHANGED << env, l1Vars, handler, crit, crashes >>

(* CreateBatch without a head batch: the genesis batch gets the first sequence *)
(* number.  StoreBatch stops the process when the number is already taken: a   *)
(* second genesis batch has another time stamp, and so another hash.           *)
InitGenesis(h) ==
    /\ handler = Idle
    /\ HeadBatches = {}
    /\ IF L2GenesisSeqNo \in Stored
       THEN Crit("conflictingBatches")
       ELSE /\ StoreBatch(L2GenesisSeqNo, [ parent |-> NoParent, height |-> L2GenesisHeight,
                                            l1Proof |-> h, txs |-> {} ])
            /\ mempool' = mempool \cup {MsgBusTx}
            /\ handler' = [ Idle EXCEPT !.pending = L2GenesisSeqNo ]
            /\ UNCHANGED << env, l1Messages, crit, crashes >>

\* produceBatch up to the first of the two writes of StoreExecutedBatch.
ProduceBatch(n, l1Proof, parent, txs) ==
    /\ NextSeqNo(n)
    /\ StoreBatch(n, [ parent |-> parent, height |-> batch[parent].height + 1,
                       l1Proof |-> l1Proof, txs |-> txs ])
    /\ UNCHANGED << env, l1Messages, mempool, crit, crashes >>

\* Mutant: transactions are taken from the mempool without a look at the state.
CreateNewHeadBatchFromMempool(h, headBatch, n, selected) ==
    /\ handler = Idle
    /\ IsAncestor(h, batch[headBatch].l1Proof, blocks)
    /\ ProduceBatch(n, h, headBatch, selected)
    /\ handler' = [ Idle EXCEPT !.pending = n, !.selected = selected ]

(* CreateBatch on a head batch whose L1 proof is an ancestor of the L1 head.   *)
(* CurrentTxs takes what the batch has room for of the transactions that are   *)
(* not yet executed in the head batch's state.                                 *)
CreateNewHeadBatch(h, headBatch, n, selected) ==
    /\ handler = Idle
    /\ IsAncestor(h, batch[headBatch].l1Proof, blocks)
    /\ selected \cap ChainTxs(headBatch) = {}
    /\ ProduceBatch(n, h, headBatch, selected)
    /\ handler' = [ Idle EXCEPT !.pending = n, !.selected = selected ]

(* The second write of StoreExecutedBatch; CreateBatch then removes the        *)
(* transactions from the mempool, duplicateBatches goes on to the next orphan. *)
FinishBatch ==
    /\ handler.pending # NoParent
    /\ StoreExecutedBatch(handler.pending)
    /\ mempool' = mempool \ handler.selected
    /\ handler' = IF handler.orphans = {} THEN Idle
                  ELSE [ handler EXCEPT !.pending = NoParent, !.currentHead = handler.pending ]
    /\ UNCHANGED << env, l1Messages, crit, crashes >>

-------------------------------------------------------------------------------
\* The L1 blocks and forks the environment submits.
Allowed(b, fork) ==
    /\ BatchesByBlocks(fork.canonicalPath) # {} => "revival" \in env.faults
    /\ L2GenesisSeqNo \in BatchesByBlocks(fork.nonCanonicalPath) => "genesisReorg" \in env.faults
    /\ "gap" \notin env.faults => IF blocks = {} THEN b = L1Genesis ELSE Parent(b) \in blocks
    \* the duplicates stay within the bound
    /\ Cardinality(Stored) + Cardinality(BatchesByBlocks(fork.nonCanonicalPath)) <= env.batches

\* Mutant: OnL1Fork does nothing, as for a validator.
SubmitL1BlockIgnoringFork(b, fork) ==
    /\ handler = Idle
    /\ Allowed(b, fork)
    /\ Process(b, fork)
    /\ UNCHANGED << env, mempool, handler, crit, crashes >>

(* SubmitL1Block: after the block is stored, OnL1Fork collects the batches of  *)
(* the blocks that are no longer canonical.                                    *)
SubmitL1Block(b, fork) ==
    /\ handler = Idle
    /\ Allowed(b, fork)
    /\ Process(b, fork)
    /\ handler' = IF BatchesByBlocks(fork.nonCanonicalPath) = {} THEN Idle
                  ELSE [ Idle EXCEPT !.l1Proof = Parent(b),
                                     !.orphans = BatchesByBlocks(fork.nonCanonicalPath) ]
    /\ UNCHANGED << env, mempool, crit, crashes >>

\* The cross chain messages fail, and the call returns before OnL1Fork.
SubmitL1BlockFails(b, fork) ==
    /\ handler = Idle
    /\ Allowed(b, fork)
    /\ "messages" \in env.faults
    /\ ProcessFails(b, fork)
    /\ UNCHANGED << env, mempool, handler, crit, crashes >>

\* The orphans are sorted by height; o is one that may come next.
NextOrphan(o) ==
    /\ handler.pending = NoParent
    /\ o \in handler.orphans
    /\ \A p \in handler.orphans : batch[o].height <= batch[p].height

Consecutive(o) == handler.prev = NoParent \/ batch[o].parent = handler.prev

\* Mutant: every duplicate keeps the parent of the batch it duplicates.
DuplicateParentOfOrphan(o) == batch[o].parent

DuplicateParent(o) == IF handler.prev = NoParent THEN batch[o].parent ELSE handler.currentHead

(* One turn of the loop of duplicateBatches: the sanity check on the orphans,  *)
(* the errors of ComputeBatch, its assertion on the L1 proofs, and the batch.  *)
DuplicateBatch(o, n) ==
    /\ NextOrphan(o)
    /\ NextSeqNo(n)
    /\ IF ~Consecutive(o)
       THEN Crit("orphansNotConsecutive")
       ELSE IF \/ handler.l1Proof \notin blocks
               \/ DuplicateParent(o) \notin Stored
               \/ batch[DuplicateParent(o)].l1Proof \notin blocks
       THEN /\ handler' = Idle
            /\ UNCHANGED << env, l1Vars, mempool, crit, crashes >>
       ELSE IF n > L2GenesisSeqNo + 1
               /\ ~IsAncestor(handler.l1Proof, batch[DuplicateParent(o)].l1Proof, blocks)
       THEN Crit("proofsNotOnSameFork")
       ELSE /\ ProduceBatch(n, handler.l1Proof, DuplicateParent(o), batch[o].txs)
            /\ handler' = [ handler EXCEPT !.pending = n, !.orphans = @ \ {o}, !.prev = o ]

Crash ==
    /\ crashes < env.crashes
    /\ Stop
    /\ crashes' = crashes + 1
    /\ UNCHANGED crit

-------------------------------------------------------------------------------
Init ==
    /\ env \in Environments
    /\ L1Init
    /\ mempool = {}
    /\ handler = Idle
    /\ crit = {}
    /\ crashes = 0

Next ==
    \/ \E t \in env.txs \ {MsgBusTx} : SubmitTx(t)
    \/ \E h \in HeadBlocks : InitGenesis(h)
    \/ \E h \in HeadBlocks, m \in HeadBatches, n \in 1..env.batches, selected \in SUBSET mempool :
           CreateNewHeadBatch(h, m, n, selected)
    \/ FinishBatch
    \/ /\ handler = Idle
       /\ Cardinality(blocks) < env.blocks
       /\ \E b \in { c \in L1Block \ blocks : Height(c) <= env.height } : \E fork \in IngestBlock(b) :
             SubmitL1Block(b, fork) \/ SubmitL1BlockFails(b, fork)
    \/ \E o, n \in SeqNo : DuplicateBatch(o, n)
    \/ Crash

Spec == Init /\ [][Next]_seqVars

-------------------------------------------------------------------------------
TypeOK ==
    /\ env \in Environments
    /\ L1TypeOK
    /\ mempool \subseteq Txs
    /\ handler \in Handler
    /\ crit \subseteq Assertions
    /\ crashes \in 0..env.crashes

\* L1 forks are all that disturbs the sequencer.
Undisturbed == env.faults = {} /\ env.crashes = 0

(* The batch table is a tree grown in sequence order, through forks, failures  *)
(* and crashes: ReadCurrentSequencerNo hands out each number once, a batch's   *)
(* parent is an earlier batch one height below it, and the parent's L1 proof   *)
(* is an ancestor of its own: RetrieveInboundMessages asserts it, and the      *)
(* assertion never stops the process.                                          *)
BatchesFormTree ==
    /\ "proofsNotOnSameFork" \notin crit
    /\ \A n \in Stored : n = L2GenesisSeqNo \/ n - 1 \in Stored
    /\ \A n \in Stored \ {L2GenesisSeqNo} :
         /\ batch[n].parent \in Stored
         /\ batch[n].parent < n
         /\ batch[n].height = batch[batch[n].parent].height + 1
         /\ batch[batch[n].parent].l1Proof \preceq batch[n].l1Proof

(* No transaction is executed twice on one chain of batches, though orphaned   *)
(* batches are produced again and transactions are submitted again.            *)
ExecutedOnce ==
    \A n \in Stored : batch[n].txs \cap ChainTxs(batch[n].parent) = {}

(* Undisturbed, none of the sequencer's checks fails, whatever forks came: the *)
(* batches of the blocks that are no longer canonical are consecutive          *)
(* (duplicateBatches), no batch takes the sequence number of another           *)
(* (StoreBatch), the L1 proofs of a batch and of its parent are on one fork    *)
(* (RetrieveInboundMessages), and the head batch's L1 proof is an ancestor of  *)
(* the L1 head (createNewHeadBatch).                                           *)
ChecksPass ==
    Undisturbed => /\ crit = {}
                   /\ \A h \in HeadBlocks, n \in HeadBatches : IsAncestor(h, batch[n].l1Proof, blocks)

(* FetchBatchByHeight returns the batch on the canonical chain with a height:  *)
(* between calls there is one to return, at most.                              *)
OneCanonicalPerHeight ==
    Undisturbed /\ handler = Idle => \A h \in 0..MaxSeqNo : Cardinality(CanonicalAtHeight(h)) <= 1

(* The soft finality guarantee: between calls, the head batch's chain contains *)
(* the transactions of every batch ever executed, in the same order and in the *)
(* same batches, whichever L1 branch they were first executed on.              *)
SoftFinalityGuarantee ==
    handler = Idle =>
        \A h \in HeadBatches :
            LET headChain == ChainOf[h]
            IN  \A n \in executedBatches :
                    LET chain == ChainOf[n]
                    IN  Len(chain) <= Len(headChain) /\ chain = SubSeq(headChain, 1, Len(chain))

\* The guarantee holds through L1 forks, when nothing else disturbs duplicateBatches.
SoftFinality == Undisturbed => SoftFinalityGuarantee
===============================================================================
