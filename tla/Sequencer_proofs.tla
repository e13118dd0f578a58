---------------------------- MODULE Sequencer_proofs ----------------------------
(* The sequencer's batch table is a tree grown in sequence order, its          *)
(* assertion on the L1 proofs of a batch and its parent never stops it, and no *)
(* transaction is executed twice on a chain: proved for every L1, every fork,  *)
(* every fault of the environment and every crash.                             *)
EXTENDS Sequencer, L1BlockProcessor_proofs

(* The parent's L1 proof is an ancestor of the batch's, and the blocks between *)
(* them are stored.  The second half is what BatchesFormTree lacks to be       *)
(* inductive: duplicateBatches walks that path from another branch.            *)
OnParentBranch(n) == IsAncestor(batch[n].l1Proof, batch[batch[n].parent].l1Proof, blocks)

Tree ==
    /\ \A n \in Stored : n = L2GenesisSeqNo \/ n - 1 \in Stored
    /\ L2GenesisSeqNo \in Stored => batch[L2GenesisSeqNo].parent = NoParent
    /\ \A n \in Stored \ {L2GenesisSeqNo} :
         /\ batch[n].parent \in Stored
         /\ batch[n].parent < n
         /\ batch[n].height = batch[batch[n].parent].height + 1
         /\ OnParentBranch(n)

\* The parent of an orphan is an orphan, or is on the branch of the duplicates.
OrphanFounded(o) ==
    \/ o = L2GenesisSeqNo
    \/ batch[o].parent \in handler.orphans
    \/ IsAncestor(handler.l1Proof, batch[batch[o].parent].l1Proof, blocks)

\* What duplicateBatches may rely on from one turn of its loop to the next.
HandlerOK ==
    /\ handler.orphans \subseteq Stored
    /\ handler.pending # NoParent => handler.pending \in Stored
    /\ handler.prev = NoParent => \A o \in handler.orphans : OrphanFounded(o)
    /\ handler.prev # NoParent =>
         IF handler.pending = NoParent
         THEN handler.currentHead \in Stored /\ batch[handler.currentHead].l1Proof = handler.l1Proof
         ELSE batch[handler.pending].l1Proof = handler.l1Proof

\* The inductive invariant.
SInv ==
    /\ L1Inv
    /\ env \in Environments
    /\ handler \in Handler
    /\ Tree
    /\ HandlerOK
    /\ "proofsNotOnSameFork" \notin crit

-------------------------------------------------------------------------------
\* Lemmas about the walks and the tables.

\* A walk over stored blocks stays possible when more blocks are stored.
LEMMA WalkKept ==
    ASSUME NEW S, NEW T, S \subseteq T, NEW x, NEW y, IsAncestor(x, y, S)
    PROVE  IsAncestor(x, y, T)
BY DEF IsAncestor

\* The walk from a block to itself is possible.
LEMMA WalkToSelf ==
    ASSUME NEW x \in L1Block, NEW S
    PROVE  IsAncestor(x, x, S)
<1>1. Len(x) \in Nat /\ x \preceq x
  BY BlockIsSeq, PrecBasics
<1>2. Len(x)..(Len(x) - 1) = {}
  BY <1>1
<1>. QED  BY <1>1, <1>2 DEF IsAncestor

(* The parent of a batch on the branch that is left is on that branch too, or  *)
(* its L1 proof can be reached from the parent of the new block.               *)
LEMMA OrphanParent ==
    ASSUME L1Inv, Tree, NEW b \in L1Block, b \notin blocks, NEW fork \in IngestBlock(b),
           NEW o \in BatchesByBlocks(fork.nonCanonicalPath), o # L2GenesisSeqNo
    PROVE  \/ batch[o].parent \in BatchesByBlocks(fork.nonCanonicalPath)
           \/ IsAncestor(Parent(b), batch[batch[o].parent].l1Proof, blocks)
<1> DEFINE p == batch[o].parent
           x == batch[o].l1Proof
           y == batch[p].l1Proof
<1>1. /\ blocks \subseteq L1Block /\ canonicalBlocks \subseteq blocks
      /\ o \in Stored /\ x \in fork.nonCanonicalPath
      /\ \A n \in Stored : batch[n].l1Proof \in L1Block
  <2>1. \A n \in Stored : batch[n] \in Batch
    BY DEF L1Inv, L1TypeOK, StorageTypeOK
  <2>2. \A n \in Stored : batch[n].l1Proof \in L1Block
    BY <2>1 DEF Batch
  <2>. QED  BY <2>2 DEF L1Inv, L1TypeOK, StorageTypeOK, BatchesByBlocks
<1>2. p \in Stored /\ IsAncestor(x, y, blocks)
  BY <1>1 DEF Tree, OnParentBranch
<1>3. fork # NoFork
  BY <1>1 DEF NoFork
<1>4. PICK h \in HeadBlocks : fork \in LCA(b, h, blocks)
  BY <1>3 DEF IngestBlock
<1>5. PICK c \in blocks :
         /\ IsLatestCommonAncestor(c, b, h)
         /\ ForkPath(b, c) \ {b} \subseteq blocks
         /\ fork.nonCanonicalPath = ForkPath(h, c)
  BY <1>1, <1>4 DEF LCA
<1>6. h \in L1Block /\ c \in L1Block /\ x \in L1Block /\ y \in L1Block /\ c \preceq b /\ c \preceq h
  BY <1>1, <1>2, <1>5 DEF HeadBlocks, IsLatestCommonAncestor
<1>7. Len(b) \in Nat /\ Len(h) \in Nat /\ Len(c) \in Nat /\ Len(x) \in Nat /\ Len(y) \in Nat
  BY <1>6, BlockIsSeq
<1>8. PICK j \in (Len(c) + 1)..Len(h) : x = Upto(h, j)
  BY <1>1, <1>5 DEF ForkPath
<1>9. j \in 0..Len(h) /\ Len(x) = j /\ Len(y) <= j /\ y = Upto(x, Len(y))
  <2>1. j \in 0..Len(h)
    BY <1>7, <1>8
  <2>. QED  BY <1>2, <1>6, <1>8, <2>1, UptoBlock DEF IsAncestor, \preceq
<1>10. \A k \in 0..j : Upto(x, k) = Upto(h, k)
  BY <1>6, <1>8, <1>9, UptoUpto
<1>11. y = Upto(h, Len(y))
  BY <1>7, <1>8, <1>9, <1>10
<1>12. CASE Len(y) > Len(c)
  <2>1. y \in ForkPath(h, c)
    BY <1>7, <1>9, <1>11, <1>12 DEF ForkPath
  <2>. QED  BY <1>2, <1>5, <2>1 DEF BatchesByBlocks
<1>13. CASE Len(y) <= Len(c)
  <2>1. c # b /\ Len(c) <= Len(b) /\ c = Upto(b, Len(c)) /\ c = Upto(h, Len(c)) /\ Len(c) <= Len(h)
    BY <1>5, <1>6 DEF \preceq
  <2>2. Len(c) < Len(b)
    BY <1>7, <2>1, UptoSelf
  <2>3. Len(b) - 1 \in 0..Len(b) /\ Len(c) \in 0..(Len(b) - 1)
    BY <1>7, <2>2
  <2>4. /\ Parent(b) \in L1Block /\ Len(Parent(b)) = Len(b) - 1
        /\ \A k \in 0..(Len(b) - 1) : Upto(Parent(b), k) = Upto(b, k)
    BY <2>3, UptoBlock, UptoUpto DEF Parent
  <2>5. c \preceq Parent(b)
    BY <2>1, <2>3, <2>4 DEF \preceq
  <2>6. y \preceq h
    BY <1>7, <1>9, <1>11 DEF \preceq
  <2>7. y \preceq c
    BY <1>6, <1>13, <2>6, PrecLinear
  <2>8. y \preceq Parent(b)
    BY <1>6, <2>4, <2>5, <2>7, PrecTransitive
  <2>9. ASSUME NEW k \in Len(y)..(Len(Parent(b)) - 1) PROVE Upto(Parent(b), k) \in blocks
    <3>0. k \in Nat /\ k <= Len(b) - 2
      <4> HIDE DEF y
      <4>1. Len(Parent(b)) \in Int /\ Len(y) \in Nat
        BY <1>7, <2>4
      <4>. QED  BY <2>4, <4>1
    <3>1. k \in 0..(Len(b) - 1) /\ k \in 0..Len(b) /\ k < Len(b)
      BY <1>7, <3>0
    <3>2. Upto(Parent(b), k) = Upto(b, k) /\ Len(Upto(b, k)) = k
      BY <2>4, <3>1, UptoBlock
    <3>3. CASE k > Len(c)
      <4>1. k \in (Len(c) + 1)..Len(b)
        BY <1>7, <3>1, <3>3
      <4>. QED  BY <1>5, <3>1, <3>2, <4>1 DEF ForkPath
    <3>4. CASE k = Len(c)
      BY <2>1, <3>2, <3>4
    <3>5. CASE k < Len(c)
      <4>1. k \in 0..Len(c) /\ Len(c) \in 0..Len(b) /\ Len(c) \in 0..Len(h) /\ k \in 0..j
            /\ k \in Len(y)..(Len(x) - 1)
        BY <1>7, <1>8, <1>9, <2>1, <3>1, <3>5
      <4>2. Upto(b, k) = Upto(c, k) /\ Upto(h, k) = Upto(c, k)
        BY <1>6, <2>1, <4>1, UptoUpto
      <4>3. Upto(x, k) \in blocks
        BY <1>2, <4>1 DEF IsAncestor
      <4>. QED  BY <1>10, <3>2, <4>1, <4>2, <4>3
    <3>. QED  BY <1>7, <3>1, <3>3, <3>4, <3>5
  <2>. QED  BY <2>8, <2>9 DEF IsAncestor
<1>. QED  BY <1>7, <1>12, <1>13

\* Storing a batch on a stored batch keeps the tree.
LEMMA StoreKeepsTree ==
    ASSUME L1Inv, Tree, NEW n \in SeqNo, n \notin Stored, NEW r \in Batch, StoreBatch(n, r),
           n = L2GenesisSeqNo \/ n - 1 \in Stored,
           IF n = L2GenesisSeqNo THEN r.parent = NoParent
           ELSE /\ r.parent \in Stored /\ r.parent < n
                /\ r.height = batch[r.parent].height + 1
                /\ IsAncestor(r.l1Proof, batch[r.parent].l1Proof, blocks)
    PROVE  /\ Tree' /\ Stored' = Stored \cup {n} /\ batch'[n] = r
           /\ \A m \in Stored : batch'[m] = batch[m]
<1>1. /\ batch' = [ m \in Stored \cup {n} |-> IF m = n THEN r ELSE batch[m] ]
      /\ blocks' = blocks
  BY DEF StoreBatch
<1>2. /\ Stored' = Stored \cup {n} /\ batch'[n] = r
      /\ \A m \in Stored : batch'[m] = batch[m]
  BY <1>1 DEF Stored
<1>3. (\A m \in Stored : m = L2GenesisSeqNo \/ m - 1 \in Stored)'
  BY <1>2 DEF Tree
<1>4. (L2GenesisSeqNo \in Stored => batch[L2GenesisSeqNo].parent = NoParent)'
  BY <1>2 DEF Tree
<1>5. ASSUME NEW m \in Stored' \ {L2GenesisSeqNo}
      PROVE  /\ batch'[m].parent \in Stored'
             /\ batch'[m].parent < m
             /\ batch'[m].height = batch'[batch'[m].parent].height + 1
             /\ OnParentBranch(m)'
  <2>1. CASE m = n
    BY <1>1, <1>2, <1>5, <2>1 DEF OnParentBranch
  <2>2. CASE m \in Stored
    BY <1>1, <1>2, <1>5, <2>2 DEF Tree, OnParentBranch
  <2>. QED  BY <1>2, <2>1, <2>2
<1>. QED  BY <1>2, <1>3, <1>4, <1>5 DEF Tree

\* The tables but for the flags are left alone.
LEMMA SameTree ==
    ASSUME Tree, batch' = batch, blocks \subseteq blocks'
    PROVE  Tree' /\ Stored' = Stored
<1>1. Stored' = Stored
  BY DEF Stored
<1>2. ASSUME NEW n \in Stored, OnParentBranch(n) PROVE OnParentBranch(n)'
  BY <1>2, WalkKept DEF OnParentBranch
<1>. QED  BY <1>1, <1>2 DEF Tree

-------------------------------------------------------------------------------
\* The steps.

\* The idle handler is a handler with nothing left to do.
LEMMA IdleOK ==
    /\ Idle \in Handler
    /\ Idle.orphans = {} /\ Idle.pending = NoParent /\ Idle.prev = NoParent
BY GenesisHeight DEF Idle, Handler

\* An idle handler relies on nothing.
LEMMA IdleHandler ==
    ASSUME handler' = Idle
    PROVE  handler' \in Handler /\ HandlerOK'
BY IdleOK DEF HandlerOK

\* The tables do not change, and the handler stops or stays.
LEMMA TablesStay ==
    ASSUME SInv, UNCHANGED << env, l1Vars >>, handler' \in {handler, Idle},
           "proofsNotOnSameFork" \notin crit'
    PROVE  SInv'
<1>1. UNCHANGED storageVars /\ l1Messages' = l1Messages /\ batch' = batch /\ blocks' = blocks
  BY DEF l1Vars, storageVars
<1>2. L1Inv'
  BY <1>1, StorageUnchanged DEF SInv, L1Inv, L1TypeOK
<1>3. Tree' /\ Stored' = Stored
  BY <1>1, SameTree DEF SInv
<1>4. handler' \in Handler /\ HandlerOK'
  <2>1. CASE handler' = Idle
    BY <2>1, IdleHandler
  <2>2. CASE handler' = handler
    BY <1>1, <1>3, <2>2 DEF SInv, HandlerOK, OrphanFounded
  <2>. QED  BY <2>1, <2>2
<1>. QED  BY <1>2, <1>3, <1>4 DEF SInv

\* The genesis batch is created, on the first L1 block.
LEMMA InitGenesisPreserves ==
    ASSUME SInv, NEW h \in HeadBlocks, InitGenesis(h)
    PROVE  SInv'
<1>1. CASE L2GenesisSeqNo \in Stored
  <2>1. UNCHANGED << env, l1Vars >> /\ handler' = Idle /\ crit' = crit \cup {"conflictingBatches"}
    BY <1>1 DEF InitGenesis, Crit, Stop
  <2>. QED  BY <2>1, TablesStay DEF SInv
<1>2. CASE L2GenesisSeqNo \notin Stored
  <2> DEFINE r == [ parent |-> NoParent, height |-> L2GenesisHeight, l1Proof |-> h, txs |-> {} ]
  <2>1. /\ StoreBatch(L2GenesisSeqNo, r)
        /\ handler' = [ Idle EXCEPT !.pending = L2GenesisSeqNo ]
        /\ UNCHANGED << env, l1Messages, crit >>
    BY <1>2 DEF InitGenesis
  <2>2. r \in Batch /\ r.parent = NoParent
    BY DEF Batch, L2GenesisHeight, HeadBlocks, SInv, L1Inv, L1TypeOK, StorageTypeOK
  <2> HIDE DEF r
  <2>3. L2GenesisSeqNo \in SeqNo
    BY MaxSeqNoAssumption DEF SeqNo, L2GenesisSeqNo
  <2>4. L1Inv'
    BY <1>2, <2>1, <2>2, <2>3, StoreBatchPreserves DEF SInv
  <2>5. Tree' /\ Stored' = Stored \cup {L2GenesisSeqNo}
    BY <1>2, <2>1, <2>2, <2>3, StoreKeepsTree DEF SInv
  <2>6. handler' \in Handler /\ handler'.orphans = {} /\ handler'.pending = L2GenesisSeqNo /\ handler'.prev = NoParent
    BY <2>1, <2>3, IdleOK DEF Handler
  <2>7. HandlerOK'
    BY <2>5, <2>6 DEF HandlerOK
  <2>. QED  BY <2>1, <2>4, <2>5, <2>6, <2>7 DEF SInv
<1>. QED  BY <1>1, <1>2

\* produceBatch on a stored parent keeps the tree.
LEMMA ProduceBatchKeeps ==
    ASSUME SInv, NEW n \in SeqNo, NEW l1Proof \in L1Block, NEW parent \in Stored, NEW txs \in SUBSET Txs,
           ProduceBatch(n, l1Proof, parent, txs),
           IsAncestor(l1Proof, batch[parent].l1Proof, blocks)
    PROVE  /\ L1Inv' /\ Tree' /\ env' = env /\ crit' = crit
           /\ Stored' = Stored \cup {n} /\ batch'[n].l1Proof = l1Proof
           /\ \A m \in Stored : batch'[m] = batch[m]
           /\ blocks' = blocks
<1> DEFINE r == [ parent |-> parent, height |-> batch[parent].height + 1,
                  l1Proof |-> l1Proof, txs |-> txs ]
<1>1. NextSeqNo(n) /\ StoreBatch(n, r) /\ UNCHANGED << env, l1Messages, crit >>
  BY DEF ProduceBatch
<1>2. parent \in SeqNo /\ batch[parent] \in Batch
  BY DEF SInv, L1Inv, L1TypeOK, StorageTypeOK
<1>3. batch[parent].height \in Nat
  BY <1>2 DEF Batch
<1>4. r \in Batch /\ r.l1Proof = l1Proof /\ r.parent = parent /\ r.height = batch[parent].height + 1
  BY <1>2, <1>3 DEF Batch
<1> HIDE DEF r
<1>5. /\ n \notin Stored /\ parent < n /\ n # L2GenesisSeqNo
      /\ n = L2GenesisSeqNo \/ n - 1 \in Stored
  BY <1>1, <1>2, MaxSeqNoAssumption DEF NextSeqNo, SeqNo, L2GenesisSeqNo
<1>6. L1Inv'
  BY <1>1, <1>4, <1>5, StoreBatchPreserves DEF SInv
<1>7. /\ Tree' /\ Stored' = Stored \cup {n} /\ batch'[n] = r
      /\ \A m \in Stored : batch'[m] = batch[m]
  BY <1>1, <1>4, <1>5, StoreKeepsTree DEF SInv
<1>8. blocks' = blocks
  BY <1>1 DEF StoreBatch
<1>. QED  BY <1>1, <1>4, <1>6, <1>7, <1>8

\* A batch is created on a head batch.
LEMMA CreateNewHeadBatchPreserves ==
    ASSUME SInv, NEW h \in HeadBlocks, NEW m \in HeadBatches, NEW n \in 1..env.batches,
           NEW selected \in SUBSET mempool, mempool \subseteq Txs,
           CreateNewHeadBatch(h, m, n, selected)
    PROVE  SInv'
<1>1. h \in L1Block /\ m \in Stored
  BY DEF SInv, L1Inv, L1TypeOK, StorageTypeOK, HeadBlocks, HeadBatches, CanonicalExecuted
<1>2. n \in SeqNo
  BY SequencerAssumption, MaxSeqNoAssumption DEF SInv, Environment, SeqNo
<1>3. /\ ProduceBatch(n, h, m, selected)
      /\ IsAncestor(h, batch[m].l1Proof, blocks)
      /\ handler' = [ Idle EXCEPT !.pending = n, !.selected = selected ]
  BY DEF CreateNewHeadBatch
<1>4. L1Inv' /\ Tree' /\ env' = env /\ crit' = crit /\ Stored' = Stored \cup {n}
  BY <1>1, <1>2, <1>3, ProduceBatchKeeps
<1>5. handler' \in Handler /\ handler'.orphans = {} /\ handler'.pending = n /\ handler'.prev = NoParent
  BY <1>2, <1>3, IdleOK DEF Handler
<1>6. HandlerOK'
  BY <1>4, <1>5 DEF HandlerOK
<1>. QED  BY <1>4, <1>5, <1>6 DEF SInv

\* The batch in progress is recorded as executed.
LEMMA FinishBatchPreserves ==
    ASSUME SInv, FinishBatch
    PROVE  SInv'
<1>1. /\ handler.pending # NoParent /\ StoreExecutedBatch(handler.pending)
      /\ UNCHANGED << env, l1Messages, crit >>
  BY DEF FinishBatch
<1>2. handler.pending \in Stored
  BY <1>1 DEF SInv, HandlerOK
<1>3. L1Inv'
  BY <1>1, <1>2, StoreExecutedPreserves DEF SInv
<1>4. batch' = batch /\ blocks' = blocks
  BY <1>1 DEF StoreExecutedBatch
<1>5. Tree' /\ Stored' = Stored
  BY <1>4, SameTree DEF SInv
<1>6. CASE handler.orphans = {}
  <2>1. handler' = Idle
    BY <1>6 DEF FinishBatch
  <2>. QED  BY <1>1, <1>3, <1>5, <2>1, IdleHandler DEF SInv
<1>7. CASE handler.orphans # {}
  <2>1. handler' = [ handler EXCEPT !.pending = NoParent, !.currentHead = handler.pending ]
    BY <1>7 DEF FinishBatch
  <2>2. /\ handler' \in Handler
        /\ handler'.pending = NoParent /\ handler'.currentHead = handler.pending
        /\ handler'.orphans = handler.orphans /\ handler'.prev = handler.prev
        /\ handler'.l1Proof = handler.l1Proof
    BY <2>1 DEF SInv, Handler
  <2>3. HandlerOK'
    BY <1>1, <1>2, <1>4, <1>5, <2>2 DEF SInv, HandlerOK, OrphanFounded
  <2>. QED  BY <1>1, <1>3, <1>5, <2>2, <2>3 DEF SInv
<1>. QED  BY <1>6, <1>7

\* A block is stored, and OnL1Fork, if it runs, collects the orphans.
LEMMA BlockPreserves ==
    ASSUME SInv, NEW b \in L1Block, NEW fork, TryAndInsertBlock(b, fork),
           l1Messages' \subseteq blocks', UNCHANGED << env, crit >>,
           \/ handler' = Idle
           \/ /\ BatchesByBlocks(fork.nonCanonicalPath) # {}
              /\ handler' = [ Idle EXCEPT !.l1Proof = Parent(b),
                                          !.orphans = BatchesByBlocks(fork.nonCanonicalPath) ]
    PROVE  SInv'
<1>1. b \notin blocks /\ fork \in IngestBlock(b) /\ blocks' = blocks \cup {b} /\ batch' = batch
  BY DEF TryAndInsertBlock, StoreBlock
<1>2. L1Inv'
  BY InsertPreserves DEF SInv
<1>3. Tree' /\ Stored' = Stored
  BY <1>1, SameTree DEF SInv
<1>4. CASE handler' = Idle
  BY <1>2, <1>3, <1>4, IdleHandler DEF SInv
<1>5. CASE /\ handler' = [ Idle EXCEPT !.l1Proof = Parent(b),
                                       !.orphans = BatchesByBlocks(fork.nonCanonicalPath) ]
           /\ BatchesByBlocks(fork.nonCanonicalPath) # {}
  <2> DEFINE orphans == BatchesByBlocks(fork.nonCanonicalPath)
  <2>1. orphans \subseteq Stored /\ orphans \subseteq SeqNo
    BY DEF BatchesByBlocks, SInv, L1Inv, L1TypeOK, StorageTypeOK
  <2>2. Parent(b) \in L1Block
    <3>1. PICK o \in orphans : TRUE
      BY <1>5
    <3>2. fork.nonCanonicalPath # {}
      BY <3>1 DEF BatchesByBlocks
    <3>3. b # L1Genesis
      <4>1. ASSUME b = L1Genesis PROVE fork.nonCanonicalPath = {}
        BY <1>1, <4>1, GenesisHeight DEF IngestBlock, NoFork, LCA, Height
      <4>. QED  BY <3>2, <4>1
    <3>4. Len(b) \in Nat /\ Len(b) # 0
      BY <3>3, BlockIsSeq, GenesisHeight
    <3>. QED  BY <3>4, UptoBlock DEF Parent
  <2>3. \A o \in orphans : \/ o = L2GenesisSeqNo
                           \/ batch[o].parent \in orphans
                           \/ IsAncestor(Parent(b), batch[batch[o].parent].l1Proof, blocks)
    BY <1>1, OrphanParent DEF SInv
  <2> HIDE DEF orphans
  <2>4. /\ handler' \in Handler
        /\ handler'.l1Proof = Parent(b) /\ handler'.orphans = orphans
        /\ handler'.pending = NoParent /\ handler'.prev = NoParent
    BY <1>5, <2>1, <2>2, IdleOK DEF Handler, orphans
  <2>5. ASSUME NEW o \in orphans PROVE OrphanFounded(o)'
    <3>1. CASE o = L2GenesisSeqNo \/ batch[o].parent \in orphans
      BY <1>1, <2>4, <3>1 DEF OrphanFounded
    <3>2. CASE IsAncestor(Parent(b), batch[batch[o].parent].l1Proof, blocks)
      <4>1. IsAncestor(Parent(b), batch[batch[o].parent].l1Proof, blocks')
        BY <1>1, <3>2, WalkKept
      <4>. QED  BY <1>1, <2>4, <4>1 DEF OrphanFounded
    <3>. QED  BY <2>3, <3>1, <3>2
  <2>6. HandlerOK'
    BY <1>3, <2>1, <2>4, <2>5 DEF HandlerOK
  <2>. QED  BY <1>2, <1>3, <2>4, <2>6 DEF SInv
<1>. QED  BY <1>4, <1>5

(* The assertion of RetrieveInboundMessages holds: the L1 proof of the batch a *)
(* duplicate is put on can be reached from the L1 proof of the duplicate.      *)
LEMMA DuplicateOnBranch ==
    ASSUME SInv, NEW o, NextOrphan(o), DuplicateParent(o) \in Stored
    PROVE  IsAncestor(handler.l1Proof, batch[DuplicateParent(o)].l1Proof, blocks)
<1>1. o \in Stored /\ handler.l1Proof \in L1Block
  BY DEF SInv, HandlerOK, NextOrphan, Handler
<1>2. CASE handler.prev # NoParent
  <2>1. batch[DuplicateParent(o)].l1Proof = handler.l1Proof
    BY <1>2 DEF SInv, HandlerOK, NextOrphan, DuplicateParent
  <2>. QED  BY <1>1, <2>1, WalkToSelf
<1>3. CASE handler.prev = NoParent
  <2>1. DuplicateParent(o) = batch[o].parent /\ batch[o].parent \in Stored
    BY <1>3 DEF DuplicateParent
  <2>2. o # L2GenesisSeqNo
    BY <1>1, <2>1 DEF SInv, Tree, L1Inv, L1TypeOK, StorageTypeOK, SeqNo, NoParent
  <2>3. batch[o].parent \notin handler.orphans
    <3>1. batch[o].height = batch[batch[o].parent].height + 1
      BY <1>1, <2>2 DEF SInv, Tree
    <3>2. batch[batch[o].parent] \in Batch
      BY <2>1 DEF SInv, L1Inv, L1TypeOK, StorageTypeOK
    <3>3. batch[batch[o].parent].height \in Nat
      BY <3>2 DEF Batch
    <3>4. ~(batch[o].height <= batch[batch[o].parent].height)
      BY <3>1, <3>3
    <3>. QED  BY <3>4 DEF NextOrphan
  <2>4. OrphanFounded(o)
    BY <1>3 DEF SInv, HandlerOK, NextOrphan
  <2>. QED  BY <2>1, <2>2, <2>3, <2>4 DEF OrphanFounded
<1>. QED  BY <1>2, <1>3

\* The next orphan is duplicated, on the last duplicate or on the first orphan's parent.
LEMMA DuplicateBatchPreserves ==
    ASSUME SInv, NEW o \in SeqNo, NEW n \in SeqNo, DuplicateBatch(o, n)
    PROVE  SInv'
<1>1. NextOrphan(o) /\ o \in Stored
  BY DEF DuplicateBatch, NextOrphan, SInv, HandlerOK
<1>2. CASE ~Consecutive(o)
  <2>1. UNCHANGED << env, l1Vars >> /\ handler' = Idle /\ crit' = crit \cup {"orphansNotConsecutive"}
    BY <1>2 DEF DuplicateBatch, Crit, Stop
  <2>. QED  BY <2>1, TablesStay DEF SInv
<1>3. CASE /\ Consecutive(o)
           /\ \/ handler.l1Proof \notin blocks
              \/ DuplicateParent(o) \notin Stored
              \/ batch[DuplicateParent(o)].l1Proof \notin blocks
  <2>1. UNCHANGED << env, l1Vars >> /\ handler' = Idle /\ crit' = crit
    BY <1>3 DEF DuplicateBatch
  <2>. QED  BY <2>1, TablesStay DEF SInv
<1>4. CASE /\ Consecutive(o)
           /\ handler.l1Proof \in blocks
           /\ DuplicateParent(o) \in Stored
           /\ batch[DuplicateParent(o)].l1Proof \in blocks
  <2>1. IsAncestor(handler.l1Proof, batch[DuplicateParent(o)].l1Proof, blocks)
    BY <1>1, <1>4, DuplicateOnBranch
  <2>2. /\ ProduceBatch(n, handler.l1Proof, DuplicateParent(o), batch[o].txs)
        /\ handler' = [ handler EXCEPT !.pending = n, !.orphans = @ \ {o}, !.prev = o ]
    BY <1>4, <2>1 DEF DuplicateBatch
  <2>3. handler.l1Proof \in L1Block /\ batch[o] \in Batch
    BY <1>1 DEF SInv, Handler, L1Inv, L1TypeOK, StorageTypeOK
  <2>4. batch[o].txs \in SUBSET Txs
    BY <2>3 DEF Batch
  <2>5. /\ L1Inv' /\ Tree' /\ env' = env /\ crit' = crit
        /\ Stored' = Stored \cup {n} /\ batch'[n].l1Proof = handler.l1Proof
    BY <1>4, <2>1, <2>2, <2>3, <2>4, ProduceBatchKeeps
  <2>6. /\ handler' \in Handler
        /\ handler'.pending = n /\ handler'.prev = o
        /\ handler'.orphans \subseteq handler.orphans
        /\ handler'.l1Proof = handler.l1Proof
    BY <2>2 DEF SInv, Handler
  <2>7. o # NoParent /\ n # NoParent
    BY MaxSeqNoAssumption DEF SeqNo, NoParent
  <2>8. HandlerOK'
    BY <2>5, <2>6, <2>7 DEF SInv, HandlerOK
  <2>. QED  BY <2>5, <2>6, <2>8 DEF SInv
<1>. QED  BY <1>2, <1>3, <1>4

-------------------------------------------------------------------------------
\* The transactions in the mempool are transactions.
LEMMA MempoolTyped == Spec => [](mempool \subseteq Txs)
<1> DEFINE M == mempool \subseteq Txs /\ env \in Environments
<1>1. Init => M
  BY DEF Init
<1>2. M /\ [Next]_seqVars => M'
  <2>1. SUFFICES ASSUME M, [Next]_seqVars PROVE M'
    OBVIOUS
  <2>2. env.txs \subseteq Txs /\ MsgBusTx \in Txs
    BY <2>1, SequencerAssumption DEF Environment
  <2>3. ASSUME NEW t \in env.txs \ {MsgBusTx}, SubmitTx(t) PROVE M'
    BY <2>1, <2>2, <2>3 DEF SubmitTx
  <2>4. ASSUME NEW h, InitGenesis(h) PROVE M'
    BY <2>1, <2>2, <2>4 DEF InitGenesis, Crit, Stop
  <2>5. ASSUME NEW h, NEW m, NEW n, NEW s, CreateNewHeadBatch(h, m, n, s) PROVE M'
    BY <2>1, <2>5 DEF CreateNewHeadBatch, ProduceBatch
  <2>6. CASE FinishBatch
    BY <2>1, <2>6 DEF FinishBatch
  <2>7. ASSUME NEW b, NEW fork, SubmitL1Block(b, fork) \/ SubmitL1BlockFails(b, fork) PROVE M'
    BY <2>1, <2>7 DEF SubmitL1Block, SubmitL1BlockFails
  <2>8. ASSUME NEW o, NEW n, DuplicateBatch(o, n) PROVE M'
    BY <2>1, <2>8 DEF DuplicateBatch, ProduceBatch, Crit, Stop
  <2>9. CASE Crash
    BY <2>1, <2>9 DEF Crash, Stop
  <2>10. CASE UNCHANGED seqVars
    BY <2>1, <2>10 DEF seqVars
  <2>. QED  BY <2>1, <2>3, <2>4, <2>5, <2>6, <2>7, <2>8, <2>9, <2>10 DEF Next
<1>3. M => mempool \subseteq Txs
  OBVIOUS
<1>. QED  BY <1>1, <1>2, <1>3, PTL DEF Spec

\* The sequencer starts with empty tables.
LEMMA InitSInv == Init => SInv
<1>1. SUFFICES ASSUME Init PROVE SInv
  OBVIOUS
<1>2. L1Inv /\ Stored = {}
  BY <1>1, L1InitInv DEF Init, L1Init, StorageInit, Stored
<1>3. handler = Idle /\ crit = {} /\ env \in Environments
  BY <1>1 DEF Init
<1>. QED  BY <1>2, <1>3, IdleOK DEF SInv, Tree, HandlerOK

\* Every step keeps the invariant.
LEMMA NextSInv == SInv /\ mempool \subseteq Txs /\ [Next]_seqVars => SInv'
<1>1. SUFFICES ASSUME SInv, mempool \subseteq Txs, [Next]_seqVars PROVE SInv'
  OBVIOUS
<1>2. ASSUME NEW t, SubmitTx(t) PROVE SInv'
  BY <1>1, <1>2, TablesStay DEF SubmitTx, SInv
<1>3. ASSUME NEW h \in HeadBlocks, InitGenesis(h) PROVE SInv'
  BY <1>1, <1>3, InitGenesisPreserves
<1>4. ASSUME NEW h \in HeadBlocks, NEW m \in HeadBatches, NEW n \in 1..env.batches,
             NEW s \in SUBSET mempool, CreateNewHeadBatch(h, m, n, s)
      PROVE  SInv'
  BY <1>1, <1>4, CreateNewHeadBatchPreserves
<1>5. CASE FinishBatch
  BY <1>1, <1>5, FinishBatchPreserves
<1>6. ASSUME NEW b \in L1Block, NEW fork, SubmitL1Block(b, fork) PROVE SInv'
  <2>1. TryAndInsertBlock(b, fork) /\ blocks' = blocks \cup {b}
    BY <1>6 DEF SubmitL1Block, Process, TryAndInsertBlock, StoreBlock
  <2>2. l1Messages' \subseteq blocks'
    BY <1>1, <1>6, <2>1 DEF SubmitL1Block, Process, SInv, L1Inv, L1TypeOK
  <2>. QED  BY <1>1, <1>6, <2>1, <2>2, BlockPreserves DEF SubmitL1Block
<1>7. ASSUME NEW b \in L1Block, NEW fork, SubmitL1BlockFails(b, fork) PROVE SInv'
  <2>1. TryAndInsertBlock(b, fork) /\ blocks' = blocks \cup {b} /\ handler' = Idle
    BY <1>7 DEF SubmitL1BlockFails, ProcessFails, TryAndInsertBlock, StoreBlock
  <2>2. l1Messages' \subseteq blocks'
    BY <1>1, <1>7, <2>1 DEF SubmitL1BlockFails, ProcessFails, SInv, L1Inv, L1TypeOK
  <2>. QED  BY <1>1, <1>7, <2>1, <2>2, BlockPreserves DEF SubmitL1BlockFails
<1>8. ASSUME NEW o \in SeqNo, NEW n \in SeqNo, DuplicateBatch(o, n) PROVE SInv'
  BY <1>1, <1>8, DuplicateBatchPreserves
<1>9. CASE Crash
  BY <1>1, <1>9, TablesStay DEF Crash, Stop, SInv
<1>10. CASE UNCHANGED seqVars
  BY <1>1, <1>10, TablesStay DEF seqVars, SInv
<1>. QED  BY <1>1, <1>2, <1>3, <1>4, <1>5, <1>6, <1>7, <1>8, <1>9, <1>10 DEF Next

(* What the tables and the call in progress say of one another holds in every  *)
(* reachable state of the sequencer, whatever its environment does.            *)
THEOREM SequencerInvariance == Spec => []SInv
BY InitSInv, NextSInv, MempoolTyped, PTL DEF Spec

(* The batch table is a tree grown in sequence order, through forks, failures  *)
(* and crashes, and the assertion on L1 proofs never stops the process.        *)
THEOREM BatchesFormTreeHolds == Spec => []BatchesFormTree
<1>1. SInv => BatchesFormTree
  BY DEF SInv, Tree, OnParentBranch, IsAncestor, BatchesFormTree
<1>. QED  BY <1>1, SequencerInvariance, PTL

-------------------------------------------------------------------------------
\* Chains of batches.

(* A recursive definition over a tree that grows in sequence order defines a   *)
(* function: the chains of the batches up to one give the chain of the next.   *)
LEMMA ChainExists ==
    ASSUME NEW D \in SUBSET Nat, NEW M \in Nat, 0 \in D, \A m \in D : m <= M, NEW b,
           \A m \in D : m # 0 => b[m].parent \in D /\ b[m].parent < m
    PROVE  \E g : g = [ m \in D |-> IF m = 0 THEN << >> ELSE Append(g[b[m].parent], b[m].txs) ]
<1> DEFINE First(k) == { m \in D : m <= k }
           Good(g, k) == g = [ m \in First(k) |-> IF m = 0 THEN << >>
                                                  ELSE Append(g[b[m].parent], b[m].txs) ]
           A == { k \in Nat : \E g : Good(g, k) }
<1>1. 0 \in A
  <2> DEFINE g == [ m \in {0} |-> << >> ]
  <2>1. 0 <= 0 /\ \A m \in D : m <= 0 => m = 0
    OBVIOUS
  <2>2. First(0) = {0}
    BY <2>1, Zenon
  <2>3. Good(g, 0)
    BY <2>2
  <2>. QED  BY <2>3
<1>2. ASSUME NEW k \in Nat, k \in A PROVE k + 1 \in A
  <2>1. PICK g : Good(g, k)
    BY <1>2
  <2> DEFINE f == [ m \in First(k + 1) |-> IF m <= k THEN g[m]
                                           ELSE Append(g[b[m].parent], b[m].txs) ]
  <2>2. \A m \in First(k) : m \in First(k + 1) /\ m <= k /\ f[m] = g[m]
    OBVIOUS
  <2>3. ASSUME NEW m \in First(k + 1), m # 0 PROVE b[m].parent \in First(k)
    <3>1. m \in D /\ m \in Nat /\ m <= k + 1
      BY <2>3
    <3>2. b[m].parent \in D /\ b[m].parent < m
      BY <2>3, <3>1
    <3>3. b[m].parent \in Nat
      BY <3>2
    <3>. QED  BY <3>1, <3>2, <3>3
  <2>4. ASSUME NEW m \in First(k + 1)
        PROVE  f[m] = IF m = 0 THEN << >> ELSE Append(f[b[m].parent], b[m].txs)
    <3>1. CASE m <= k
      <4>1. m \in First(k)
        BY <3>1
      <4>2. g[m] = IF m = 0 THEN << >> ELSE Append(g[b[m].parent], b[m].txs)
        BY <2>1, <4>1
      <4>. QED  BY <2>2, <2>3, <2>4, <4>1, <4>2
    <3>2. CASE ~(m <= k)
      <4>1. m # 0
        BY <3>2
      <4>2. f[m] = Append(g[b[m].parent], b[m].txs)
        BY <3>2
      <4> HIDE DEF f
      <4>. QED  BY <2>2, <2>3, <4>1, <4>2
    <3>. QED  BY <3>1, <3>2
  <2>5. Good(f, k + 1)
    <3> HIDE DEF First
    <3>. QED  BY <2>4
  <2> HIDE DEF Good, f
  <2>. QED  BY <2>5
<1>3. M \in A
  <2> HIDE DEF A
  <2>. QED  BY <1>1, <1>2, NatSetInduction
<1>4. First(M) = D
  OBVIOUS
<1>. QED  BY <1>3, <1>4

\* The defining equation of ChainOf.
ChainEquation ==
    ChainOf = [ n \in Stored \cup {NoParent} |->
                  IF n = NoParent THEN << >> ELSE Append(ChainOf[batch[n].parent], batch[n].txs) ]

\* The batch table being a tree, ChainOf satisfies its definition.
LEMMA ChainDefined == L1Inv /\ Tree => ChainEquation
<1> SUFFICES ASSUME L1Inv, Tree PROVE ChainEquation
  OBVIOUS
<1> DEFINE D == Stored \cup {NoParent}
           P(g) == g = [ n \in D |-> IF n = NoParent THEN << >>
                                     ELSE Append(g[batch[n].parent], batch[n].txs) ]
<1>1. \E g : P(g)
  <2>1. Stored \subseteq 1..MaxSeqNo /\ MaxSeqNo \in Nat
    BY MaxSeqNoAssumption DEF L1Inv, L1TypeOK, StorageTypeOK, SeqNo
  <2>2. D \in SUBSET Nat /\ 0 \in D /\ \A m \in D : m <= MaxSeqNo
    BY <2>1 DEF NoParent
  <2>3. ASSUME NEW m \in D, m # 0 PROVE batch[m].parent \in D /\ batch[m].parent < m
    <3>1. CASE m = L2GenesisSeqNo
      BY <2>3, <3>1 DEF Tree, L2GenesisSeqNo, NoParent
    <3>2. CASE m # L2GenesisSeqNo
      BY <2>3, <3>2 DEF Tree, NoParent
    <3>. QED  BY <3>1, <3>2
  <2>4. \E g : g = [ m \in D |-> IF m = 0 THEN << >> ELSE Append(g[batch[m].parent], batch[m].txs) ]
    <3> HIDE DEF D
    <3>. QED  BY <2>1, <2>2, <2>3, ChainExists
  <2>. QED  BY <2>4 DEF NoParent
<1>2. ChainOf = CHOOSE g : P(g)
  BY DEF ChainOf
<1>. QED  BY <1>1, <1>2 DEF ChainEquation

\* The chain of a batch is that of its parent, and its transactions.
LEMMA ChainOfParent ==
    ASSUME L1Inv, Tree
    PROVE  /\ ChainOf[NoParent] = << >>
           /\ \A n \in Stored : ChainOf[n] = Append(ChainOf[batch[n].parent], batch[n].txs)
<1>1. ChainEquation
  BY ChainDefined
<1>2. NoParent \notin Stored
  BY MaxSeqNoAssumption DEF L1Inv, L1TypeOK, StorageTypeOK, SeqNo, NoParent
<1>. QED  BY <1>1, <1>2 DEF ChainEquation

\* Chains of batches that are stored stay as they are when the table changes.
LEMMA ChainsKept ==
    ASSUME L1Inv, Tree, L1Inv', Tree', Stored \subseteq Stored',
           \A m \in Stored : batch'[m] = batch[m]
    PROVE  \A n \in Stored \cup {NoParent} : ChainOf'[n] = ChainOf[n]
<1>1. ChainEquation /\ ChainEquation'
  <2>1. (L1Inv /\ Tree)' => ChainEquation'
    BY ChainDefined, PTL
  <2>. QED  BY <2>1, ChainDefined
<1> DEFINE D == Stored \cup {NoParent}
           A == { k \in Nat : \A n \in D : n <= k => ChainOf'[n] = ChainOf[n] }
<1>2. D \subseteq 0..MaxSeqNo /\ MaxSeqNo \in Nat /\ D \subseteq Nat /\ NoParent \notin Stored
  BY MaxSeqNoAssumption DEF L1Inv, L1TypeOK, StorageTypeOK, SeqNo, NoParent
<1>3. ChainOf[NoParent] = << >> /\ ChainOf'[NoParent] = << >>
  BY <1>1 DEF ChainEquation
<1>4. ASSUME NEW n \in Stored
      PROVE  /\ ChainOf[n] = Append(ChainOf[batch[n].parent], batch[n].txs)
             /\ ChainOf'[n] = Append(ChainOf'[batch[n].parent], batch[n].txs)
             /\ batch[n].parent \in D /\ batch[n].parent < n
  <2>1. n \in Stored' /\ batch'[n] = batch[n] /\ n # NoParent
    BY <1>2
  <2>2. ChainOf[n] = Append(ChainOf[batch[n].parent], batch[n].txs)
    BY <1>1, <2>1 DEF ChainEquation
  <2>3. ChainOf'[n] = Append(ChainOf'[batch'[n].parent], batch'[n].txs)
    BY <1>1, <2>1 DEF ChainEquation
  <2>4. CASE n = L2GenesisSeqNo
    BY <2>1, <2>2, <2>3, <2>4 DEF Tree, L2GenesisSeqNo, NoParent
  <2>5. CASE n # L2GenesisSeqNo
    BY <2>1, <2>2, <2>3, <2>5 DEF Tree
  <2>. QED  BY <2>4, <2>5
<1>5. 0 \in A
  <2>1. \A n \in D : n <= 0 => n = NoParent
    BY <1>2 DEF NoParent
  <2>. QED  BY <1>3, <2>1
<1>6. ASSUME NEW k \in Nat, k \in A PROVE k + 1 \in A
  <2>1. SUFFICES ASSUME NEW n \in D, n <= k + 1 PROVE ChainOf'[n] = ChainOf[n]
    OBVIOUS
  <2>2. CASE n = NoParent
    BY <1>3, <2>2
  <2>3. CASE n \in Stored
    <3>1. batch[n].parent \in D /\ batch[n].parent \in Nat /\ n \in Nat /\ batch[n].parent < n
      BY <1>2, <1>4, <2>3
    <3>2. batch[n].parent <= k
      BY <2>1, <3>1
    <3>3. ChainOf'[batch[n].parent] = ChainOf[batch[n].parent]
      BY <1>6, <3>1, <3>2
    <3>. QED  BY <1>4, <2>3, <3>3
  <2>. QED  BY <2>2, <2>3
<1>7. MaxSeqNo \in A
  <2> HIDE DEF A
  <2>. QED  BY <1>2, <1>5, <1>6, NatSetInduction
<1>. QED  BY <1>2, <1>7

\* A batch is added: the other chains stay, and its own ends with its transactions.
LEMMA ChainGrows ==
    ASSUME L1Inv, Tree, L1Inv', Tree', NEW n, Stored' = Stored \cup {n},
           \A m \in Stored : batch'[m] = batch[m],
           batch'[n].parent \in Stored \cup {NoParent}
    PROVE  /\ \A m \in Stored \cup {NoParent} : ChainOf'[m] = ChainOf[m]
           /\ ChainOf'[n] = Append(ChainOf[batch'[n].parent], batch'[n].txs)
<1>1. \A m \in Stored \cup {NoParent} : ChainOf'[m] = ChainOf[m]
  BY ChainsKept
<1>2. ChainEquation'
  <2>1. (L1Inv /\ Tree)' => ChainEquation'
    BY ChainDefined, PTL
  <2>. QED  BY <2>1
<1>3. n # NoParent /\ n \in Stored'
  BY MaxSeqNoAssumption DEF L1Inv, L1TypeOK, StorageTypeOK, SeqNo, NoParent
<1>4. ChainOf'[n] = Append(ChainOf'[batch'[n].parent], batch'[n].txs)
  BY <1>2, <1>3 DEF ChainEquation
<1>. QED  BY <1>1, <1>4

\* The duplicate of the orphan that was duplicated last.
LastDuplicate == IF handler.pending = NoParent THEN handler.currentHead ELSE handler.pending

(* What is known of chains: their length, and that the chain of the last       *)
(* duplicate holds the transactions of the orphan's, batch by batch.  This is  *)
(* what ExecutedOnce lacks to be inductive: the next duplicate is put on that  *)
(* chain, and was executed once on the orphan's.                               *)
Chained ==
    /\ L2GenesisSeqNo \in Stored =>
         batch[L2GenesisSeqNo].height = L2GenesisHeight /\ batch[L2GenesisSeqNo].txs = {}
    /\ \A n \in Stored : ChainOf[n] \in Seq(SUBSET Txs) /\ Len(ChainOf[n]) = batch[n].height + 1
    /\ ExecutedOnce
    /\ handler.prev # NoParent =>
         /\ handler.prev \in Stored
         /\ LastDuplicate \in Stored
         /\ ChainOf[LastDuplicate] = ChainOf[handler.prev]

\* The batch table stays, and so do the chains.
LEMMA ChainedSame ==
    ASSUME SInv, SInv', Chained, batch' = batch,
           handler'.prev # NoParent =>
             /\ handler'.prev \in Stored
             /\ LastDuplicate' \in Stored
             /\ ChainOf[LastDuplicate'] = ChainOf[handler'.prev]
    PROVE  Chained'
<1>1. Stored' = Stored
  BY DEF Stored
<1>2. \A n \in Stored \cup {NoParent} : ChainOf'[n] = ChainOf[n]
  BY <1>1, ChainsKept DEF SInv
<1>3. ASSUME NEW n \in Stored PROVE batch[n].parent \in Stored \cup {NoParent}
  BY DEF SInv, Tree
<1>4. ExecutedOnce'
  <2>1. ASSUME NEW n \in Stored PROVE ChainTxs(batch[n].parent)' = ChainTxs(batch[n].parent)
    BY <1>2, <1>3 DEF ChainTxs
  <2>. QED  BY <1>1, <2>1 DEF Chained, ExecutedOnce
<1>. QED  BY <1>1, <1>2, <1>4 DEF Chained

\* What produceBatch leaves in the tables.
LEMMA Produced ==
    ASSUME SInv, NEW n \in SeqNo, NEW l1Proof, NEW parent \in Stored, NEW txs,
           ProduceBatch(n, l1Proof, parent, txs)
    PROVE  /\ n \notin Stored /\ n # L2GenesisSeqNo /\ \A m \in Stored : m < n
           /\ Stored' = Stored \cup {n}
           /\ batch'[n].parent = parent /\ batch'[n].height = batch[parent].height + 1
           /\ batch'[n].l1Proof = l1Proof /\ batch'[n].txs = txs
           /\ \A m \in Stored : batch'[m] = batch[m]
           /\ UNCHANGED << env, blocks, canonicalBlocks, executedBatches, crit, crashes >>
           /\ canonicalBatches' = IF l1Proof \in canonicalBlocks THEN canonicalBatches \cup {n}
                                  ELSE canonicalBatches
<1> DEFINE r == [ parent |-> parent, height |-> batch[parent].height + 1,
                  l1Proof |-> l1Proof, txs |-> txs ]
<1>1. NextSeqNo(n) /\ StoreBatch(n, r) /\ UNCHANGED << env, crit, crashes >>
  BY DEF ProduceBatch
<1>2. /\ r.parent = parent /\ r.height = batch[parent].height + 1
      /\ r.l1Proof = l1Proof /\ r.txs = txs
  OBVIOUS
<1> HIDE DEF r
<1>3. /\ batch' = [ m \in Stored \cup {n} |-> IF m = n THEN r ELSE batch[m] ]
      /\ canonicalBatches' = IF l1Proof \in canonicalBlocks THEN canonicalBatches \cup {n}
                             ELSE canonicalBatches
      /\ UNCHANGED << blocks, canonicalBlocks, executedBatches >>
  BY <1>1, <1>2 DEF StoreBatch
<1>4. parent \in SeqNo /\ \A m \in Stored : m < n
  BY <1>1 DEF NextSeqNo, SInv, L1Inv, L1TypeOK, StorageTypeOK
<1>5. n \notin Stored /\ n # L2GenesisSeqNo
  BY <1>4, MaxSeqNoAssumption DEF SeqNo, L2GenesisSeqNo
<1>6. Stored' = Stored \cup {n} /\ batch'[n] = r /\ \A m \in Stored : batch'[m] = batch[m]
  BY <1>3, <1>5 DEF Stored
<1>. QED  BY <1>1, <1>2, <1>3, <1>4, <1>5, <1>6

\* A batch whose transactions are new on its parent's chain is added.
LEMMA ChainedNew ==
    ASSUME SInv, SInv', Chained, NEW n \in SeqNo, n \notin Stored, Stored' = Stored \cup {n},
           \A m \in Stored : batch'[m] = batch[m],
           NEW parent \in Stored \cup {NoParent}, NEW txs \in SUBSET Txs,
           batch'[n].parent = parent, batch'[n].txs = txs,
           batch'[n].height = IF parent = NoParent THEN L2GenesisHeight ELSE batch[parent].height + 1,
           n = L2GenesisSeqNo => parent = NoParent /\ txs = {},
           txs \cap ChainTxs(parent) = {},
           handler'.prev # NoParent =>
             /\ handler'.prev \in Stored
             /\ LastDuplicate' = n
             /\ ChainOf[handler'.prev] = Append(ChainOf[parent], txs)
    PROVE  Chained'
<1>1. /\ \A m \in Stored \cup {NoParent} : ChainOf'[m] = ChainOf[m]
      /\ ChainOf'[n] = Append(ChainOf[parent], txs)
  BY ChainGrows DEF SInv
<1>2. NoParent \notin Stored /\ ChainOf[NoParent] = << >>
  <2>1. NoParent \notin Stored
    BY MaxSeqNoAssumption DEF SInv, L1Inv, L1TypeOK, StorageTypeOK, SeqNo, NoParent
  <2>2. ChainOf[NoParent] = << >>
    BY ChainOfParent DEF SInv
  <2>. QED  BY <2>1, <2>2
<1>3. ChainOf[parent] \in Seq(SUBSET Txs) /\ Len(ChainOf[parent]) + 1 = batch'[n].height + 1
  <2>1. CASE parent = NoParent
    <3>1. << >> \in Seq(SUBSET Txs) /\ Len(<< >>) = 0
      OBVIOUS
    <3>. QED  BY <1>2, <2>1, <3>1 DEF L2GenesisHeight
  <2>2. CASE parent # NoParent
    BY <2>2 DEF Chained
  <2>. QED  BY <2>1, <2>2
<1>4. ChainOf'[n] \in Seq(SUBSET Txs) /\ Len(ChainOf'[n]) = batch'[n].height + 1
  <2> HIDE DEF ChainOf
  <2>. QED  BY <1>1, <1>3
<1>5. \A m \in Stored' : ChainOf'[m] \in Seq(SUBSET Txs) /\ Len(ChainOf'[m]) = batch'[m].height + 1
  BY <1>1, <1>4 DEF Chained
<1>6. (L2GenesisSeqNo \in Stored =>
         batch[L2GenesisSeqNo].height = L2GenesisHeight /\ batch[L2GenesisSeqNo].txs = {})'
  <2>1. CASE n = L2GenesisSeqNo
    BY <2>1
  <2>2. CASE n # L2GenesisSeqNo
    BY <2>2 DEF Chained
  <2>. QED  BY <2>1, <2>2
<1>7. ExecutedOnce'
  <2>1. \A m \in Stored : batch[m].parent \in Stored \cup {NoParent}
    BY DEF SInv, Tree
  <2>2. ASSUME NEW m \in Stored PROVE (batch[m].txs \cap ChainTxs(batch[m].parent) = {})'
    <3>1. batch[m].txs \cap ChainTxs(batch[m].parent) = {}
      BY DEF Chained, ExecutedOnce
    <3>2. batch'[m] = batch[m] /\ ChainOf'[batch[m].parent] = ChainOf[batch[m].parent]
      BY <1>1, <2>1
    <3>3. ChainTxs(batch[m].parent)' = ChainTxs(batch[m].parent)
      BY <3>2 DEF ChainTxs
    <3>. QED  BY <3>1, <3>2, <3>3
  <2>3. (batch[n].txs \cap ChainTxs(batch[n].parent) = {})'
    <3>1. ChainOf'[parent] = ChainOf[parent]
      BY <1>1
    <3>. QED  BY <3>1 DEF ChainTxs
  <2>. QED  BY <2>2, <2>3 DEF ExecutedOnce
<1>8. handler'.prev # NoParent =>
        /\ handler'.prev \in Stored'
        /\ LastDuplicate' \in Stored'
        /\ ChainOf'[LastDuplicate'] = ChainOf'[handler'.prev]
  BY <1>1
<1>. QED  BY <1>5, <1>6, <1>7, <1>8 DEF Chained

\* A turn of duplicateBatches gives up, or produces a duplicate.
LEMMA DuplicateCases ==
    ASSUME SInv, NEW o \in SeqNo, NEW n \in SeqNo, DuplicateBatch(o, n)
    PROVE  /\ NextOrphan(o) /\ o \in Stored /\ o \in handler.orphans
           /\ handler.pending = NoParent
           /\ \/ /\ UNCHANGED << env, l1Vars, crashes >> /\ handler' = Idle
                 /\ \/ ~Consecutive(o)
                    \/ handler.l1Proof \notin blocks
                    \/ DuplicateParent(o) \notin Stored
                    \/ batch[DuplicateParent(o)].l1Proof \notin blocks
              \/ /\ Consecutive(o) /\ DuplicateParent(o) \in Stored
                 /\ IsAncestor(handler.l1Proof, batch[DuplicateParent(o)].l1Proof, blocks)
                 /\ ProduceBatch(n, handler.l1Proof, DuplicateParent(o), batch[o].txs)
                 /\ handler' = [ handler EXCEPT !.pending = n, !.orphans = @ \ {o}, !.prev = o ]
<1>1. /\ NextOrphan(o) /\ o \in Stored /\ o \in handler.orphans
      /\ handler.pending = NoParent
  BY DEF DuplicateBatch, NextOrphan, SInv, HandlerOK
<1>2. CASE ~Consecutive(o)
  BY <1>1, <1>2 DEF DuplicateBatch, Crit, Stop
<1>3. CASE /\ Consecutive(o)
           /\ \/ handler.l1Proof \notin blocks
              \/ DuplicateParent(o) \notin Stored
              \/ batch[DuplicateParent(o)].l1Proof \notin blocks
  BY <1>1, <1>3 DEF DuplicateBatch
<1>4. CASE /\ Consecutive(o)
           /\ handler.l1Proof \in blocks
           /\ DuplicateParent(o) \in Stored
           /\ batch[DuplicateParent(o)].l1Proof \in blocks
  <2>1. IsAncestor(handler.l1Proof, batch[DuplicateParent(o)].l1Proof, blocks)
    BY <1>1, <1>4, DuplicateOnBranch
  <2>. QED  BY <1>1, <1>4, <2>1 DEF DuplicateBatch
<1>. QED  BY <1>2, <1>3, <1>4

\* The handler after a duplicate was produced.
LEMMA HandlerAfterDuplicate ==
    ASSUME handler \in Handler, NEW o \in SeqNo, NEW n \in SeqNo,
           handler' = [ handler EXCEPT !.pending = n, !.orphans = @ \ {o}, !.prev = o ]
    PROVE  /\ handler'.pending = n /\ handler'.orphans = handler.orphans \ {o} /\ handler'.prev = o
           /\ handler'.l1Proof = handler.l1Proof
           /\ LastDuplicate' = n /\ n # NoParent /\ o # NoParent
<1>1. n # NoParent /\ o # NoParent
  BY MaxSeqNoAssumption DEF SeqNo, NoParent
<1>2. /\ handler'.pending = n /\ handler'.orphans = handler.orphans \ {o} /\ handler'.prev = o
      /\ handler'.l1Proof = handler.l1Proof
  BY DEF Handler
<1>. QED  BY <1>1, <1>2 DEF LastDuplicate

\* A duplicate is put where its chain is the orphan's.
LEMMA DuplicateParentChain ==
    ASSUME SInv, Chained, NEW o \in Stored, handler.pending = NoParent,
           Consecutive(o), DuplicateParent(o) \in Stored
    PROVE  /\ batch[o].parent \in Stored
           /\ ChainOf[DuplicateParent(o)] = ChainOf[batch[o].parent]
           /\ ChainOf[o] = Append(ChainOf[DuplicateParent(o)], batch[o].txs)
<1>1. batch[o].parent \in Stored /\ ChainOf[DuplicateParent(o)] = ChainOf[batch[o].parent]
  <2>1. CASE handler.prev = NoParent
    BY <2>1 DEF DuplicateParent
  <2>2. CASE handler.prev # NoParent
    BY <2>2 DEF DuplicateParent, Consecutive, Chained, LastDuplicate
  <2>. QED  BY <2>1, <2>2
<1>2. ChainOf[o] = Append(ChainOf[batch[o].parent], batch[o].txs)
  BY ChainOfParent DEF SInv
<1>. QED  BY <1>1, <1>2

\* Every step keeps what is known of chains.
LEMMA NextChained == SInv /\ SInv' /\ Chained /\ mempool \subseteq Txs /\ [Next]_seqVars => Chained'
<1> SUFFICES ASSUME SInv, SInv', Chained, mempool \subseteq Txs, [Next]_seqVars PROVE Chained'
  OBVIOUS
<1>0. ASSUME batch' = batch, handler' \in {handler, Idle} PROVE Chained'
  <2>1. CASE handler' = Idle
    BY <1>0, <2>1, IdleOK, ChainedSame
  <2>2. CASE handler' = handler
    <3>1. LastDuplicate' = LastDuplicate
      BY <2>2 DEF LastDuplicate
    <3>. QED  BY <1>0, <2>2, <3>1, ChainedSame DEF Chained
  <2>. QED  BY <1>0, <2>1, <2>2
<1>1. ASSUME NEW t, SubmitTx(t) PROVE Chained'
  BY <1>0, <1>1 DEF SubmitTx, l1Vars, storageVars
<1>2. ASSUME NEW h \in HeadBlocks, InitGenesis(h) PROVE Chained'
  <2>1. CASE L2GenesisSeqNo \in Stored
    BY <1>0, <1>2, <2>1 DEF InitGenesis, Crit, Stop, l1Vars, storageVars
  <2>2. CASE L2GenesisSeqNo \notin Stored
    <3> DEFINE r == [ parent |-> NoParent, height |-> L2GenesisHeight, l1Proof |-> h, txs |-> {} ]
    <3>1. StoreBatch(L2GenesisSeqNo, r) /\ handler' = [ Idle EXCEPT !.pending = L2GenesisSeqNo ]
      BY <1>2, <2>2 DEF InitGenesis
    <3>2. r.parent = NoParent /\ r.height = L2GenesisHeight /\ r.txs = {}
      OBVIOUS
    <3> HIDE DEF r
    <3>3. batch' = [ m \in Stored \cup {L2GenesisSeqNo} |-> IF m = L2GenesisSeqNo THEN r ELSE batch[m] ]
      BY <3>1 DEF StoreBatch
    <3>4. /\ Stored' = Stored \cup {L2GenesisSeqNo} /\ batch'[L2GenesisSeqNo] = r
          /\ \A m \in Stored : batch'[m] = batch[m]
      BY <2>2, <3>3 DEF Stored
    <3>5. L2GenesisSeqNo \in SeqNo
      BY MaxSeqNoAssumption DEF SeqNo, L2GenesisSeqNo
    <3>6. handler'.prev = NoParent
      BY <3>1, IdleOK DEF Handler
    <3>. QED  BY <2>2, <3>2, <3>4, <3>5, <3>6, ChainedNew
  <2>. QED  BY <2>1, <2>2
<1>3. ASSUME NEW h \in HeadBlocks, NEW m \in HeadBatches, NEW n \in 1..env.batches,
             NEW s \in SUBSET mempool, CreateNewHeadBatch(h, m, n, s)
      PROVE  Chained'
  <2>1. m \in Stored /\ n \in SeqNo
    BY SequencerAssumption, MaxSeqNoAssumption
    DEF SInv, Environment, SeqNo, L1Inv, L1TypeOK, StorageTypeOK, HeadBatches, CanonicalExecuted
  <2>2. /\ ProduceBatch(n, h, m, s) /\ s \cap ChainTxs(m) = {}
        /\ handler' = [ Idle EXCEPT !.pending = n, !.selected = s ]
    BY <1>3 DEF CreateNewHeadBatch
  <2>3. /\ n \notin Stored /\ n # L2GenesisSeqNo /\ Stored' = Stored \cup {n}
        /\ batch'[n].parent = m /\ batch'[n].height = batch[m].height + 1 /\ batch'[n].txs = s
        /\ \A k \in Stored : batch'[k] = batch[k]
    BY <2>1, <2>2, Produced
  <2>4. handler'.prev = NoParent /\ m # NoParent
    BY <2>1, <2>2, IdleOK, MaxSeqNoAssumption
    DEF Handler, SInv, L1Inv, L1TypeOK, StorageTypeOK, SeqNo, NoParent
  <2>5. s \in SUBSET Txs
    OBVIOUS
  <2>. QED  BY <2>1, <2>2, <2>3, <2>4, <2>5, ChainedNew
<1>4. CASE FinishBatch
  <2>1. batch' = batch /\ handler.pending # NoParent
    BY <1>4 DEF FinishBatch, StoreExecutedBatch
  <2>2. CASE handler.orphans = {}
    BY <1>0, <1>4, <2>1, <2>2 DEF FinishBatch
  <2>3. CASE handler.orphans # {}
    <3>1. handler' = [ handler EXCEPT !.pending = NoParent, !.currentHead = handler.pending ]
      BY <1>4, <2>3 DEF FinishBatch
    <3>2. handler'.prev = handler.prev /\ LastDuplicate' = LastDuplicate
      BY <2>1, <3>1 DEF SInv, Handler, LastDuplicate
    <3>. QED  BY <2>1, <3>2, ChainedSame DEF Chained
  <2>. QED  BY <2>2, <2>3
<1>5. ASSUME NEW b, NEW fork, SubmitL1Block(b, fork) \/ SubmitL1BlockFails(b, fork) PROVE Chained'
  <2>1. batch' = batch
    BY <1>5 DEF SubmitL1Block, SubmitL1BlockFails, Process, ProcessFails, TryAndInsertBlock, StoreBlock
  <2>2. handler = Idle
    BY <1>5 DEF SubmitL1Block, SubmitL1BlockFails
  <2>3. handler'.prev = NoParent
    <3>1. \/ handler' = Idle
          \/ handler' = [ Idle EXCEPT !.l1Proof = Parent(b),
                                      !.orphans = BatchesByBlocks(fork.nonCanonicalPath) ]
      BY <1>5, <2>2 DEF SubmitL1Block, SubmitL1BlockFails
    <3>. QED  BY <3>1, IdleOK DEF Handler
  <2>. QED  BY <2>1, <2>3, ChainedSame
<1>6. ASSUME NEW o \in SeqNo, NEW n \in SeqNo, DuplicateBatch(o, n) PROVE Chained'
  <2>1. CASE UNCHANGED << env, l1Vars, crashes >> /\ handler' = Idle
    BY <1>0, <2>1 DEF l1Vars, storageVars
  <2>2. CASE /\ Consecutive(o) /\ DuplicateParent(o) \in Stored
             /\ ProduceBatch(n, handler.l1Proof, DuplicateParent(o), batch[o].txs)
             /\ handler' = [ handler EXCEPT !.pending = n, !.orphans = @ \ {o}, !.prev = o ]
    <3>1. o \in Stored /\ handler.pending = NoParent
      BY <1>6, DuplicateCases
    <3>2. /\ n \notin Stored /\ n # L2GenesisSeqNo /\ Stored' = Stored \cup {n}
          /\ batch'[n].parent = DuplicateParent(o) /\ batch'[n].txs = batch[o].txs
          /\ batch'[n].height = batch[DuplicateParent(o)].height + 1
          /\ \A k \in Stored : batch'[k] = batch[k]
      BY <2>2, Produced
    <3>3. handler'.prev = o /\ LastDuplicate' = n
      BY <2>2, HandlerAfterDuplicate DEF SInv
    <3>4. /\ ChainOf[DuplicateParent(o)] = ChainOf[batch[o].parent]
          /\ ChainOf[o] = Append(ChainOf[DuplicateParent(o)], batch[o].txs)
      BY <2>2, <3>1, DuplicateParentChain
    <3>5. batch[o].txs \cap ChainTxs(DuplicateParent(o)) = {}
      BY <3>1, <3>4 DEF Chained, ExecutedOnce, ChainTxs
    <3>6. DuplicateParent(o) # NoParent
      BY <2>2, MaxSeqNoAssumption DEF SInv, L1Inv, L1TypeOK, StorageTypeOK, SeqNo, NoParent
    <3>7. batch[o].txs \in SUBSET Txs
      <4>1. batch[o] \in Batch
        BY <3>1 DEF SInv, L1Inv, L1TypeOK, StorageTypeOK
      <4>. QED  BY <4>1 DEF Batch
    <3>. QED  BY <2>2, <3>1, <3>2, <3>3, <3>4, <3>5, <3>6, <3>7, ChainedNew
  <2>. QED  BY <1>6, <2>1, <2>2, DuplicateCases
<1>7. CASE Crash
  BY <1>0, <1>7 DEF Crash, Stop, l1Vars, storageVars
<1>8. CASE UNCHANGED seqVars
  BY <1>0, <1>8 DEF seqVars, l1Vars, storageVars
<1>. QED  BY <1>1, <1>2, <1>3, <1>4, <1>5, <1>6, <1>7, <1>8 DEF Next

\* There is no chain to begin with.
LEMMA InitChained == Init => Chained
<1> SUFFICES ASSUME Init PROVE Chained
  OBVIOUS
<1>1. Stored = {} /\ handler = Idle
  BY DEF Init, L1Init, StorageInit, Stored
<1>. QED  BY <1>1, IdleOK DEF Chained, ExecutedOnce

(* Chains of batches have the length their height says, and no transaction     *)
(* twice, whatever the environment does.                                       *)
THEOREM ChainInvariance == Spec => []Chained
BY InitChained, NextChained, SequencerInvariance, MempoolTyped, PTL DEF Spec

(* No transaction is executed twice on one chain of batches, through forks,    *)
(* failures and crashes, though orphaned batches are produced again.           *)
THEOREM ExecutedOnceHolds == Spec => []ExecutedOnce
<1>1. Chained => ExecutedOnce
  BY DEF Chained
<1>. QED  BY <1>1, ChainInvariance, PTL

-------------------------------------------------------------------------------
\* The sequencer when L1 forks are all that disturbs it.

\* Every ancestor of a stored block is stored.
L1Complete == \A b \in blocks : \A k \in 0..Len(b) : Upto(b, k) \in blocks

StartsWith(t, s) == s = SubSeq(t, 1, Len(s))

(* The canonical batches are one branch: sequence numbers, heights, L1 proofs  *)
(* and chains put them in the same order.                                      *)
OneBranch ==
    \A m, n \in canonicalBatches :
        /\ m < n => batch[m].height < batch[n].height
        /\ batch[m].height <= batch[n].height =>
             batch[m].l1Proof \preceq batch[n].l1Proof /\ StartsWith(ChainOf[n], ChainOf[m])

(* The orphans continue the canonical branch, without a gap: from the last of  *)
(* them that was duplicated, or else from where the L1 forked.                 *)
OrphansOnTop ==
    /\ L2GenesisSeqNo \notin handler.orphans
    /\ \A m, n \in handler.orphans : m < n => batch[m].height < batch[n].height
    /\ \A n \in canonicalBatches, o \in handler.orphans : batch[n].height < batch[o].height
    /\ handler.orphans # {} =>
         /\ handler.l1Proof \in canonicalBlocks
         /\ IF handler.prev = NoParent
            THEN \A o \in handler.orphans : batch[o].parent \in canonicalBatches \cup handler.orphans
            ELSE /\ LastDuplicate \in canonicalBatches
                 /\ \A o \in handler.orphans : batch[o].parent \in handler.orphans \cup {handler.prev}

\* Every chain ever produced is canonical, or is the chain of a batch still to be duplicated.
ChainsSurvive ==
    \A n \in Stored : \E v \in canonicalBatches \cup handler.orphans : ChainOf[v] = ChainOf[n]

\* No check has failed and no call was cut short.
NothingFailed ==
    /\ crit = {} /\ crashes = 0
    /\ L1Complete
    /\ \A n \in Stored : batch[n].l1Proof \in blocks
    /\ Stored \ {handler.pending} \subseteq executedBatches
    /\ Stored # {} => L2GenesisSeqNo \in canonicalBatches

\* The inductive invariant of the undisturbed sequencer.
UInv == NothingFailed /\ OneBranch /\ OrphansOnTop /\ ChainsSurvive

\* A sequence starts with itself, and with what it started with before it grew.
LEMMA StartsWithBasics ==
    ASSUME NEW S, NEW t \in Seq(S), NEW e \in S
    PROVE  /\ StartsWith(t, t)
           /\ \A s \in Seq(S) : StartsWith(t, s) /\ Len(s) <= Len(t) => StartsWith(Append(t, e), s)
<1>1. SubSeq(t, 1, Len(t)) = t
  OBVIOUS
<1>2. ASSUME NEW s \in Seq(S), s = SubSeq(t, 1, Len(s)), Len(s) <= Len(t)
      PROVE  s = SubSeq(Append(t, e), 1, Len(s))
  <2>1. Len(s) \in Nat /\ Len(t) \in Nat /\ Len(Append(t, e)) = Len(t) + 1 /\ Append(t, e) \in Seq(S)
    OBVIOUS
  <2> DEFINE u == SubSeq(Append(t, e), 1, Len(s))
  <2>2. Len(u) = Len(s) /\ u \in Seq(S)
    BY <1>2, <2>1
  <2>3. ASSUME NEW i \in 1..Len(s) PROVE u[i] = s[i]
    <3>1. u[i] = Append(t, e)[i] /\ SubSeq(t, 1, Len(s))[i] = t[i]
      BY <1>2, <2>1
    <3>2. Append(t, e)[i] = t[i]
      BY <1>2, <2>1
    <3>. QED  BY <1>2, <3>1, <3>2
  <2> HIDE DEF u
  <2>4. u = s
    BY <2>1, <2>2, <2>3
  <2>. QED  BY <2>4 DEF u
<1>. QED  BY <1>1, <1>2 DEF StartsWith

\* The columns of a batch have their types.
LEMMA BatchTyped ==
    ASSUME SInv, NEW n \in Stored
    PROVE  batch[n].height \in Nat /\ batch[n].l1Proof \in L1Block /\ n \in SeqNo /\ n \in Nat
           /\ n # NoParent /\ batch[n].txs \in SUBSET Txs
<1>1. batch[n] \in Batch /\ n \in SeqNo
  BY DEF SInv, L1Inv, L1TypeOK, StorageTypeOK
<1>2. n \in Nat /\ n # NoParent
  BY <1>1, MaxSeqNoAssumption DEF SeqNo, NoParent
<1>. QED  BY <1>1, <1>2 DEF Batch

\* A batch is put on the top of the canonical branch.
LEMMA BranchGrows ==
    ASSUME SInv, SInv', Chained, OneBranch, NEW n \in SeqNo, n \notin Stored,
           \A m \in Stored : m < n, Stored' = Stored \cup {n},
           \A m \in Stored : batch'[m] = batch[m],
           canonicalBatches' = canonicalBatches \cup {n},
           NEW p \in canonicalBatches, batch'[n].parent = p,
           batch'[n].height = batch[p].height + 1,
           \A c \in canonicalBatches : batch[c].height <= batch[p].height
    PROVE  OneBranch' /\ \A c \in canonicalBatches : batch[c].height < batch'[n].height
<1>1. canonicalBatches \subseteq Stored
  BY DEF SInv, L1Inv, L1TypeOK, StorageTypeOK
<1>2. /\ \A m \in Stored : ChainOf'[m] = ChainOf[m]
      /\ ChainOf'[n] = Append(ChainOf[p], batch'[n].txs)
  BY <1>1, ChainGrows DEF SInv
<1>3. \A c \in Stored : batch[c].height \in Nat /\ batch[c].l1Proof \in L1Block /\ c \in Nat
  BY BatchTyped
<1>4. n \in Stored' /\ batch'[n].l1Proof \in L1Block /\ batch'[n].txs \in SUBSET Txs
  <2>1. batch'[n] \in Batch
    BY DEF SInv, L1Inv, L1TypeOK, StorageTypeOK
  <2>. QED  BY <2>1 DEF Batch
<1>5. ASSUME NEW c \in canonicalBatches PROVE batch[c].height < batch'[n].height
  BY <1>1, <1>3
<1>6. batch[p].l1Proof \preceq batch'[n].l1Proof
  <2>1. n # L2GenesisSeqNo
    BY <1>1, MaxSeqNoAssumption DEF SInv, L1Inv, L1TypeOK, StorageTypeOK, SeqNo, L2GenesisSeqNo
  <2>2. IsAncestor(batch'[n].l1Proof, batch'[p].l1Proof, blocks')
    BY <1>4, <2>1 DEF SInv, Tree, OnParentBranch
  <2>. QED  BY <1>1, <2>2 DEF IsAncestor
<1>7. ASSUME NEW c \in canonicalBatches
      PROVE  batch[c].l1Proof \preceq batch'[n].l1Proof /\ StartsWith(ChainOf'[n], ChainOf[c])
  <2>1. batch[c].l1Proof \preceq batch[p].l1Proof /\ StartsWith(ChainOf[p], ChainOf[c])
    BY DEF OneBranch
  <2>2. batch[c].l1Proof \preceq batch'[n].l1Proof
    BY <1>1, <1>3, <1>4, <1>6, <2>1, PrecTransitive
  <2>3. /\ ChainOf[c] \in Seq(SUBSET Txs) /\ ChainOf[p] \in Seq(SUBSET Txs)
        /\ Len(ChainOf[c]) = batch[c].height + 1 /\ Len(ChainOf[p]) = batch[p].height + 1
    BY <1>1 DEF Chained
  <2>4. Len(ChainOf[c]) <= Len(ChainOf[p])
    BY <1>1, <1>3, <2>3
  <2>5. StartsWith(Append(ChainOf[p], batch'[n].txs), ChainOf[c])
    BY <1>4, <2>1, <2>3, <2>4, StartsWithBasics
  <2>. QED  BY <1>2, <2>2, <2>5
<1>8. batch'[n].l1Proof \preceq batch'[n].l1Proof /\ StartsWith(ChainOf'[n], ChainOf'[n])
  <2>1. ChainOf[p] \in Seq(SUBSET Txs)
    BY <1>1 DEF Chained
  <2>2. ChainOf'[n] \in Seq(SUBSET Txs)
    BY <1>2, <1>4, <2>1
  <2>. QED  BY <1>4, <2>2, PrecBasics, StartsWithBasics
<1>9. ASSUME NEW m \in canonicalBatches', NEW k \in canonicalBatches'
      PROVE  /\ m < k => batch'[m].height < batch'[k].height
             /\ batch'[m].height <= batch'[k].height =>
                  /\ batch'[m].l1Proof \preceq batch'[k].l1Proof
                  /\ StartsWith(ChainOf'[k], ChainOf'[m])
  <2>1. CASE m \in canonicalBatches /\ k \in canonicalBatches
    BY <1>1, <1>2, <2>1 DEF OneBranch
  <2>2. CASE m \in canonicalBatches /\ k = n
    <3>1. batch'[m] = batch[m] /\ ChainOf'[m] = ChainOf[m]
      BY <1>1, <1>2, <2>2
    <3>. QED  BY <1>5, <1>7, <2>2, <3>1
  <2>3. CASE m = n /\ k \in canonicalBatches
    <3>1. batch'[k] = batch[k] /\ k < n /\ k \in Nat /\ batch[k].height < batch'[n].height
      BY <1>1, <1>3, <1>5, <2>3
    <3>2. n \in Nat /\ batch[k].height \in Nat /\ batch'[n].height \in Nat
      BY <1>1, <1>3, <2>3, MaxSeqNoAssumption DEF SeqNo
    <3>3. ~(n < k) /\ ~(batch'[n].height <= batch[k].height)
      BY <3>1, <3>2
    <3>. QED  BY <2>3, <3>1, <3>3
  <2>4. CASE m = n /\ k = n
    <3>1. ~(n < n)
      BY MaxSeqNoAssumption DEF SeqNo
    <3>. QED  BY <1>8, <2>4, <3>1
  <2>. QED  BY <2>1, <2>2, <2>3, <2>4
<1>. QED  BY <1>5, <1>9 DEF OneBranch, StartsWith

\* A canonical batch that is executed makes ReadCurrentHeadBatch succeed.
LEMMA HeadBatchExists ==
    ASSUME SInv, OneBranch, CanonicalExecuted # {}
    PROVE  HeadBatches # {}
<1>1. CanonicalExecuted \subseteq canonicalBatches /\ CanonicalExecuted \subseteq Stored
  BY DEF SInv, L1Inv, L1TypeOK, StorageTypeOK, CanonicalExecuted
<1>2. MaxSeqNo \in Nat /\ CanonicalExecuted \in SUBSET (0..MaxSeqNo)
  BY <1>1, MaxSeqNoAssumption DEF SInv, L1Inv, L1TypeOK, StorageTypeOK, SeqNo
<1>3. PICK x \in CanonicalExecuted : \A y \in CanonicalExecuted : y <= x
  BY <1>2, GreatestNumber
<1>4. ASSUME NEW y \in CanonicalExecuted PROVE batch[y].height <= batch[x].height
  <2>1. y \in Nat /\ x \in Nat /\ batch[y].height \in Nat /\ batch[x].height \in Nat
    BY <1>1, BatchTyped
  <2>2. CASE y = x
    BY <2>1, <2>2
  <2>3. CASE y < x
    <3>1. batch[y].height < batch[x].height
      BY <1>1, <2>3 DEF OneBranch
    <3>. QED  BY <2>1, <3>1
  <2>. QED  BY <1>3, <2>1, <2>2, <2>3
<1>. QED  BY <1>4 DEF HeadBatches

\* Between calls every batch is executed, and the head batch is the top of the branch.
LEMMA IdleExecuted ==
    ASSUME SInv, UInv, handler = Idle
    PROVE  /\ Stored \subseteq executedBatches
           /\ CanonicalExecuted = canonicalBatches
           /\ handler.orphans = {}
<1>1. handler.pending = NoParent /\ handler.orphans = {}
  BY IdleOK
<1>2. Stored \subseteq executedBatches
  BY <1>1, BatchTyped DEF UInv, NothingFailed
<1>3. canonicalBatches \subseteq Stored
  BY DEF SInv, L1Inv, L1TypeOK, StorageTypeOK
<1>. QED  BY <1>1, <1>2, <1>3 DEF CanonicalExecuted

\* The tables stay, and so does the handler.
LEMMA UndisturbedSame ==
    ASSUME SInv, SInv', UInv, UNCHANGED << l1Vars, handler, crit, crashes >>
    PROVE  UInv'
<1>1. /\ blocks' = blocks /\ canonicalBlocks' = canonicalBlocks /\ batch' = batch
      /\ canonicalBatches' = canonicalBatches /\ executedBatches' = executedBatches
      /\ Stored' = Stored /\ handler' = handler /\ crit' = crit /\ crashes' = crashes
      /\ LastDuplicate' = LastDuplicate
  BY DEF l1Vars, storageVars, Stored, LastDuplicate
<1>2. \A n \in Stored : ChainOf'[n] = ChainOf[n]
  BY <1>1, ChainsKept DEF SInv
<1>3. canonicalBatches \subseteq Stored /\ handler.orphans \subseteq Stored
  BY DEF SInv, L1Inv, L1TypeOK, StorageTypeOK, HandlerOK
<1>4. NothingFailed'
  BY <1>1 DEF UInv, NothingFailed, L1Complete
<1>5. OneBranch'
  BY <1>1, <1>2, <1>3 DEF UInv, OneBranch, StartsWith
<1>6. OrphansOnTop'
  BY <1>1 DEF UInv, OrphansOnTop
<1>7. ChainsSurvive'
  BY <1>1, <1>2, <1>3 DEF UInv, ChainsSurvive
<1>. QED  BY <1>4, <1>5, <1>6, <1>7 DEF UInv

\* The genesis batch is produced once.
LEMMA UndisturbedGenesis ==
    ASSUME SInv, SInv', Chained', UInv, NEW h \in HeadBlocks, InitGenesis(h)
    PROVE  UInv'
<1>1. handler = Idle /\ HeadBatches = {}
  BY DEF InitGenesis
<1>2. Stored = {} /\ L2GenesisSeqNo \notin Stored /\ canonicalBatches = {}
  <2>1. canonicalBatches = {}
    BY <1>1, IdleExecuted, HeadBatchExists DEF UInv
  <2>. QED  BY <2>1 DEF UInv, NothingFailed
<1> DEFINE r == [ parent |-> NoParent, height |-> L2GenesisHeight, l1Proof |-> h, txs |-> {} ]
<1>3. /\ StoreBatch(L2GenesisSeqNo, r)
      /\ handler' = [ Idle EXCEPT !.pending = L2GenesisSeqNo ]
      /\ UNCHANGED << crit, crashes >>
  BY <1>2 DEF InitGenesis
<1>4. r.l1Proof = h /\ h \in canonicalBlocks /\ h \in blocks
  BY DEF HeadBlocks, SInv, L1Inv, L1TypeOK, StorageTypeOK
<1> HIDE DEF r
<1>5. /\ batch' = [ m \in Stored \cup {L2GenesisSeqNo} |-> IF m = L2GenesisSeqNo THEN r ELSE batch[m] ]
      /\ canonicalBatches' = canonicalBatches \cup {L2GenesisSeqNo}
      /\ UNCHANGED << blocks, canonicalBlocks, executedBatches >>
  BY <1>3, <1>4 DEF StoreBatch
<1>6. /\ Stored' = {L2GenesisSeqNo} /\ canonicalBatches' = {L2GenesisSeqNo}
      /\ batch'[L2GenesisSeqNo] = r
  BY <1>2, <1>5 DEF Stored
<1>7. handler'.orphans = {} /\ handler'.pending = L2GenesisSeqNo
  BY <1>3, IdleOK DEF Handler
<1>8. NothingFailed'
  BY <1>3, <1>4, <1>5, <1>6, <1>7 DEF UInv, NothingFailed, L1Complete
<1>9. OneBranch'
  <2>1. ~(L2GenesisSeqNo < L2GenesisSeqNo)
    BY DEF L2GenesisSeqNo
  <2>2. h \preceq h
    BY <1>4, PrecBasics DEF SInv, L1Inv, L1TypeOK, StorageTypeOK
  <2>3. ChainOf'[L2GenesisSeqNo] \in Seq(SUBSET Txs)
    BY <1>6 DEF Chained
  <2>4. StartsWith(ChainOf'[L2GenesisSeqNo], ChainOf'[L2GenesisSeqNo])
    BY <2>3, StartsWithBasics
  <2>. QED  BY <1>4, <1>6, <2>1, <2>2, <2>4 DEF OneBranch, StartsWith
<1>10. OrphansOnTop'
  BY <1>7 DEF OrphansOnTop
<1>11. ChainsSurvive'
  BY <1>6 DEF ChainsSurvive
<1>. QED  BY <1>8, <1>9, <1>10, <1>11 DEF UInv

\* A batch is created on the head batch.
LEMMA UndisturbedCreate ==
    ASSUME SInv, SInv', Chained, UInv, NEW h \in HeadBlocks, NEW m \in HeadBatches,
           NEW n \in SeqNo, NEW s, CreateNewHeadBatch(h, m, n, s)
    PROVE  UInv'
<1>1. /\ handler = Idle /\ ProduceBatch(n, h, m, s)
      /\ handler' = [ Idle EXCEPT !.pending = n, !.selected = s ]
  BY DEF CreateNewHeadBatch
<1>2. /\ m \in canonicalBatches /\ \A c \in canonicalBatches : batch[c].height <= batch[m].height
      /\ Stored \subseteq executedBatches /\ canonicalBatches \subseteq Stored
      /\ handler.orphans = {}
  BY <1>1, IdleExecuted DEF HeadBatches, SInv, L1Inv, L1TypeOK, StorageTypeOK
<1>3. h \in canonicalBlocks /\ h \in blocks
  BY DEF HeadBlocks, SInv, L1Inv, L1TypeOK, StorageTypeOK
<1>4. /\ n \notin Stored /\ (\A k \in Stored : k < n) /\ Stored' = Stored \cup {n}
      /\ batch'[n].parent = m /\ batch'[n].height = batch[m].height + 1 /\ batch'[n].l1Proof = h
      /\ \A k \in Stored : batch'[k] = batch[k]
      /\ UNCHANGED << blocks, canonicalBlocks, executedBatches, crit, crashes >>
      /\ canonicalBatches' = canonicalBatches \cup {n}
  BY <1>1, <1>2, <1>3, Produced
<1>5. handler'.orphans = {} /\ handler'.pending = n
  BY <1>1, IdleOK DEF Handler
<1>6. OneBranch'
  BY <1>2, <1>4, BranchGrows DEF UInv
<1>7. NothingFailed'
  BY <1>2, <1>3, <1>4, <1>5 DEF UInv, NothingFailed, L1Complete
<1>8. OrphansOnTop'
  BY <1>5 DEF OrphansOnTop
<1>9. ChainsSurvive'
  <2>1. \A k \in Stored : ChainOf'[k] = ChainOf[k]
    BY <1>4, ChainsKept DEF SInv
  <2>2. \A k \in Stored : \E v \in canonicalBatches : ChainOf[v] = ChainOf[k]
    BY <1>2 DEF UInv, ChainsSurvive
  <2>3. ASSUME NEW k \in Stored' PROVE \E v \in canonicalBatches' : ChainOf'[v] = ChainOf'[k]
    <3>1. CASE k = n
      BY <1>4, <3>1
    <3>2. CASE k \in Stored
      BY <1>2, <1>4, <2>1, <2>2, <3>2
    <3>. QED  BY <1>4, <3>1, <3>2
  <2>. QED  BY <2>3 DEF ChainsSurvive
<1>. QED  BY <1>6, <1>7, <1>8, <1>9 DEF UInv

\* The batch in progress is recorded as executed.
LEMMA UndisturbedFinish ==
    ASSUME SInv, SInv', UInv, FinishBatch
    PROVE  UInv'
<1>1. /\ handler.pending # NoParent /\ executedBatches' = executedBatches \cup {handler.pending}
      /\ UNCHANGED << blocks, canonicalBlocks, batch, canonicalBatches, crit, crashes >>
  BY DEF FinishBatch, StoreExecutedBatch
<1>2. Stored' = Stored /\ Stored \subseteq executedBatches'
  BY <1>1 DEF Stored, UInv, NothingFailed
<1>3. \A n \in Stored : ChainOf'[n] = ChainOf[n]
  BY <1>1, <1>2, ChainsKept DEF SInv
<1>4. canonicalBatches \subseteq Stored /\ handler.orphans \subseteq Stored
  BY DEF SInv, L1Inv, L1TypeOK, StorageTypeOK, HandlerOK
<1>5. NothingFailed'
  BY <1>1, <1>2 DEF UInv, NothingFailed, L1Complete
<1>6. OneBranch'
  BY <1>1, <1>3, <1>4 DEF UInv, OneBranch, StartsWith
<1>7. /\ handler'.orphans = handler.orphans
      /\ handler.orphans # {} => /\ handler'.l1Proof = handler.l1Proof /\ handler'.prev = handler.prev
                                 /\ LastDuplicate' = LastDuplicate
  <2>1. CASE handler.orphans = {}
    BY <2>1, IdleOK DEF FinishBatch
  <2>2. CASE handler.orphans # {}
    BY <1>1, <2>2 DEF FinishBatch, SInv, Handler, LastDuplicate
  <2>. QED  BY <2>1, <2>2
<1>8. OrphansOnTop'
  BY <1>1, <1>7 DEF UInv, OrphansOnTop
<1>9. ChainsSurvive'
  BY <1>1, <1>2, <1>3, <1>4, <1>7 DEF UInv, ChainsSurvive
<1>. QED  BY <1>5, <1>6, <1>8, <1>9 DEF UInv

\* The blocks a fork leaves behind are the path from its common ancestor.
LEMMA LCAPath ==
    ASSUME NEW b, NEW h, NEW stored, NEW fork \in LCA(b, h, stored), fork.nonCanonicalPath # {}
    PROVE  \E c \in stored : ForkPath(h, c) \subseteq stored /\ fork.nonCanonicalPath = ForkPath(h, c)
<1>1. CASE Height(b) = 0 \/ Height(h) = 0
  BY <1>1 DEF LCA
<1>2. CASE ~(Height(b) = 0 \/ Height(h) = 0)
  BY <1>2 DEF LCA
<1>. QED  BY <1>1, <1>2

\* The blocks a fork leaves behind were canonical.
LEMMA LeftBehindCanonical ==
    ASSUME L1Inv, NEW b \in L1Block, NEW fork \in IngestBlock(b)
    PROVE  fork.nonCanonicalPath \subseteq canonicalBlocks
<1>1. blocks \subseteq L1Block /\ canonicalBlocks \subseteq blocks
  BY DEF L1Inv, L1TypeOK, StorageTypeOK
<1>2. CASE fork = NoFork
  BY <1>2 DEF NoFork
<1>3. CASE fork # NoFork
  <2>1. PICK h \in HeadBlocks : fork \in LCA(b, h, blocks)
    BY <1>3 DEF IngestBlock
  <2>2. h \in blocks /\ h \in L1Block
    BY <1>1 DEF HeadBlocks
  <2>3. PICK g \in blocks : IsTip(g)
    BY <2>2 DEF L1Inv
  <2>4. g = h
    BY <1>1, <2>1, <2>3, TipIsHead
  <2>5. CASE fork.nonCanonicalPath = {}
    BY <2>5
  <2>6. CASE fork.nonCanonicalPath # {}
    <3>1. PICK c \in blocks : /\ ForkPath(h, c) \subseteq blocks
                              /\ fork.nonCanonicalPath = ForkPath(h, c)
      BY <2>1, <2>6, LCAPath
    <3>2. ASSUME NEW x \in ForkPath(h, c) PROVE x \preceq h
      <4>1. PICK k \in (Len(c) + 1)..Len(h) : x = Upto(h, k)
        BY DEF ForkPath
      <4>2. Len(c) \in Nat /\ Len(h) \in Nat
        BY <1>1, <2>2, BlockIsSeq
      <4>. QED  BY <2>2, <4>1, <4>2, UptoPrec
    <3>. QED  BY <2>3, <2>4, <3>1, <3>2 DEF IsTip
  <2>. QED  BY <2>5, <2>6
<1>. QED  BY <1>2, <1>3

\* The parent of a canonical batch is canonical.
LEMMA ParentCanonical ==
    ASSUME SInv, NothingFailed, NEW o \in canonicalBatches, o # L2GenesisSeqNo
    PROVE  batch[o].parent \in canonicalBatches
<1> DEFINE p == batch[o].parent
<1>1. /\ blocks \subseteq L1Block /\ o \in Stored /\ BatchFlagsAgree
      /\ \A n \in Stored : batch[n].l1Proof \in blocks
  BY DEF SInv, L1Inv, L1TypeOK, StorageTypeOK, NothingFailed
<1>2. p \in Stored /\ batch[p].l1Proof \preceq batch[o].l1Proof
  BY <1>1 DEF SInv, Tree, OnParentBranch, IsAncestor
<1>3. PICK h \in blocks : IsTip(h)
  BY <1>1 DEF SInv, L1Inv
<1>4. batch[o].l1Proof \preceq h
  BY <1>1, <1>3 DEF BatchFlagsAgree, IsTip
<1>5. batch[p].l1Proof \preceq h
  BY <1>1, <1>2, <1>3, <1>4, PrecTransitive
<1>6. batch[p].l1Proof \in canonicalBlocks
  BY <1>1, <1>2, <1>3, <1>5 DEF IsTip
<1>. QED  BY <1>1, <1>2, <1>6 DEF BatchFlagsAgree
===============================================================================
