------------------------------ MODULE Rollup_proofs ------------------------------
(* The sequencer when L1 forks are all that disturbs it, and its rollups, for  *)
(* every L1 and every sequence of forks: the canonical batches are one branch  *)
(* that takes the transactions of abandoned ones along, no check fails, a      *)
(* rollup can be created whenever a batch is old enough, and a node recreates  *)
(* the exact batches from it.                                                  *)
EXTENDS Rollup, Sequencer_proofs, FiniteSetTheorems

-------------------------------------------------------------------------------
\* The sequencer when L1 forks are all that disturbs it: the steps that extend a branch
\* or cut it.

(* A block arrives.  The canonical batches that stay are those whose L1 proof  *)
(* is an ancestor of the new head; the others are the orphans, and follow.     *)
LEMMA UndisturbedBlock ==
    ASSUME SInv, SInv', UInv, Undisturbed, NEW b \in L1Block, NEW fork, SubmitL1Block(b, fork)
    PROVE  UInv'
<1> DEFINE O == BatchesByBlocks(fork.nonCanonicalPath)
<1>1. /\ handler = Idle /\ b \notin blocks /\ fork \in IngestBlock(b) /\ StoreBlock(b, fork)
      /\ Allowed(b, fork) /\ crit' = crit /\ crashes' = crashes
  BY DEF SubmitL1Block, Process, TryAndInsertBlock
<1>2. /\ blocks' = blocks \cup {b} /\ batch' = batch /\ executedBatches' = executedBatches
      /\ Stored' = Stored
  BY <1>1 DEF StoreBlock, Stored
<1>3. /\ BatchesByBlocks(fork.canonicalPath) = {} /\ L2GenesisSeqNo \notin O
      /\ IF blocks = {} THEN b = L1Genesis ELSE Parent(b) \in blocks
  BY <1>1 DEF Allowed, Undisturbed
<1>4. /\ blocks \subseteq L1Block /\ canonicalBatches \subseteq Stored
      /\ L1TypeOK /\ BatchFlagsAgree /\ BatchFlagsAgree' /\ L1TypeOK'
  BY DEF SInv, L1Inv, L1TypeOK, StorageTypeOK
<1>5. \A n \in Stored : batch[n].l1Proof \in blocks /\ batch[n].l1Proof # b
                        /\ batch[n].l1Proof \in L1Block
  BY <1>1, <1>4 DEF UInv, NothingFailed
<1>6. blocks # {} => b # L1Genesis
  <2>1. SUFFICES ASSUME NEW x \in blocks PROVE L1Genesis \in blocks
    BY <1>1
  <2>2. Len(x) \in Nat /\ Upto(x, 0) = L1Genesis
    BY <1>4, BlockIsSeq, UptoZero
  <2>3. 0 \in 0..Len(x)
    BY <2>2
  <2>. QED  BY <2>2, <2>3 DEF UInv, NothingFailed, L1Complete
<1>7. Accepted(b, fork)
  BY <1>1, <1>6, IngestCases DEF LateGenesis, SInv
<1>8. /\ canonicalBlocks' = FlagsAfter(fork) \cup {b}
      /\ canonicalBlocks' = { x \in blocks \cup {b} : x \preceq b }
  BY <1>1, <1>4, <1>7, FlagsInStep DEF Accepted
<1>9. ASSUME NEW n \in Stored
      PROVE  n \in canonicalBatches' <=> n \in canonicalBatches /\ n \notin O
  <2>1. batch[n].l1Proof \notin fork.canonicalPath
    BY <1>3 DEF BatchesByBlocks
  <2>2. n \in canonicalBatches' <=> batch[n].l1Proof \in FlagsAfter(fork)
    BY <1>2, <1>4, <1>5, <1>8 DEF BatchFlagsAgree
  <2>3. n \in canonicalBatches <=> batch[n].l1Proof \in canonicalBlocks
    BY <1>4 DEF BatchFlagsAgree
  <2>4. n \in O <=> batch[n].l1Proof \in fork.nonCanonicalPath
    BY DEF BatchesByBlocks
  <2> HIDE DEF O
  <2>. QED  BY <2>1, <2>2, <2>3, <2>4 DEF FlagsAfter, FlagBlocks, IsFork
<1>10. O \subseteq canonicalBatches
  <2>1. fork.nonCanonicalPath \subseteq canonicalBlocks
    BY <1>1, LeftBehindCanonical DEF SInv
  <2>. QED  BY <1>4, <2>1 DEF BatchesByBlocks, BatchFlagsAgree
<1>11. canonicalBatches' = canonicalBatches \ O
  <2>1. canonicalBatches' \subseteq Stored
    BY <1>2, <1>4 DEF L1TypeOK, StorageTypeOK
  <2>. QED  BY <1>4, <1>9, <2>1
<1> HIDE DEF O
<1>12. /\ handler'.orphans = O /\ handler'.pending = NoParent /\ handler'.prev = NoParent
       /\ O # {} => handler'.l1Proof = Parent(b)
  <2>1. handler' = IF O = {} THEN Idle ELSE [ Idle EXCEPT !.l1Proof = Parent(b), !.orphans = O ]
    BY DEF SubmitL1Block, O
  <2>. QED  BY <2>1, IdleOK DEF Handler
<1>13. L1Complete'
  <2>1. SUFFICES ASSUME NEW x \in blocks', NEW k \in 0..Len(x) PROVE Upto(x, k) \in blocks'
    BY DEF L1Complete
  <2>2. CASE x \in blocks
    BY <1>2, <2>2 DEF UInv, NothingFailed, L1Complete
  <2>3. CASE x = b /\ k = Len(b)
    BY <1>2, <2>3, UptoSelf
  <2>4. CASE x = b /\ k # Len(b)
    <3>1. Len(b) \in Nat /\ k \in 0..(Len(b) - 1) /\ Len(b) # 0 /\ Len(b) - 1 \in 0..Len(b)
      BY <2>4, BlockIsSeq
    <3>2. Parent(b) \in blocks /\ Len(Parent(b)) = Len(b) - 1 /\ Upto(Parent(b), k) = Upto(b, k)
      BY <1>3, <3>1, GenesisHeight, UptoBlock, UptoUpto DEF Parent
    <3>3. Upto(Parent(b), k) \in blocks
      BY <3>1, <3>2 DEF UInv, NothingFailed, L1Complete
    <3>. QED  BY <1>2, <2>4, <3>2, <3>3
  <2>. QED  BY <1>2, <2>2, <2>3, <2>4
<1>14. NothingFailed'
  <2>1. Stored \subseteq executedBatches
    BY <1>1, IdleExecuted
  <2>2. Stored # {} => L2GenesisSeqNo \in canonicalBatches'
    BY <1>3, <1>11 DEF UInv, NothingFailed, O
  <2>. QED  BY <1>1, <1>2, <1>13, <2>1, <2>2 DEF UInv, NothingFailed
<1>15. \A n \in Stored : ChainOf'[n] = ChainOf[n]
  BY <1>2, ChainsKept DEF SInv
<1>16. OneBranch'
  BY <1>2, <1>4, <1>11, <1>15 DEF UInv, OneBranch, StartsWith
<1>17. ASSUME NEW n \in canonicalBatches', NEW o \in O PROVE batch[n].height < batch[o].height
  <2>1. n \in canonicalBatches /\ o \in canonicalBatches /\ n \in Stored /\ o \in Stored
    BY <1>4, <1>10, <1>11
  <2>2. SUFFICES ASSUME batch[o].height <= batch[n].height PROVE FALSE
    BY <2>1, BatchTyped
  <2>3. batch[o].l1Proof \preceq batch[n].l1Proof
    BY <2>1, <2>2 DEF UInv, OneBranch
  <2>4. batch[n].l1Proof \preceq b
    BY <1>2, <1>4, <1>8, <2>1 DEF BatchFlagsAgree
  <2>5. batch[o].l1Proof \preceq b
    BY <1>5, <2>1, <2>3, <2>4, PrecTransitive
  <2>6. o \in canonicalBatches'
    BY <1>2, <1>4, <1>5, <1>8, <2>1, <2>5 DEF BatchFlagsAgree
  <2>. QED  BY <1>11, <2>6
<1>18. ASSUME NEW o \in O PROVE batch[o].parent \in canonicalBatches
  <2>1. o \in canonicalBatches /\ o # L2GenesisSeqNo
    BY <1>3, <1>10 DEF O
  <2>. QED  BY <2>1, ParentCanonical DEF UInv
<1>19. O # {} => Parent(b) \in canonicalBlocks'
  <2>1. SUFFICES ASSUME NEW o \in O PROVE Parent(b) \in canonicalBlocks'
    OBVIOUS
  <2>2. blocks # {}
    BY <1>4, <1>5, <1>10
  <2>3. Parent(b) \in blocks /\ b # L1Genesis
    BY <1>3, <1>6, <2>2
  <2>4. Len(b) - 1 \in 0..Len(b)
    BY <2>3, BlockIsSeq, GenesisHeight
  <2>5. Parent(b) \preceq b
    BY <2>4, UptoPrec DEF Parent
  <2>. QED  BY <1>8, <2>3, <2>5
<1>20. OrphansOnTop'
  <2>1. L2GenesisSeqNo \notin O /\ \A m, n \in O : m < n => batch[m].height < batch[n].height
    BY <1>3, <1>10 DEF O, UInv, OneBranch
  <2>2. \A o \in O : batch[o].parent \in canonicalBatches' \cup O
    BY <1>11, <1>18
  <2>. QED  BY <1>2, <1>12, <1>17, <1>19, <2>1, <2>2 DEF OrphansOnTop
<1>21. ChainsSurvive'
  <2>1. \A n \in Stored : \E v \in canonicalBatches : ChainOf[v] = ChainOf[n]
    BY <1>1, IdleOK DEF UInv, ChainsSurvive
  <2>2. canonicalBatches \subseteq canonicalBatches' \cup O
    BY <1>11
  <2>. QED  BY <1>2, <1>4, <1>12, <1>15, <2>1, <2>2 DEF ChainsSurvive
<1>. QED  BY <1>14, <1>16, <1>20, <1>21 DEF UInv

(* The next orphan is always on the last one duplicated, and its duplicate on  *)
(* the top of the canonical branch: no turn of duplicateBatches gives up.      *)
LEMMA NextOrphanFits ==
    ASSUME SInv, Chained, UInv, NEW o, NextOrphan(o)
    PROVE  /\ Consecutive(o)
           /\ DuplicateParent(o) \in canonicalBatches
           /\ batch[o].height = batch[DuplicateParent(o)].height + 1
           /\ \A c \in canonicalBatches : batch[c].height <= batch[DuplicateParent(o)].height
           /\ \A p \in handler.orphans : p # o => batch[o].height < batch[p].height
<1>1. /\ o \in handler.orphans /\ handler.pending = NoParent
      /\ \A p \in handler.orphans : batch[o].height <= batch[p].height
  BY DEF NextOrphan
<1>2. /\ canonicalBatches \subseteq Stored /\ handler.orphans \subseteq Stored /\ o \in Stored
      /\ o # L2GenesisSeqNo
  BY <1>1 DEF SInv, L1Inv, L1TypeOK, StorageTypeOK, HandlerOK, UInv, OrphansOnTop
<1>3. \A m \in Stored : batch[m].height \in Nat /\ m \in Nat
  BY BatchTyped
<1>4. batch[o].parent \in Stored /\ batch[o].height = batch[batch[o].parent].height + 1
  BY <1>2 DEF SInv, Tree
<1>5. batch[o].parent \notin handler.orphans
  <2>1. ~(batch[o].height <= batch[batch[o].parent].height)
    BY <1>3, <1>4
  <2>. QED  BY <1>1, <2>1
<1>6. Consecutive(o)
  BY <1>1, <1>5 DEF UInv, OrphansOnTop, Consecutive
<1>7. DuplicateParent(o) \in canonicalBatches
  BY <1>1, <1>5 DEF UInv, OrphansOnTop, DuplicateParent, LastDuplicate
<1>8. batch[DuplicateParent(o)].height = batch[batch[o].parent].height
  <2>1. ChainOf[DuplicateParent(o)] = ChainOf[batch[o].parent]
    BY <1>1, <1>2, <1>6, <1>7, DuplicateParentChain
  <2>2. /\ Len(ChainOf[DuplicateParent(o)]) = batch[DuplicateParent(o)].height + 1
        /\ Len(ChainOf[batch[o].parent]) = batch[batch[o].parent].height + 1
    BY <1>2, <1>4, <1>7 DEF Chained
  <2>3. batch[DuplicateParent(o)].height \in Nat /\ batch[batch[o].parent].height \in Nat
    BY <1>2, <1>3, <1>4, <1>7
  <2>. QED  BY <2>1, <2>2, <2>3
<1>9. ASSUME NEW c \in canonicalBatches PROVE batch[c].height <= batch[DuplicateParent(o)].height
  <2>1. batch[c].height < batch[o].height
    BY <1>1 DEF UInv, OrphansOnTop
  <2>2. batch[c].height \in Nat /\ batch[batch[o].parent].height \in Nat
    BY <1>2, <1>3, <1>4
  <2>. QED  BY <1>4, <1>8, <2>1, <2>2
<1>10. ASSUME NEW p \in handler.orphans, p # o PROVE batch[o].height < batch[p].height
  <2>1. o \in Nat /\ p \in Nat /\ batch[o].height \in Nat /\ batch[p].height \in Nat
    BY <1>2, <1>3
  <2>2. p < o \/ o < p
    BY <1>10, <2>1
  <2>3. p < o => batch[p].height < batch[o].height
    BY <1>1 DEF UInv, OrphansOnTop
  <2>4. o < p => batch[o].height < batch[p].height
    BY <1>1 DEF UInv, OrphansOnTop
  <2>. QED  BY <1>1, <2>1, <2>2, <2>3, <2>4
<1>. QED  BY <1>4, <1>6, <1>7, <1>8, <1>9, <1>10

\* An orphan is duplicated, and its duplicate takes its place.
LEMMA UndisturbedDuplicate ==
    ASSUME SInv, SInv', Chained, Chained', UInv, NEW o \in SeqNo, NEW n \in SeqNo, DuplicateBatch(o, n)
    PROVE  UInv'
<1> DEFINE p == DuplicateParent(o)
<1>1. /\ NextOrphan(o) /\ o \in Stored /\ o \in handler.orphans /\ handler.pending = NoParent
      /\ canonicalBatches \subseteq Stored /\ handler.orphans \subseteq Stored
  BY DuplicateCases DEF SInv, HandlerOK, L1Inv, L1TypeOK, StorageTypeOK
<1>2. /\ Consecutive(o) /\ p \in canonicalBatches /\ batch[o].height = batch[p].height + 1
      /\ \A c \in canonicalBatches : batch[c].height <= batch[p].height
      /\ \A q \in handler.orphans : q # o => batch[o].height < batch[q].height
  BY <1>1, NextOrphanFits
<1>3. handler.l1Proof \in canonicalBlocks /\ handler.l1Proof \in blocks /\ batch[p].l1Proof \in blocks
  BY <1>1, <1>2 DEF UInv, OrphansOnTop, NothingFailed, SInv, L1Inv, L1TypeOK, StorageTypeOK
<1> HIDE DEF p
<1>4. /\ ProduceBatch(n, handler.l1Proof, p, batch[o].txs)
      /\ handler' = [ handler EXCEPT !.pending = n, !.orphans = @ \ {o}, !.prev = o ]
  BY <1>1, <1>2, <1>3, DuplicateCases DEF p
<1>5. /\ n \notin Stored /\ (\A m \in Stored : m < n) /\ Stored' = Stored \cup {n}
      /\ batch'[n].parent = p /\ batch'[n].height = batch[p].height + 1
      /\ batch'[n].l1Proof = handler.l1Proof /\ batch'[n].txs = batch[o].txs
      /\ \A m \in Stored : batch'[m] = batch[m]
      /\ UNCHANGED << blocks, canonicalBlocks, executedBatches, crit, crashes >>
      /\ canonicalBatches' = canonicalBatches \cup {n}
  BY <1>1, <1>2, <1>3, <1>4, Produced
<1>6. /\ handler'.pending = n /\ handler'.orphans = handler.orphans \ {o} /\ handler'.prev = o
      /\ handler'.l1Proof = handler.l1Proof
      /\ LastDuplicate' = n /\ n # NoParent /\ o # NoParent
  BY <1>4, HandlerAfterDuplicate DEF SInv
<1>7. OneBranch'
  BY <1>2, <1>5, BranchGrows DEF UInv
<1>8. NothingFailed'
  <2>1. Stored \subseteq executedBatches
    BY <1>1, BatchTyped DEF UInv, NothingFailed
  <2>2. L2GenesisSeqNo \in canonicalBatches
    BY <1>1 DEF UInv, NothingFailed
  <2>. QED  BY <1>3, <1>5, <1>6, <2>1, <2>2 DEF UInv, NothingFailed, L1Complete
<1>9. ASSUME NEW q \in handler'.orphans PROVE batch[q].parent \in handler'.orphans \cup {o}
  <2>1. q \in handler.orphans /\ q # o /\ q \in Stored /\ q # L2GenesisSeqNo
    BY <1>1, <1>6 DEF UInv, OrphansOnTop
  <2>2. batch[q].parent \in Stored /\ batch[q].height = batch[batch[q].parent].height + 1
    BY <2>1 DEF SInv, Tree
  <2>3. \A m \in Stored : batch[m].height \in Nat
    BY BatchTyped
  <2>4. batch[o].height <= batch[batch[q].parent].height
    <3>1. batch[o].height < batch[q].height
      BY <1>2, <2>1
    <3>2. batch[o].height \in Nat /\ batch[batch[q].parent].height \in Nat
      BY <1>1, <2>2, <2>3
    <3>. QED  BY <2>2, <3>1, <3>2
  <2>5. CASE handler.prev = NoParent
    <3>1. batch[q].parent \in canonicalBatches \cup handler.orphans
      BY <2>1, <2>5 DEF UInv, OrphansOnTop
    <3>2. batch[q].parent \notin canonicalBatches
      <4>1. batch[q].parent \in canonicalBatches => batch[batch[q].parent].height < batch[o].height
        BY <1>1 DEF UInv, OrphansOnTop
      <4>. QED  BY <1>1, <2>2, <2>3, <2>4, <4>1
    <3>. QED  BY <1>6, <3>1, <3>2
  <2>6. CASE handler.prev # NoParent
    <3>1. batch[q].parent \in handler.orphans \cup {handler.prev}
      BY <2>1, <2>6 DEF UInv, OrphansOnTop
    <3>2. batch[q].parent # handler.prev
      <4>1. batch[o].parent = handler.prev /\ o # L2GenesisSeqNo
        BY <1>1, <1>2, <2>6 DEF Consecutive, UInv, OrphansOnTop
      <4>2. batch[o].height = batch[handler.prev].height + 1 /\ handler.prev \in Stored
        BY <1>1, <4>1 DEF SInv, Tree
      <4>. QED  BY <1>1, <2>3, <2>4, <4>2
    <3>. QED  BY <1>6, <3>1, <3>2
  <2>. QED  BY <2>5, <2>6
<1>10. ASSUME NEW c \in canonicalBatches', NEW q \in handler'.orphans
       PROVE  batch'[c].height < batch'[q].height
  <2>1. q \in handler.orphans /\ q # o /\ q \in Stored /\ batch'[q] = batch[q]
    BY <1>1, <1>5, <1>6
  <2>2. CASE c = n
    BY <1>2, <1>5, <2>1, <2>2
  <2>3. CASE c \in canonicalBatches
    BY <1>1, <1>5, <2>1, <2>3 DEF UInv, OrphansOnTop
  <2>. QED  BY <1>5, <2>2, <2>3
<1>11. OrphansOnTop'
  <2>1. /\ L2GenesisSeqNo \notin handler'.orphans
        /\ \A m, k \in handler'.orphans : m < k => batch'[m].height < batch'[k].height
    BY <1>1, <1>5, <1>6 DEF UInv, OrphansOnTop
  <2>2. handler'.l1Proof \in canonicalBlocks' /\ LastDuplicate' \in canonicalBatches'
    BY <1>3, <1>5, <1>6
  <2>3. \A q \in handler'.orphans : batch'[q].parent \in handler'.orphans \cup {handler'.prev}
    BY <1>1, <1>5, <1>6, <1>9
  <2>. QED  BY <1>6, <1>10, <2>1, <2>2, <2>3 DEF OrphansOnTop
<1>12. ChainsSurvive'
  <2>1. \A m \in Stored : ChainOf'[m] = ChainOf[m]
    BY <1>5, ChainsKept DEF SInv
  <2>2. ChainOf'[n] = ChainOf[o]
    BY <1>6, <2>1, <1>1 DEF Chained
  <2>3. ASSUME NEW m \in Stored
        PROVE  \E v \in canonicalBatches' \cup handler'.orphans : ChainOf'[v] = ChainOf'[m]
    <3>1. PICK v \in canonicalBatches \cup handler.orphans : ChainOf[v] = ChainOf[m]
      BY DEF UInv, ChainsSurvive
    <3>2. v \in Stored
      BY <1>1
    <3>3. CASE v = o
      BY <1>5, <2>1, <2>2, <3>1, <3>3
    <3>4. CASE v # o
      BY <1>5, <1>6, <2>1, <3>1, <3>2, <3>4
    <3>. QED  BY <3>3, <3>4
  <2>. QED  BY <1>5, <2>3 DEF ChainsSurvive
<1>. QED  BY <1>7, <1>8, <1>11, <1>12 DEF UInv

\* Every step of the undisturbed sequencer keeps its invariant.
LEMMA NextUndisturbed ==
    /\ SInv /\ SInv' /\ Chained /\ Chained'
    /\ (Undisturbed => UInv)
    /\ [Next]_seqVars
    => (Undisturbed => UInv)'
<1> SUFFICES ASSUME SInv, SInv', Chained, Chained', Undisturbed => UInv, [Next]_seqVars, Undisturbed'
             PROVE  UInv'
  OBVIOUS
<1>0. env' = env /\ Undisturbed /\ UInv
  <2>1. env' = env
    BY DEF Next, seqVars, SubmitTx, InitGenesis, CreateNewHeadBatch, ProduceBatch, FinishBatch,
           SubmitL1Block, SubmitL1BlockFails, DuplicateBatch, Crash, Crit, Stop
  <2>. QED  BY <2>1 DEF Undisturbed
<1>1. ASSUME NEW t, SubmitTx(t) PROVE UInv'
  BY <1>0, <1>1, UndisturbedSame DEF SubmitTx
<1>2. ASSUME NEW h \in HeadBlocks, InitGenesis(h) PROVE UInv'
  BY <1>0, <1>2, UndisturbedGenesis
<1>3. ASSUME NEW h \in HeadBlocks, NEW m \in HeadBatches, NEW n \in 1..env.batches,
             NEW s, CreateNewHeadBatch(h, m, n, s)
      PROVE  UInv'
  <2>1. n \in SeqNo
    BY SequencerAssumption, MaxSeqNoAssumption DEF SInv, Environment, SeqNo
  <2>. QED  BY <1>0, <1>3, <2>1, UndisturbedCreate
<1>4. CASE FinishBatch
  BY <1>0, <1>4, UndisturbedFinish
<1>5. ASSUME NEW b \in L1Block, NEW fork, SubmitL1Block(b, fork) PROVE UInv'
  BY <1>0, <1>5, UndisturbedBlock
<1>6. ASSUME NEW b, NEW fork, SubmitL1BlockFails(b, fork) PROVE UInv'
  BY <1>0, <1>6 DEF SubmitL1BlockFails, Undisturbed
<1>7. ASSUME NEW o \in SeqNo, NEW n \in SeqNo, DuplicateBatch(o, n) PROVE UInv'
  BY <1>0, <1>7, UndisturbedDuplicate
<1>8. CASE Crash
  <2>1. crashes = 0 /\ env.crashes = 0
    BY <1>0 DEF UInv, NothingFailed, Undisturbed
  <2>. QED  BY <1>8, <2>1 DEF Crash
<1>9. CASE UNCHANGED seqVars
  BY <1>0, <1>9, UndisturbedSame DEF seqVars
<1>. QED  BY <1>1, <1>2, <1>3, <1>4, <1>5, <1>6, <1>7, <1>8, <1>9 DEF Next

\* Nothing is stored to begin with.
LEMMA InitUndisturbed == Init => UInv
<1> SUFFICES ASSUME Init PROVE UInv
  OBVIOUS
<1>1. /\ blocks = {} /\ canonicalBatches = {} /\ Stored = {} /\ handler = Idle /\ crit = {}
      /\ crashes = 0
  BY DEF Init, L1Init, StorageInit, Stored
<1>2. handler.orphans = {}
  BY <1>1, IdleOK
<1>. QED  BY <1>1, <1>2
          DEF UInv, NothingFailed, L1Complete, OneBranch, OrphansOnTop, ChainsSurvive

(* When L1 forks are all that happens, the canonical batches stay one branch   *)
(* that the orphans continue, and no chain is lost.                            *)
THEOREM UndisturbedInvariance == Spec => [](Undisturbed => UInv)
BY InitUndisturbed, NextUndisturbed, SequencerInvariance, ChainInvariance, PTL DEF Spec

(* With L1 forks alone none of the sequencer's checks fails: orphans are       *)
(* consecutive, no sequence number is taken twice, and the L1 proof of the     *)
(* head batch is an ancestor of the L1 head.                                   *)
THEOREM ChecksPassHolds == Spec => []ChecksPass
<1>1. SInv /\ (Undisturbed => UInv) => ChecksPass
  <2> SUFFICES ASSUME SInv, UInv
               PROVE  /\ crit = {}
                      /\ \A h \in HeadBlocks, n \in HeadBatches :
                           IsAncestor(h, batch[n].l1Proof, blocks)
    BY DEF ChecksPass
  <2>1. crit = {} /\ L1Complete
    BY DEF UInv, NothingFailed
  <2>2. ASSUME NEW h \in HeadBlocks, NEW n \in HeadBatches
        PROVE  IsAncestor(h, batch[n].l1Proof, blocks)
    <3>1. /\ blocks \subseteq L1Block /\ h \in blocks /\ n \in Stored /\ n \in canonicalBatches
      BY DEF SInv, L1Inv, L1TypeOK, StorageTypeOK, HeadBlocks, HeadBatches, CanonicalExecuted
    <3>2. PICK g \in blocks : IsTip(g)
      BY <3>1 DEF SInv, L1Inv
    <3>3. g = h
      BY <3>1, <3>2, TipIsHead
    <3>4. batch[n].l1Proof \in canonicalBlocks /\ batch[n].l1Proof \in L1Block
      BY <3>1, BatchTyped DEF SInv, L1Inv, BatchFlagsAgree
    <3>5. batch[n].l1Proof \preceq h
      BY <3>2, <3>3, <3>4 DEF IsTip
    <3>6. Len(h) \in Nat /\ Len(batch[n].l1Proof) \in Nat
      BY <3>1, <3>4, BlockIsSeq
    <3>7. \A k \in Len(batch[n].l1Proof)..(Len(h) - 1) : k \in 0..Len(h)
      BY <3>6
    <3>. QED  BY <2>1, <3>1, <3>5, <3>7 DEF IsAncestor, L1Complete
  <2>. QED  BY <2>1, <2>2
<1>. QED  BY <1>1, SequencerInvariance, UndisturbedInvariance, PTL

(* Between calls FetchBatchByHeight has one batch to return for a height, at   *)
(* most, whatever L1 forks came.                                               *)
THEOREM OneCanonicalPerHeightHolds == Spec => []OneCanonicalPerHeight
<1>1. SInv /\ (Undisturbed => UInv) => OneCanonicalPerHeight
  <2> SUFFICES ASSUME SInv, UInv, NEW h \in 0..MaxSeqNo
               PROVE  Cardinality(CanonicalAtHeight(h)) <= 1
    BY DEF OneCanonicalPerHeight
  <2>1. ASSUME NEW m \in CanonicalAtHeight(h), NEW n \in CanonicalAtHeight(h) PROVE m = n
    <3>1. /\ m \in canonicalBatches /\ n \in canonicalBatches /\ m \in Stored /\ n \in Stored
          /\ batch[m].height = h /\ batch[n].height = h
      BY DEF CanonicalAtHeight, SInv, L1Inv, L1TypeOK, StorageTypeOK
    <3>2. m \in Nat /\ n \in Nat /\ h \in Nat
      BY <3>1, BatchTyped
    <3>3. \A k, q \in canonicalBatches : k < q => batch[k].height < batch[q].height
      BY DEF UInv, OneBranch
    <3>4. ~(m < n) /\ ~(n < m)
      BY <3>1, <3>2, <3>3
    <3>. QED  BY <3>2, <3>4
  <2>2. CASE CanonicalAtHeight(h) = {}
    BY <2>2, FS_EmptySet
  <2>3. CASE CanonicalAtHeight(h) # {}
    <3>1. PICK m \in CanonicalAtHeight(h) : TRUE
      BY <2>3
    <3>2. CanonicalAtHeight(h) = {m}
      BY <2>1, <3>1
    <3>3. Cardinality({m}) = 1
      BY FS_Singleton
    <3>. QED  BY <3>2, <3>3
  <2>. QED  BY <2>2, <2>3
<1>. QED  BY <1>1, SequencerInvariance, UndisturbedInvariance, PTL

(* The soft finality guarantee, for every L1 and every sequence of forks:      *)
(* between calls the head batch's chain starts with the chain of every batch   *)
(* ever executed.                                                              *)
THEOREM SoftFinalityHolds == Spec => []SoftFinality
<1>1. SInv /\ Chained /\ (Undisturbed => UInv) => SoftFinality
  <2> SUFFICES ASSUME SInv, Chained, UInv, handler = Idle, NEW h \in HeadBatches,
                      NEW n \in executedBatches
               PROVE  /\ Len(ChainOf[n]) <= Len(ChainOf[h])
                      /\ ChainOf[n] = SubSeq(ChainOf[h], 1, Len(ChainOf[n]))
    BY DEF SoftFinality, SoftFinalityGuarantee
  <2>1. /\ n \in Stored /\ canonicalBatches \subseteq Stored /\ handler.orphans = {}
        /\ h \in canonicalBatches /\ \A c \in canonicalBatches : batch[c].height <= batch[h].height
    BY IdleExecuted DEF SInv, L1Inv, L1TypeOK, StorageTypeOK, HeadBatches
  <2>2. PICK v \in canonicalBatches : ChainOf[v] = ChainOf[n]
    BY <2>1 DEF UInv, ChainsSurvive
  <2>3. batch[v].height <= batch[h].height /\ StartsWith(ChainOf[h], ChainOf[v])
    BY <2>1, <2>2 DEF UInv, OneBranch
  <2>4. /\ Len(ChainOf[v]) = batch[v].height + 1 /\ Len(ChainOf[h]) = batch[h].height + 1
        /\ batch[v].height \in Nat /\ batch[h].height \in Nat
    BY <2>1, <2>2, BatchTyped DEF Chained
  <2>5. Len(ChainOf[v]) <= Len(ChainOf[h])
    BY <2>3, <2>4
  <2>. QED  BY <2>2, <2>3, <2>5 DEF StartsWith
<1>. QED  BY <1>1, SequencerInvariance, ChainInvariance, UndisturbedInvariance, PTL

-------------------------------------------------------------------------------
\* Rollups.

(* createRollupHeader's lookup of the canonical batch of each height succeeds, *)
(* and so does the lookup of the L1 block the rollup is compressed against.    *)
THEOREM RollupPossibleHolds == Spec => []RollupPossible
<1>1. SInv /\ Chained /\ (Undisturbed => UInv) => RollupPossible
  <2> SUFFICES ASSUME SInv, Chained, UInv, handler = Idle, NEW from \in Stored,
                      NEW height \in UpToL1Heights, NEW n \in LastBatches(from, height)
               PROVE  CreateRollup(from) # {}
    BY DEF RollupPossible
  <2>1. \A k \in from..n : k \in Stored
    BY DEF LastBatches
  <2>2. ASSUME NEW k \in from..n PROVE CanonicalAtHeight(batch[k].height) # {}
    <3>1. k \in Stored /\ handler.orphans = {} /\ canonicalBatches \subseteq Stored
      BY <2>1, IdleOK DEF SInv, L1Inv, L1TypeOK, StorageTypeOK
    <3>2. PICK v \in canonicalBatches : ChainOf[v] = ChainOf[k]
      BY <3>1 DEF UInv, ChainsSurvive
    <3>3. /\ Len(ChainOf[v]) = batch[v].height + 1 /\ Len(ChainOf[k]) = batch[k].height + 1
          /\ batch[v].height \in Nat /\ batch[k].height \in Nat
      BY <3>1, <3>2, BatchTyped DEF Chained
    <3>4. batch[v].height = batch[k].height
      BY <3>2, <3>3
    <3>. QED  BY <3>2, <3>4 DEF CanonicalAtHeight
  <2>3. PICK h \in HeadBlocks : height = Height(h) - RollupDelay /\ height \in Nat
    BY DEF UpToL1Heights
  <2>4. h \in blocks /\ h \in L1Block /\ blocks \subseteq L1Block /\ L1Complete
    BY DEF HeadBlocks, SInv, L1Inv, L1TypeOK, StorageTypeOK, UInv, NothingFailed
  <2>5. Len(h) \in Nat /\ height \in 0..Len(h)
    BY <2>3, <2>4, BlockIsSeq, RollupAssumption DEF Height
  <2> DEFINE b == Upto(h, height)
  <2>6. b \in blocks /\ b \preceq h /\ Height(b) = height
    BY <2>4, <2>5, UptoPrec, UptoBlock DEF L1Complete, Height
  <2>7. PICK g \in blocks : IsTip(g)
    BY <2>4 DEF SInv, L1Inv
  <2>8. g = h
    BY <2>4, <2>7, TipIsHead
  <2>9. b \in canonicalBlocks
    BY <2>6, <2>7, <2>8 DEF IsTip
  <2> HIDE DEF b
  <2>10. ExtRollup(from, n, b) \in CreateRollup(from)
    BY <2>2, <2>6, <2>9 DEF CreateRollup
  <2>. QED  BY <2>10
<1>. QED  BY <1>1, SequencerInvariance, ChainInvariance, UndisturbedInvariance, PTL

-------------------------------------------------------------------------------
\* What a rollup says of its batches.

\* The heights of the L1 proofs, summed up from the differences, are the heights.
LEMMA L1HeightsRestored ==
    ASSUME NEW from \in Nat, NEW last \in Nat, NEW r, r.first = from, r.last = last,
           r.l1HeightDeltas = L1HeightDeltas(from, last),
           \A k \in from..last : Height(batch[k].l1Proof) \in Nat
    PROVE  \A n \in from..last : L1HeightOf(r, n) = Height(batch[n].l1Proof)
<1> DEFINE H(k) == Height(batch[k].l1Proof)
           D == r.l1HeightDeltas
           P(f) == f = [ k \in from..last |-> D[k] + (IF k = from THEN 0 ELSE f[k - 1]) ]
           g == [ k \in from..last |-> H(k) ]
           f == CHOOSE e : P(e)
<1>1. \A n : L1HeightOf(r, n) = f[n]
  BY DEF L1HeightOf
<1>2. \A k \in from..last : D[k] = IF k = from THEN H(k) ELSE H(k) - H(k - 1)
  BY DEF L1HeightDeltas
<1>3. \A k \in from..last : H(k) \in Nat
  OBVIOUS
<1> HIDE DEF H, D
<1>4. ASSUME NEW k \in from..last PROVE g[k] = D[k] + (IF k = from THEN 0 ELSE g[k - 1])
  <2>1. CASE k = from
    BY <1>2, <1>3, <2>1
  <2>2. CASE k # from
    <3>1. k - 1 \in from..last
      BY <2>2
    <3>2. g[k] = H(k) /\ g[k - 1] = H(k - 1) /\ H(k) \in Nat /\ H(k - 1) \in Nat
      BY <1>3, <3>1
    <3>. QED  BY <1>2, <2>2, <3>2
  <2>. QED  BY <2>1, <2>2
<1>5. P(g)
  BY <1>4
<1>6. P(f)
  BY <1>5
<1>7. \A k \in from..last : f[k] = D[k] + (IF k = from THEN 0 ELSE f[k - 1])
  BY <1>6
<1> HIDE DEF f
<1> DEFINE A == { i \in Nat : from + i <= last => f[from + i] = H(from + i) }
<1>8. 0 \in A
  <2>1. CASE from <= last
    <3>1. from \in from..last
      BY <2>1
    <3>2. f[from] = H(from)
      BY <1>2, <1>3, <1>7, <3>1
    <3>. QED  BY <3>2
  <2>2. CASE ~(from <= last)
    BY <2>2
  <2>. QED  BY <2>1, <2>2
<1>9. ASSUME NEW i \in Nat, i \in A PROVE i + 1 \in A
  <2>1. SUFFICES ASSUME from + (i + 1) <= last PROVE f[from + (i + 1)] = H(from + (i + 1))
    OBVIOUS
  <2> DEFINE k == from + (i + 1)
  <2>2. k \in from..last /\ k # from /\ k - 1 \in from..last /\ k - 1 = from + i /\ from + i <= last
    BY <2>1
  <2>3. f[k - 1] = H(k - 1)
    BY <1>9, <2>2
  <2> HIDE DEF k
  <2>4. f[k] = D[k] + f[k - 1] /\ D[k] = H(k) - H(k - 1) /\ H(k) \in Nat /\ H(k - 1) \in Nat
    BY <1>2, <1>3, <1>7, <2>2
  <2>5. f[k] = H(k)
    BY <2>3, <2>4
  <2>. QED  BY <2>5 DEF k
<1>10. Nat \subseteq A
  <2> HIDE DEF A
  <2>. QED  BY <1>8, <1>9, NatSetInduction
<1>11. ASSUME NEW n \in from..last PROVE f[n] = H(n)
  <2>1. n - from \in Nat /\ from + (n - from) = n /\ n <= last
    OBVIOUS
  <2>2. n - from \in A
    BY <1>10, <2>1
  <2>. QED  BY <2>1, <2>2
<1>. QED  BY <1>1, <1>11 DEF H

\* A rollup holds stored batches, with L1 proofs no higher than its L1 head.
RollupOf(r, from, last) ==
    \E l1Head \in canonicalBlocks :
        /\ r = ExtRollup(from, last, l1Head)
        /\ \A k \in from..last : k \in Stored /\ Height(batch[k].l1Proof) <= Height(l1Head)

\* CreateRollup makes such rollups.
LEMMA RollupFacts ==
    ASSUME SInv, NEW from \in Stored, NEW r \in CreateRollup(from)
    PROVE  \E last \in Stored : from <= last /\ RollupOf(r, from, last)
<1>1. PICK height \in UpToL1Heights :
        \E last \in { n \in LastBatches(from, height) :
                        \A k \in from..n : CanonicalAtHeight(batch[k].height) # {} } :
        \E l1Head \in { b \in canonicalBlocks : Height(b) = height } :
          r = ExtRollup(from, last, l1Head)
  BY DEF CreateRollup
<1>2. PICK last \in LastBatches(from, height),
           l1Head \in { b \in canonicalBlocks : Height(b) = height } :
        r = ExtRollup(from, last, l1Head)
  BY <1>1
<1>3. /\ last \in Stored /\ from <= last /\ l1Head \in canonicalBlocks
      /\ \A k \in from..last : k \in Stored /\ Height(batch[k].l1Proof) <= Height(l1Head)
  BY <1>2 DEF LastBatches
<1>. QED  BY <1>2, <1>3 DEF RollupOf

\* The reorged batches of a rollup are those that are not canonical.
LEMMA ReorgsAreNotCanonical == \A n : IsReorg(n) <=> n \notin canonicalBatches
BY DEF IsReorg, CanonicalAtHeight

\* The L1 proof of a canonical batch is found from its height.
LEMMA L1ProofRestored ==
    ASSUME SInv, UInv, NEW from \in Stored, NEW last \in Stored, NEW r, RollupOf(r, from, last),
           NEW n \in from..last, n \in canonicalBatches
    PROVE  L1ProofOf(r, n) = batch[n].l1Proof
<1>0. PICK l1Head \in canonicalBlocks :
        /\ r = ExtRollup(from, last, l1Head)
        /\ \A k \in from..last : k \in Stored /\ Height(batch[k].l1Proof) <= Height(l1Head)
  BY DEF RollupOf
<1>1. /\ r.first = from /\ r.last = last /\ r.compressionL1Head = l1Head
      /\ r.l1HeightDeltas = L1HeightDeltas(from, last)
  BY <1>0 DEF ExtRollup
<1>2. from \in Nat /\ last \in Nat /\ \A k \in from..last : Height(batch[k].l1Proof) \in Nat
  <2>1. ASSUME NEW k \in Stored PROVE Height(batch[k].l1Proof) \in Nat
    <3>1. batch[k].l1Proof \in L1Block
      BY BatchTyped
    <3>. QED  BY <3>1, BlockIsSeq DEF Height
  <2>2. from \in Nat /\ last \in Nat
    BY BatchTyped
  <2>. QED  BY <1>0, <2>1, <2>2
<1>3. L1HeightOf(r, n) = Height(batch[n].l1Proof)
  BY <1>1, <1>2, L1HeightsRestored
<1>4. /\ n \in Stored /\ batch[n].l1Proof \in canonicalBlocks /\ batch[n].l1Proof \in L1Block
      /\ l1Head \in L1Block /\ blocks \subseteq L1Block /\ canonicalBlocks \subseteq blocks
  BY <1>0, BatchTyped DEF SInv, L1Inv, L1TypeOK, StorageTypeOK, BatchFlagsAgree
<1>5. PICK h \in blocks : IsTip(h)
  BY <1>4 DEF SInv, L1Inv
<1>6. batch[n].l1Proof \preceq h /\ l1Head \preceq h /\ h \in L1Block
  BY <1>4, <1>5 DEF IsTip
<1>7. batch[n].l1Proof \preceq l1Head
  BY <1>0, <1>4, <1>6, PrecLinear DEF Height
<1>. QED  BY <1>1, <1>3, <1>7 DEF L1ProofOf, \preceq, Height

\* The parent of a canonical batch is the canonical batch before it.
LEMMA CanonicalBefore ==
    ASSUME SInv, UInv, NEW n \in canonicalBatches, n # L2GenesisSeqNo
    PROVE  /\ batch[n].parent \in canonicalBatches /\ batch[n].parent < n
           /\ \A q \in canonicalBatches : q < n => q <= batch[n].parent
<1> DEFINE p == batch[n].parent
<1>1. canonicalBatches \subseteq Stored
  BY DEF SInv, L1Inv, L1TypeOK, StorageTypeOK
<1>2. p \in canonicalBatches
  BY ParentCanonical DEF UInv
<1>3. p < n /\ batch[n].height = batch[p].height + 1
  BY <1>1 DEF SInv, Tree
<1> HIDE DEF p
<1>4. ASSUME NEW q \in canonicalBatches, q < n PROVE q <= p
  <2>1. /\ q \in Nat /\ p \in Nat /\ batch[q].height \in Nat /\ batch[p].height \in Nat
        /\ batch[n].height \in Nat
    BY <1>1, <1>2, BatchTyped
  <2>2. SUFFICES ASSUME p < q PROVE FALSE
    BY <2>1
  <2>3. batch[p].height < batch[q].height /\ batch[q].height < batch[n].height
    BY <1>2, <1>4, <2>2 DEF UInv, OneBranch
  <2>. QED  BY <1>3, <2>1, <2>3
<1>. QED  BY <1>2, <1>3, <1>4 DEF p

-------------------------------------------------------------------------------
\* What executeAndSaveIncompleteBatches makes of a rollup.

Canonical(from, n) == canonicalBatches \cap (from..n)

\* The parent of the next canonical batch, once the batches up to n are recreated.
ParentAfter(from, n, first) ==
    IF Canonical(from, n) = {} THEN first
    ELSE CHOOSE q \in Canonical(from, n) : \A k \in Canonical(from, n) : k <= q

\* The parent is the canonical batch of the greatest number, when there is one.
LEMMA ParentAfterIs ==
    ASSUME NEW from \in Nat, NEW n \in Nat, NEW first
    PROVE  IF Canonical(from, n) = {} THEN ParentAfter(from, n, first) = first
           ELSE /\ ParentAfter(from, n, first) \in Canonical(from, n)
                /\ \A k \in Canonical(from, n) : k <= ParentAfter(from, n, first)
<1>1. CASE Canonical(from, n) = {}
  BY <1>1 DEF ParentAfter
<1>2. CASE Canonical(from, n) # {}
  <2>1. Canonical(from, n) \in SUBSET (0..n)
    BY DEF Canonical
  <2> DEFINE C == Canonical(from, n)
  <2>2. \E q \in C : \A k \in C : k <= q
    <3> HIDE DEF C
    <3>. QED  BY <1>2, <2>1, GreatestNumber DEF C
  <2>. QED  BY <1>2, <2>2 DEF ParentAfter
<1>. QED  BY <1>1, <1>2

\* A canonical batch is the next parent; another batch leaves the parent as it is.
LEMMA ParentAfterNext ==
    ASSUME NEW from \in Nat, NEW n \in Nat, from <= n, NEW first
    PROVE  /\ n \in canonicalBatches => ParentAfter(from, n, first) = n
           /\ n \notin canonicalBatches => ParentAfter(from, n, first) = ParentAfter(from, n - 1, first)
<1>1. ASSUME n \in canonicalBatches PROVE ParentAfter(from, n, first) = n
  <2>1. n \in Canonical(from, n) /\ \A k \in Canonical(from, n) : k <= n /\ k \in Nat
    BY <1>1 DEF Canonical
  <2>2. /\ ParentAfter(from, n, first) \in Canonical(from, n)
        /\ n <= ParentAfter(from, n, first)
    BY <2>1, ParentAfterIs
  <2>. QED  BY <2>1, <2>2
<1>2. ASSUME n \notin canonicalBatches
      PROVE  ParentAfter(from, n, first) = ParentAfter(from, n - 1, first)
  <2>1. from..n = (from..(n - 1)) \cup {n}
    OBVIOUS
  <2>2. Canonical(from, n) = Canonical(from, n - 1)
    BY <1>2, <2>1 DEF Canonical
  <2>. QED  BY <2>2 DEF ParentAfter
<1>. QED  BY <1>1, <1>2

(* The header the rollup starts from and the canonical batches seen so far     *)
(* give each canonical batch its parent.                                       *)
LEMMA ParentRecreated ==
    ASSUME SInv, UInv, NEW from \in Stored, NEW last \in Stored,
           NEW n \in from..last, n \in canonicalBatches, n # L2GenesisSeqNo
    PROVE  ParentAfter(from, n - 1, FirstCanonParentHash(from, last)) = batch[n].parent
<1> DEFINE p == batch[n].parent
           first == FirstCanonParentHash(from, last)
<1>1. p \in canonicalBatches /\ p < n /\ \A q \in canonicalBatches : q < n => q <= p
  BY CanonicalBefore
<1>a. canonicalBatches \subseteq Stored
  BY DEF SInv, L1Inv, L1TypeOK, StorageTypeOK
<1>2. /\ from \in Nat /\ from # 0 /\ last \in Nat /\ n \in Nat /\ p \in Nat
      /\ n - 1 \in Nat /\ from <= n
  <2>1. from \in Nat /\ from # 0 /\ last \in Nat /\ p \in Nat
    BY <1>1, <1>a, BatchTyped DEF NoParent
  <2>. QED  BY <2>1
<1> HIDE DEF p
<1>3. CASE p \in from..(n - 1)
  <2>1. p \in Canonical(from, n - 1)
    BY <1>1, <1>3 DEF Canonical
  <2>2. \A k \in Canonical(from, n - 1) : k <= p /\ k \in Nat
    BY <1>1, <1>2 DEF Canonical
  <2>3. /\ ParentAfter(from, n - 1, first) \in Canonical(from, n - 1)
        /\ p <= ParentAfter(from, n - 1, first)
    BY <1>2, <2>1, ParentAfterIs
  <2>. QED  BY <1>2, <2>2, <2>3 DEF p
<1>4. CASE p \notin from..(n - 1)
  <2>1. p < from
    BY <1>1, <1>2, <1>4
  <2>2. \A q \in canonicalBatches : q \in Nat /\ q < n => q < from
    BY <1>1, <1>2, <2>1
  <2>3. Canonical(from, n - 1) = {}
    <3>1. ASSUME NEW q \in Canonical(from, n - 1) PROVE FALSE
      <4>1. q \in canonicalBatches /\ q \in Nat /\ q < n /\ ~(q < from)
        BY <1>2, <3>1 DEF Canonical
      <4>. QED  BY <2>2, <4>1
    <3>. QED  BY <3>1
  <2> DEFINE canon == { k \in from..last : ~IsReorg(k) }
  <2>4. n \in canon /\ \A k \in canon : k \in canonicalBatches /\ k \in Nat /\ from <= k
    BY <1>2, ReorgsAreNotCanonical
  <2>5. \A k \in canon : n <= k
    BY <1>2, <2>2, <2>4
  <2>6. (CHOOSE k \in canon : \A j \in canon : k <= j) = n
    <3> DEFINE c == CHOOSE k \in canon : \A j \in canon : k <= j
    <3> HIDE DEF canon
    <3>1. c \in canon /\ \A j \in canon : c <= j
      BY <2>4, <2>5
    <3> HIDE DEF c
    <3>2. c <= n /\ n <= c /\ c \in Nat
      BY <2>4, <2>5, <3>1
    <3>3. c = n
      BY <1>2, <3>2
    <3>. QED  BY <3>3 DEF c
  <2>7. first = batch[n].parent
    BY <2>4, <2>6 DEF FirstCanonParentHash
  <2>. QED  BY <1>2, <2>3, <2>7, ParentAfterIs
<1>. QED  BY <1>3, <1>4

(* What the loop has when the batches of the rollup up to n are done: all that *)
(* the node did not know, as the sequencer stored them.                        *)
Restored(from, last, known, n) ==
    [ parent |-> ParentAfter(from, n, FirstCanonParentHash(from, last)),
      saved  |-> [ k \in (from..n) \ known |-> batch[k] ],
      ok     |-> TRUE ]

\* Saving one more batch.
LEMMA SaveNext ==
    ASSUME NEW from \in Nat, NEW n \in Nat, from <= n, NEW known, n \notin known, NEW b, b = batch[n],
           NEW saved, saved = [ k \in (from..(n - 1)) \ known |-> batch[k] ]
    PROVE  [ k \in DOMAIN saved \cup {n} |-> IF k = n THEN b ELSE saved[k] ]
             = [ k \in (from..n) \ known |-> batch[k] ]
<1>1. from..n = (from..(n - 1)) \cup {n}
  OBVIOUS
<1>2. DOMAIN saved \cup {n} = (from..n) \ known
  BY <1>1
<1>3. \A k \in (from..n) \ known : (IF k = n THEN b ELSE saved[k]) = batch[k]
  BY <1>1
<1>. QED  BY <1>2, <1>3, Zenon

(* A node that catches up from rollups has all batches before the rollup, and  *)
(* of the rollup any that are canonical.                                       *)
CatchesUp(known, from, last) ==
    1..(from - 1) \subseteq known /\ known \cap (from..last) \subseteq canonicalBatches

\* A turn of the loop recreates the batch, or finds it.
LEMMA RestoresNext ==
    ASSUME SInv, Chained, UInv,
           NEW from \in Stored, NEW last \in Stored, NEW r, RollupOf(r, from, last),
           NEW known, CatchesUp(known, from, last), NEW n \in from..last
    PROVE  ExecuteAndSave(r, known, Restored(from, last, known, n - 1), n)
             = Restored(from, last, known, n)
<1> DEFINE acc   == Restored(from, last, known, n - 1)
           first == FirstCanonParentHash(from, last)
           saved == [ k \in (from..(n - 1)) \ known |-> batch[k] ]
           rest  == [ k \in (from..n) \ known |-> batch[k] ]
           save(b) == [ k \in DOMAIN acc.saved \cup {n} |-> IF k = n THEN b ELSE acc.saved[k] ]
           parentBatch == IF acc.parent \in DOMAIN acc.saved THEN acc.saved[acc.parent]
                          ELSE batch[acc.parent]
<1>1. /\ acc = [ parent |-> ParentAfter(from, n - 1, first), saved |-> saved, ok |-> TRUE ]
      /\ acc.parent = ParentAfter(from, n - 1, first) /\ acc.saved = saved /\ acc.ok
      /\ Restored(from, last, known, n)
           = [ parent |-> ParentAfter(from, n, first), saved |-> rest, ok |-> TRUE ]
  BY DEF Restored
<1>2. /\ from \in Nat /\ last \in Nat /\ n \in Nat /\ from <= n /\ n # 0 /\ from # 0
      /\ n \in Stored /\ from..n = (from..(n - 1)) \cup {n}
  <2>1. n \in Stored
    BY DEF RollupOf
  <2>2. from \in Nat /\ last \in Nat /\ n \in Nat /\ from <= n /\ n # 0 /\ from # 0
    BY <2>1, BatchTyped DEF NoParent
  <2>. QED  BY <2>1, <2>2
<1>3. \A k : k \in DOMAIN r.reorgs <=> k \in from..last /\ k \notin canonicalBatches
  BY ReorgsAreNotCanonical DEF RollupOf, ExtRollup
<1>4. n \in canonicalBatches \/ n \notin known
  BY DEF CatchesUp
<1>5. /\ n \in canonicalBatches => ParentAfter(from, n, first) = n
      /\ n \notin canonicalBatches => ParentAfter(from, n, first) = ParentAfter(from, n - 1, first)
  BY <1>2, ParentAfterNext
<1>6. ASSUME n \notin known, NEW b, b = batch[n] PROVE save(b) = rest
  <2>1. save(b) = [ k \in DOMAIN saved \cup {n} |-> IF k = n THEN b ELSE saved[k] ]
    BY <1>1
  <2>2. saved = [ k \in (from..(n - 1)) \ known |-> batch[k] ]
    OBVIOUS
  <2>3. [ k \in DOMAIN saved \cup {n} |-> IF k = n THEN b ELSE saved[k] ] = rest
    <3> HIDE DEF saved
    <3>. QED  BY <1>2, <1>6, <2>2, SaveNext
  <2> HIDE DEF save, saved, rest
  <2>. QED  BY <2>1, <2>3
<1>7. parentBatch = batch[acc.parent]
  <2>1. acc.saved = saved
    BY <1>1
  <2>2. \A k : k \in DOMAIN saved => saved[k] = batch[k]
    OBVIOUS
  <2> HIDE DEF acc, saved
  <2>. QED  BY <2>1, <2>2
<1> SUFFICES ExecuteAndSave(r, known, acc, n) = Restored(from, last, known, n)
  OBVIOUS
<1> HIDE DEF acc, first, saved, rest, save, parentBatch
<1>8. CASE n \in known
  <2>1. (from..n) \ known = (from..(n - 1)) \ known
    BY <1>2, <1>8
  <2>2. rest = saved
    BY <2>1 DEF rest, saved
  <2>3. ExecuteAndSave(r, known, acc, n) = [ acc EXCEPT !.parent = n ]
    BY <1>1, <1>8 DEF ExecuteAndSave
  <2>. QED  BY <1>1, <1>4, <1>5, <1>8, <2>2, <2>3
<1>9. CASE n \notin known /\ n = L2GenesisSeqNo
  <2> DEFINE g == [ parent |-> NoParent, height |-> L2GenesisHeight,
                    l1Proof |-> L1ProofOf(r, n), txs |-> {} ]
  <2>1. n \in canonicalBatches
    BY <1>2, <1>9 DEF UInv, NothingFailed
  <2>2. g = batch[n]
    <3>1. batch[n] \in Batch
      BY <1>2 DEF SInv, L1Inv, L1TypeOK, StorageTypeOK
    <3>2. L1ProofOf(r, n) = batch[n].l1Proof
      BY <2>1, L1ProofRestored
    <3>3. batch[n].parent = NoParent /\ batch[n].height = L2GenesisHeight /\ batch[n].txs = {}
      BY <1>2, <1>9 DEF SInv, Tree, Chained
    <3>. QED  BY <3>1, <3>2, <3>3 DEF Batch
  <2>3. ExecuteAndSave(r, known, acc, n) = [ acc EXCEPT !.parent = n, !.saved = save(g) ]
    BY <1>1, <1>9 DEF ExecuteAndSave, save
  <2>4. save(g) = rest
    BY <1>6, <1>9, <2>2
  <2>. QED  BY <1>1, <1>5, <2>1, <2>3, <2>4
<1>10. CASE n \notin known /\ n # L2GenesisSeqNo /\ n \notin canonicalBatches
  <2>1. n \in DOMAIN r.reorgs /\ r.reorgs[n] = batch[n]
    BY <1>3, <1>10 DEF RollupOf, ExtRollup
  <2>2. ExecuteAndSave(r, known, acc, n) = [ acc EXCEPT !.saved = save(r.reorgs[n]) ]
    BY <1>1, <1>10, <2>1 DEF ExecuteAndSave, save
  <2>3. save(r.reorgs[n]) = rest
    BY <1>6, <1>10, <2>1
  <2>. QED  BY <1>1, <1>5, <1>10, <2>2, <2>3
<1>11. CASE n \notin known /\ n # L2GenesisSeqNo /\ n \in canonicalBatches
  <2> DEFINE b == [ parent |-> acc.parent, height |-> parentBatch.height + 1,
                    l1Proof |-> L1ProofOf(r, n), txs |-> r.txs[n] ]
  <2>1. n \notin DOMAIN r.reorgs
    BY <1>3, <1>11
  <2>2. L1ProofOf(r, n) = batch[n].l1Proof
    BY <1>11, L1ProofRestored
  <2>3. acc.parent = batch[n].parent
    BY <1>1, <1>11, ParentRecreated DEF first
  <2>4. /\ batch[batch[n].parent].l1Proof \preceq batch[n].l1Proof
        /\ batch[n].height = batch[batch[n].parent].height + 1
    BY <1>2, <1>11 DEF SInv, Tree, OnParentBranch, IsAncestor
  <2>5. ExecuteAndSave(r, known, acc, n) = [ acc EXCEPT !.parent = n, !.saved = save(b) ]
    BY <1>1, <1>7, <1>11, <2>1, <2>2, <2>3, <2>4 DEF ExecuteAndSave, save, parentBatch
  <2>6. b = batch[n]
    <3>1. r.txs[n] = batch[n].txs
      BY <1>2 DEF RollupOf, ExtRollup
    <3>2. batch[n] \in Batch
      BY <1>2 DEF SInv, L1Inv, L1TypeOK, StorageTypeOK
    <3>. QED  BY <1>7, <2>2, <2>3, <2>4, <3>1, <3>2 DEF Batch
  <2>7. save(b) = rest
    BY <1>6, <1>11, <2>6
  <2>. QED  BY <1>1, <1>5, <1>11, <2>5, <2>7
<1>. QED  BY <1>8, <1>9, <1>10, <1>11

\* A nonempty set of numbers has a least one.
LEMMA LeastNumber ==
    ASSUME NEW M \in Nat, NEW T \in SUBSET (0..M), T # {}
    PROVE  \E x \in T : \A y \in T : x <= y
<1> DEFINE U == { k \in 0..M : M - k \in T }
<1>1. U \in SUBSET (0..M) /\ U # {}
  <2>1. PICK x \in T : TRUE
    OBVIOUS
  <2>2. M - x \in 0..M /\ M - (M - x) = x
    OBVIOUS
  <2>3. M - x \in U
    BY <2>2
  <2>. QED  BY <2>3
<1>2. PICK u \in U : \A v \in U : v <= u
  <2> HIDE DEF U
  <2>. QED  BY <1>1, GreatestNumber
<1>3. ASSUME NEW y \in T PROVE M - u <= y
  <2>1. M - y \in 0..M /\ M - (M - y) = y
    OBVIOUS
  <2>2. M - y \in U
    BY <2>1
  <2>3. M - y <= u
    BY <1>2, <2>2
  <2>. QED  BY <2>3
<1>. QED  BY <1>2, <1>3

\* The node has the parent that the rollup starts from.
LEMMA FirstParentKnown ==
    ASSUME SInv, UInv, NEW from \in Stored, NEW last \in Stored, from # L2GenesisSeqNo,
           \A k \in from..last : k \in Stored
    PROVE  FirstCanonParentHash(from, last) \in 1..(from - 1)
<1> DEFINE canon == { n \in from..last : ~IsReorg(n) }
<1>1. canonicalBatches \subseteq Stored
  BY DEF SInv, L1Inv, L1TypeOK, StorageTypeOK
<1>2. from \in Nat /\ from # 0 /\ last \in Nat /\ \A k \in Stored : k \in Nat /\ k # 0
  BY BatchTyped DEF NoParent
<1>3. ASSUME canon = {} PROVE FirstCanonParentHash(from, last) \in 1..(from - 1)
  <2>1. batch[from].parent \in Stored /\ batch[from].parent < from
    BY DEF SInv, Tree
  <2>2. FirstCanonParentHash(from, last) = batch[from].parent
    BY <1>3 DEF FirstCanonParentHash
  <2>3. /\ FirstCanonParentHash(from, last) \in Nat /\ FirstCanonParentHash(from, last) # 0
        /\ FirstCanonParentHash(from, last) < from
    BY <1>2, <2>1, <2>2
  <2>. QED  BY <1>2, <2>3
<1>4. ASSUME canon # {} PROVE FirstCanonParentHash(from, last) \in 1..(from - 1)
  <2> DEFINE c == CHOOSE n \in canon : \A k \in canon : n <= k
  <2>1. \E n \in canon : \A k \in canon : n <= k
    <3>1. canon \in SUBSET (0..last)
      BY <1>2
    <3> HIDE DEF canon
    <3>. QED  BY <1>2, <1>4, <3>1, LeastNumber
  <2>2. c \in canon /\ \A k \in canon : c <= k
    BY <2>1
  <2>3. FirstCanonParentHash(from, last) = batch[c].parent
    BY <1>4 DEF FirstCanonParentHash
  <2> HIDE DEF c
  <2>4. c \in canonicalBatches /\ c \in from..last /\ c # L2GenesisSeqNo
    BY <1>2, <2>2, ReorgsAreNotCanonical DEF L2GenesisSeqNo
  <2> DEFINE p == batch[c].parent
  <2>5. p \in canonicalBatches /\ p < c
    BY <2>4, CanonicalBefore
  <2> HIDE DEF p
  <2>6. p \in Nat /\ p # 0
    BY <1>1, <1>2, <2>5
  <2>7. p < from
    <3>1. SUFFICES ASSUME from <= p PROVE FALSE
      BY <1>2, <2>6
    <3>2. p \in canon
      BY <1>2, <2>4, <2>5, <2>6, <3>1, ReorgsAreNotCanonical
    <3>. QED  BY <1>2, <2>2, <2>4, <2>5, <2>6, <3>2
  <2>. QED  BY <1>2, <2>3, <2>6, <2>7 DEF p
<1>. QED  BY <1>3, <1>4

(* The loop ends with all that the node did not know, as the sequencer stored  *)
(* it: the recursion has the one solution Restored.                            *)
LEMMA RecreatedIsRestored ==
    ASSUME SInv, Chained, UInv,
           NEW from \in Stored, NEW last \in Stored, from <= last, NEW r, RollupOf(r, from, last),
           NEW known, CatchesUp(known, from, last)
    PROVE  Recreated(r, known) = Restored(from, last, known, last)
<1> DEFINE start == [ parent |-> r.firstCanonParent, saved |-> << >>,
                      ok |-> r.first = L2GenesisSeqNo \/ r.firstCanonParent \in known ]
           step(acc, n) == ExecuteAndSave(r, known, acc, n)
           R(n) == Restored(from, last, known, n)
           P(f) == f = [ n \in (from - 1)..last |-> IF n = from - 1 THEN start ELSE step(f[n - 1], n) ]
           g == [ n \in (from - 1)..last |-> R(n) ]
           f == CHOOSE e : P(e)
<1>1. from \in Nat /\ from # 0 /\ last \in Nat
  BY BatchTyped DEF NoParent
<1>2. r.first = from /\ r.last = last /\ r.firstCanonParent = FirstCanonParentHash(from, last)
  <2>1. PICK l1Head \in canonicalBlocks : r = ExtRollup(from, last, l1Head)
    BY DEF RollupOf
  <2>. QED  BY <2>1 DEF ExtRollup
<1>3. Recreated(r, known) = f[last]
  BY <1>2 DEF Recreated
<1>4. R(from - 1) = start
  <2>1. from..(from - 1) = {}
    BY <1>1
  <2>2. Canonical(from, from - 1) = {}
    BY <2>1 DEF Canonical
  <2>3. ParentAfter(from, from - 1, r.firstCanonParent) = r.firstCanonParent
    BY <2>2 DEF ParentAfter
  <2>4. (from..(from - 1)) \ known = {}
    BY <2>1
  <2>5. [ k \in (from..(from - 1)) \ known |-> batch[k] ] = << >>
    BY <2>4
  <2>6. (r.first = L2GenesisSeqNo \/ r.firstCanonParent \in known) = TRUE
    BY <1>2, FirstParentKnown DEF RollupOf, CatchesUp
  <2>. QED  BY <1>2, <2>3, <2>5, <2>6 DEF Restored
<1>5. \A n \in from..last : step(R(n - 1), n) = R(n)
  BY RestoresNext
<1> HIDE DEF start, step, R
<1>6. P(g)
  <2>1. ASSUME NEW n \in (from - 1)..last
        PROVE  R(n) = IF n = from - 1 THEN start ELSE step(g[n - 1], n)
    <3>1. CASE n = from - 1
      BY <1>4, <3>1
    <3>2. CASE n # from - 1
      <4>1. n \in from..last /\ n - 1 \in (from - 1)..last
        BY <1>1, <3>2
      <4>2. g[n - 1] = R(n - 1)
        BY <4>1
      <4>. QED  BY <1>5, <3>2, <4>1, <4>2
    <3>. QED  BY <3>1, <3>2
  <2>. QED  BY <2>1
<1>7. P(f)
  BY <1>6
<1>8. \A n \in (from - 1)..last : f[n] = IF n = from - 1 THEN start ELSE step(f[n - 1], n)
  BY <1>7
<1> HIDE DEF f
<1> DEFINE A == { i \in Nat : (from - 1) + i <= last => f[(from - 1) + i] = R((from - 1) + i) }
<1>9. 0 \in A
  <2>1. from - 1 \in (from - 1)..last /\ (from - 1) + 0 = from - 1
    BY <1>1
  <2>2. f[from - 1] = R(from - 1)
    BY <1>4, <1>8, <2>1
  <2>. QED  BY <2>1, <2>2
<1>10. ASSUME NEW i \in Nat, i \in A PROVE i + 1 \in A
  <2> DEFINE n == (from - 1) + (i + 1)
  <2>1. SUFFICES ASSUME n <= last PROVE f[n] = R(n)
    OBVIOUS
  <2>2. /\ n \in from..last /\ n \in (from - 1)..last /\ n # from - 1
        /\ n - 1 = (from - 1) + i /\ (from - 1) + i <= last
    BY <1>1, <2>1
  <2>3. f[n - 1] = R(n - 1)
    BY <1>10, <2>2
  <2> HIDE DEF n
  <2>. QED  BY <1>5, <1>8, <2>2, <2>3
<1>11. Nat \subseteq A
  <2> HIDE DEF A
  <2>. QED  BY <1>9, <1>10, NatSetInduction
<1>12. last - (from - 1) \in Nat /\ (from - 1) + (last - (from - 1)) = last
  BY <1>1
<1>13. last - (from - 1) \in A
  BY <1>11, <1>12
<1>14. f[last] = R(last)
  BY <1>1, <1>12, <1>13
<1>. QED  BY <1>3, <1>14 DEF f, R

(* A node that catches up from rollups recreates the sequencer's batches, with *)
(* any of the batches that were not reorged already stored.                    *)
THEOREM RecreatesBatchesHolds == Spec => []RecreatesBatches
<1>1. SInv /\ Chained /\ (Undisturbed => UInv) => RecreatesBatches
  <2> SUFFICES ASSUME SInv, Chained, UInv, NEW from \in Stored, NEW r \in CreateRollup(from),
                      NEW live \in SUBSET ((r.first..r.last) \ DOMAIN r.reorgs)
               PROVE  Exact(r, (1..(from - 1)) \cup live)
    BY DEF RecreatesBatches
  <2>1. PICK last \in Stored : from <= last /\ RollupOf(r, from, last)
    BY RollupFacts
  <2> DEFINE known == (1..(from - 1)) \cup live
             rec == Recreated(r, known)
  <2>2. /\ r.first = from /\ r.last = last
        /\ DOMAIN r.reorgs = { k \in from..last : k \notin canonicalBatches }
    BY <2>1, ReorgsAreNotCanonical DEF RollupOf, ExtRollup
  <2>3. CatchesUp(known, from, last)
    <3>1. from \in Nat /\ last \in Nat
      BY BatchTyped
    <3>. QED  BY <2>2, <3>1 DEF CatchesUp
  <2>4. rec = Restored(from, last, known, last)
    <3> HIDE DEF known
    <3>. QED  BY <2>1, <2>3, RecreatedIsRestored
  <2>5. rec.ok /\ \A n \in DOMAIN rec.saved : rec.saved[n] = batch[n]
    <3> HIDE DEF rec
    <3>. QED  BY <2>4 DEF Restored
  <2>. QED  BY <2>5 DEF Exact
<1>. QED  BY <1>1, SequencerInvariance, ChainInvariance, UndisturbedInvariance, PTL
===============================================================================
