---------------------------- MODULE L1BlockProcessor ----------------------------
(* L1 block ingestion: what a submitted block does to the block and batch      *)
(* tables, and what the rest of the enclave may then rely on.                  *)
EXTENDS EnclaveStorage, FiniteSets

CONSTANT MaxBlocks  \* bound on the number of blocks stored

VARIABLE
    l1Messages  \* the blocks whose cross chain messages are in table l1_msg

l1Vars == << storageVars, l1Messages >>

NoFork == [ commonAncestor |-> L1Genesis, canonicalPath |-> {}, nonCanonicalPath |-> {} ]

IsChild(b, h) == b # L1Genesis /\ Parent(b) = h

(* ingestBlock: the forks it can return.  None is returned when the walk to    *)
(* the common ancestor meets a missing block: the block is rejected.           *)
IngestBlock(b) ==
    IF HeadBlocks = {}
    THEN { NoFork }
    ELSE UNION { IF IsChild(b, h) THEN { NoFork } ELSE LCA(b, h, blocks) : h \in HeadBlocks }

\* tryAndInsertBlock, for a block that is neither known nor rejected.
TryAndInsertBlock(b, fork) ==
    /\ b \notin blocks
    /\ Cardinality(blocks) < MaxBlocks
    /\ fork \in IngestBlock(b)
    /\ StoreBlock(b, fork)

(* Process: except for the first block, the cross chain messages are stored    *)
(* after the block, and in a write of their own.                               *)
Process(b, fork) ==
    /\ TryAndInsertBlock(b, fork)
    /\ l1Messages' = IF HeadBlocks = {} THEN l1Messages ELSE l1Messages \cup {b}

\* Process fails on the messages: the block stays stored, and is never retried.
ProcessFails(b, fork) ==
    /\ HeadBlocks # {}
    /\ TryAndInsertBlock(b, fork)
    /\ UNCHANGED l1Messages

L1Init == StorageInit /\ l1Messages = {}

L1TypeOK == StorageTypeOK /\ l1Messages \subseteq blocks

-------------------------------------------------------------------------------
(* The canonical blocks are one chain, however blocks and forks arrive: there  *)
(* is a block, unique as FetchHeadBlock's answer, whose stored ancestors are   *)
(* exactly the blocks flagged is_canonical by StoreBlock.                      *)
CanonicalChain ==
    blocks # {} =>
        \E h \in blocks :
            /\ HeadBlocks = {h}
            /\ canonicalBlocks = { b \in blocks : b \preceq h }

(* StoreBlock and WriteBatchAndTransactions keep the flags of the two tables   *)
(* in step: a batch is canonical iff the block that is its L1 proof is stored  *)
(* and canonical, whichever of the two arrived first.                          *)
BatchFlagsAgree ==
    \A n \in Stored : n \in canonicalBatches <=> batch[n].l1Proof \in canonicalBlocks

(* Above the L1 genesis block the stored blocks have no holes: the blocks      *)
(* between two stored blocks of one branch are stored, so the walks of LCA,    *)
(* IsAncestor and getAncestorOfHeight between them cannot fail.                *)
NoHoles ==
    \A b \in blocks : \A j, k \in 1..MaxHeight :
        (j <= k /\ k <= Height(b) /\ Upto(b, j) \in blocks) => Upto(b, k) \in blocks

\* h is the head: the flags say so, and no block stored descends from it.
IsTip(h) ==
    /\ canonicalBlocks = { b \in blocks : b \preceq h }
    /\ \A x \in blocks : h \preceq x => x = h

(* Either every branch is stored from its first block above the L1 genesis     *)
(* block, or none is: tryAndInsertBlock never lets two branches meet in a      *)
(* genesis block that was filled in late.                                      *)
RootsAgree ==
    \A x, y \in blocks \ {L1Genesis} : Upto(x, 1) \in blocks <=> Upto(y, 1) \in blocks

(* The inductive invariant of L1 ingestion.  CanonicalChain alone is not       *)
(* inductive: a block that is accepted must not be an ancestor of stored       *)
(* blocks, which takes NoHoles and RootsAgree.                                 *)
L1Inv ==
    /\ L1TypeOK
    /\ blocks # {} => \E h \in blocks : IsTip(h)
    /\ NoHoles
    /\ RootsAgree
    /\ BatchFlagsAgree

View == INSTANCE L1View WITH blocks <- blocks, canonicalBlocks <- canonicalBlocks,
                             batch <- batch, canonicalBatches <- canonicalBatches

\* The flags, patched fork by fork, are the ones L1View computes from nothing.
FlagsRefineView == View!ViewSpec
===============================================================================
