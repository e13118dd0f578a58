-------------------------------- MODULE Rollup --------------------------------
(* Rollups: what the sequencer publishes of its batches, and what a node makes *)
(* of it.  A rollup holds the transactions of consecutive batches, the heights *)
(* of their L1 proofs, and the full headers of the batches that were reorged;  *)
(* the other headers are recomputed, each on the one before.  CreateRollup     *)
(* changes no table, so the properties are invariants of the sequencer, about  *)
(* every rollup it could create.  Encoding, encryption and the time stamps,    *)
(* which travel as differences, are left out.                                  *)
EXTENDS Sequencer

CONSTANT RollupDelay    \* number of L1 blocks to exclude

ASSUME RollupAssumption == RollupDelay \in Nat

(* CreateRollup's upToL1Height.  It is unsigned: with an L1 head below the     *)
(* delay it wraps, no canonical block has that height, and there is no rollup. *)
UpToL1Heights == { Height(h) - RollupDelay : h \in HeadBlocks } \cap Nat

(* batchRegistry.BatchesAfter: the last sequence numbers the batches taken may *)
(* end with, the limiter stopping anywhere.                                    *)
LastBatches(from, upToL1Height) ==
    { n \in Stored :
        /\ from <= n
        /\ \E h \in HeadBatches : n <= h
        /\ \A k \in from..n : k \in Stored /\ Height(batch[k].l1Proof) <= upToL1Height }

\* createRollupHeader: the canonical batch of the same height is another one.
IsReorg(n) == n \notin CanonicalAtHeight(batch[n].height)

\* Mutant: the first batch's parent, canonical or not.
FirstCanonParentHashOfFirst(from, last) == batch[from].parent

\* The parent of the first batch without an entry in reorgs, or else of the first.
FirstCanonParentHash(from, last) ==
    LET canon == { n \in from..last : ~IsReorg(n) }
    IN  IF canon = {} THEN batch[from].parent
        ELSE batch[CHOOSE n \in canon : \A k \in canon : n <= k].parent

\* The first element is the actual height.
L1HeightDeltas(from, last) ==
    [ n \in from..last |-> IF n = from THEN Height(batch[n].l1Proof)
                           ELSE Height(batch[n].l1Proof) - Height(batch[n - 1].l1Proof) ]

\* CreateExtRollup: the rollup of the batches, compressed against an L1 block.
ExtRollup(from, last, l1Head) ==
    [ first             |-> from,
      last              |-> last,
      compressionL1Head |-> l1Head,
      firstCanonParent  |-> FirstCanonParentHash(from, last),
      l1HeightDeltas    |-> L1HeightDeltas(from, last),
      reorgs            |-> [ n \in { k \in from..last : IsReorg(k) } |-> batch[n] ],
      txs               |-> [ n \in from..last |-> batch[n].txs ] ]

(* CreateRollup, when every height of the batches has a canonical batch: the   *)
(* lookup of the others fails.                                                 *)
CreateRollup(from) ==
    UNION { { ExtRollup(from, last, l1Head) :
                last \in { n \in LastBatches(from, height) :
                             \A k \in from..n : CanonicalAtHeight(batch[k].height) # {} },
                l1Head \in { b \in canonicalBlocks : Height(b) = height } } :
            height \in UpToL1Heights }

-------------------------------------------------------------------------------
\* createIncompleteBatches: the L1 height of the n-th batch, from the differences.
L1HeightOf(r, n) ==
    LET height[k \in r.first..r.last] ==
            r.l1HeightDeltas[k] + (IF k = r.first THEN 0 ELSE height[k - 1])
    IN  height[n]

\* getAncestorOfHeight, relative to the rollup's L1 head.
L1ProofOf(r, n) == Upto(r.compressionL1Head, L1HeightOf(r, n))

(* One turn of the loop of executeAndSaveIncompleteBatches, on a node that has *)
(* the batches known, and has executed them.  acc holds the parent of the next *)
(* batch to compute, the batches saved, and whether all went well.  A batch    *)
(* that is already stored becomes the parent of the next.  ComputeBatch's      *)
(* assertion that the L1 proofs of a batch and of its parent are on the same   *)
(* fork ends the process.                                                      *)
ExecuteAndSave(r, known, acc, n) ==
    LET save(b)     == [ k \in DOMAIN acc.saved \cup {n} |-> IF k = n THEN b ELSE acc.saved[k] ]
        parentBatch == IF acc.parent \in DOMAIN acc.saved THEN acc.saved[acc.parent]
                       ELSE batch[acc.parent]
    IN  IF ~acc.ok
        THEN acc
        ELSE IF n \in known
        THEN [ acc EXCEPT !.parent = n ]
        ELSE IF n = L2GenesisSeqNo
        THEN [ acc EXCEPT !.parent = n,
                          !.saved = save([ parent |-> NoParent, height |-> L2GenesisHeight,
                                           l1Proof |-> L1ProofOf(r, n), txs |-> {} ]) ]
        ELSE IF n \in DOMAIN r.reorgs
        THEN [ acc EXCEPT !.saved = save(r.reorgs[n]) ]
        ELSE IF n > L2GenesisSeqNo + 1 /\ ~(parentBatch.l1Proof \preceq L1ProofOf(r, n))
        THEN [ acc EXCEPT !.ok = FALSE ]
        ELSE [ acc EXCEPT !.parent = n,
                          !.saved = save([ parent |-> acc.parent, height |-> parentBatch.height + 1,
                                           l1Proof |-> L1ProofOf(r, n), txs |-> r.txs[n] ]) ]

\* executeAndSaveIncompleteBatches: the first parent must be there, then batch by batch.
Recreated(r, known) ==
    LET result[n \in (r.first - 1)..r.last] ==
            IF n = r.first - 1
            THEN [ parent |-> r.firstCanonParent, saved |-> << >>,
                   ok |-> r.first = L2GenesisSeqNo \/ r.firstCanonParent \in known ]
            ELSE ExecuteAndSave(r, known, result[n - 1], n)
    IN  result[r.last]

-------------------------------------------------------------------------------
\* The node ends with the sequencer's batches.
Exact(r, known) ==
    LET result == Recreated(r, known)
    IN  /\ result.ok
        /\ \A n \in DOMAIN result.saved : result.saved[n] = batch[n]

(* The requirement on RollupCompression, to recreate the exact batch headers   *)
(* as the live ones, for a node that catches up from rollups: it has all       *)
(* batches before the rollup, and of the rollup any that were not reorged.     *)
RecreatesBatches ==
    Undisturbed /\ handler = Idle =>
        \A from \in Stored : \A r \in CreateRollup(from) :
            \A live \in SUBSET ((r.first..r.last) \ DOMAIN r.reorgs) :
                Exact(r, (1..(from - 1)) \cup live)

(* The same requirement, for a node that received the first batches of the     *)
(* rollup live, reorged or not, and the rest in the rollup.                    *)
RecreatesAfterLiveBatches ==
    Undisturbed /\ handler = Idle =>
        \A from \in Stored : \A r \in CreateRollup(from) : \A k \in (from - 1)..r.last :
            Exact(r, 1..k)

(* createRollupHeader's lookup of the canonical batch of each height succeeds, *)
(* though batches are reorged: with an L1 head above the delay, there is a     *)
(* rollup of the batches from any one whose L1 proof is old enough.            *)
RollupPossible ==
    Undisturbed /\ handler = Idle =>
        \A from \in Stored : \A height \in UpToL1Heights :
            LastBatches(from, height) # {} => CreateRollup(from) # {}
===============================================================================
