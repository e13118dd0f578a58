-------------------------------- MODULE L1View --------------------------------
(* What the rest of the enclave relies on when it reads an is_canonical flag:  *)
(* the canonical blocks are the latest block that was accepted and its stored  *)
(* ancestors, and a batch is canonical exactly when its L1 proof is.  Here the *)
(* flags are recomputed from nothing at every step; the enclave never does so, *)
(* it patches the rows a fork touches.                                         *)
EXTENDS L1Blocks

VARIABLES blocks, canonicalBlocks, batch, canonicalBatches

viewVars == << blocks, canonicalBlocks, batch, canonicalBatches >>

CanonicalIn(table, canonical) == { n \in DOMAIN table : table[n].l1Proof \in canonical }

ViewInit ==
    /\ blocks = {}
    /\ canonicalBlocks = {}
    /\ batch = << >>
    /\ canonicalBatches = {}

\* A block is accepted as the new L1 head.
NewHead(b) ==
    /\ b \notin blocks
    /\ blocks' = blocks \cup {b}
    /\ canonicalBlocks' = { c \in blocks \cup {b} : c \preceq b }
    /\ canonicalBatches' = CanonicalIn(batch, canonicalBlocks')
    /\ batch' = batch

\* The L1 genesis block is filled in below a chain that started above it.
FillGenesis ==
    /\ L1Genesis \notin blocks
    /\ blocks' = blocks \cup {L1Genesis}
    /\ canonicalBlocks' = canonicalBlocks \cup {L1Genesis}
    /\ canonicalBatches' = CanonicalIn(batch, canonicalBlocks')
    /\ batch' = batch

\* A batch is stored; no batch already stored is altered.
NewBatch ==
    /\ \A n \in DOMAIN batch : n \in DOMAIN batch' /\ batch'[n] = batch[n]
    /\ canonicalBatches' = CanonicalIn(batch', canonicalBlocks)
    /\ UNCHANGED << blocks, canonicalBlocks >>

ViewNext ==
    \/ \E b \in L1Block : NewHead(b)
    \/ FillGenesis
    \/ NewBatch

ViewSpec == ViewInit /\ [][ViewNext]_viewVars
===============================================================================
