------------------------------ MODULE MCValidator ------------------------------
(* Validator on small L1 trees and three shapes of ledger. *)
EXTENDS Validator, TLC

CONSTANTS
    left, right,   \* the labels of L1 blocks
    t              \* a transaction

Entry(parent, height, l1Proof, txs) ==
    [ parent |-> parent, height |-> height, l1Proof |-> l1Proof, txs |-> txs ]

GenesisBatch == Entry(NoParent, L2GenesisHeight, L1Genesis, {})

MCLedgers ==
    { \* one batch per L1 block
      << GenesisBatch, Entry(1, 1, <<left>>, {t}), Entry(2, 2, <<left, left>>, {t}) >>,
      \* two batches on one L1 block
      << GenesisBatch, Entry(1, 1, <<left>>, {t}), Entry(2, 2, <<left>>, {}) >>,
      \* the second batch orphaned by a fork, and its duplicate
      << GenesisBatch, Entry(1, 1, <<left>>, {t}), Entry(1, 1, L1Genesis, {t}) >> }

\* Calls that overlap, and crashes between calls that do not.
MCEnvironments ==
    { [ calls |-> Calls, crashes |-> 0 ] } \cup { [ calls |-> {c}, crashes |-> 1 ] : c \in Calls }

CallSymmetry == Permutations(Calls)
===============================================================================
