------------------------------- MODULE L1Blocks -------------------------------
(* The L1 blocks an enclave is fed, and the walk that relates two of them.     *)
(*                                                                             *)
(* A block's hash commits to all its ancestors, so a block IS its path from    *)
(* the L1 genesis block: a sequence of labels, one per block above genesis.    *)
(* The genesis block is the empty path, the height is the length, the parent   *)
(* drops the last label, and two blocks are the same iff their paths are.      *)
EXTENDS Integers, Sequences

CONSTANTS
    Labels,     \* what tells two blocks with the same parent apart
    MaxHeight   \* bound on the height of the blocks considered

ASSUME MaxHeightAssumption == MaxHeight \in Nat

L1Block == UNION { [1..k -> Labels] : k \in 0..MaxHeight }

L1Genesis == << >>

Height(b) == Len(b)

\* The ancestor of b at height k (b itself when k is its height).
Upto(b, k) == SubSeq(b, 1, k)

Parent(b) == Upto(b, Len(b) - 1)

\* a is b or an ancestor of b.
a \preceq b == Len(a) <= Len(b) /\ a = Upto(b, Len(a))

-------------------------------------------------------------------------------
\* The blocks met walking from b down to its ancestor c, c excluded.
ForkPath(b, c) == { Upto(b, k) : k \in (Len(c) + 1)..Len(b) }

IsLatestCommonAncestor(c, a, b) ==
    /\ c \preceq a
    /\ c \preceq b
    /\ \A k \in (Len(c) + 1)..Len(a) : k <= Len(b) => Upto(a, k) # Upto(b, k)

\* Mutant: the walk does not notice that a block is missing.
LCAIgnoringHoles(newCanonical, oldCanonical, stored) ==
    { [ commonAncestor   |-> c,
        canonicalPath    |-> ForkPath(newCanonical, c) \ {newCanonical},
        nonCanonicalPath |-> ForkPath(oldCanonical, c) ] :
      c \in { d \in L1Block : IsLatestCommonAncestor(d, newCanonical, oldCanonical) } }

(* gethutil.LCA over the blocks that are stored: the set of ChainForks it can  *)
(* return, empty when the walk meets a block that is not stored and fails.     *)
(* The walk stops at once, with both paths empty, when either block is at the  *)
(* L1 genesis height.                                                          *)
LCA(newCanonical, oldCanonical, stored) ==
    IF Height(newCanonical) = 0 \/ Height(oldCanonical) = 0
    THEN { [ commonAncestor   |-> newCanonical,
             canonicalPath    |-> {},
             nonCanonicalPath |-> {} ] }
    ELSE { [ commonAncestor   |-> c,
             canonicalPath    |-> ForkPath(newCanonical, c) \ {newCanonical},
             nonCanonicalPath |-> ForkPath(oldCanonical, c) ] :
           c \in { d \in stored :
                     /\ IsLatestCommonAncestor(d, newCanonical, oldCanonical)
                     /\ ForkPath(newCanonical, d) \ {newCanonical} \subseteq stored
                     /\ ForkPath(oldCanonical, d) \subseteq stored } }

\* ChainFork.IsFork.
IsFork(fork) == fork.nonCanonicalPath # {}

(* storage.IsAncestor: the walk from block towards maybeAncestor, which fails  *)
(* on a block that is not stored.                                              *)
IsAncestor(block, maybeAncestor, stored) ==
    /\ maybeAncestor \preceq block
    /\ \A k \in Len(maybeAncestor)..(Len(block) - 1) : Upto(block, k) \in stored
===============================================================================
