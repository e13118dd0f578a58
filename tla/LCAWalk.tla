-------------------------------- MODULE LCAWalk --------------------------------
(* The recursive walks of gethutil.LCA and storage.IsAncestor through the      *)
(* blocks that are stored, against the closed forms of L1Blocks that the other *)
(* modules use, in every state L1 ingestion reaches.                           *)
EXTENDS L1Ingestion, SequencesExt

\* As StepsDown, on both branches whatever their heights.
StepsDownAlways(b, other) == TRUE

\* internalLCA steps down on the higher branch, or on both.
StepsDown(b, other) == Height(b) >= Height(other)

(* gethutil.internalLCA: the set of its results, empty when FetchBlock does    *)
(* not find a parent.                                                          *)
RECURSIVE internalLCA(_, _, _, _)
internalLCA(newCanonical, oldCanonical, canonicalPath, nonCanonicalPath) ==
    LET p == IF StepsDown(newCanonical, oldCanonical) THEN << Parent(newCanonical) >> ELSE << >>
        q == IF StepsDown(oldCanonical, newCanonical) THEN << Parent(oldCanonical) >> ELSE << >>
    IN  IF Height(newCanonical) = 0 \/ Height(oldCanonical) = 0 \/ newCanonical = oldCanonical
        THEN { [ commonAncestor   |-> newCanonical,
                 canonicalPath    |-> canonicalPath,
                 nonCanonicalPath |-> nonCanonicalPath ] }
        ELSE IF ToSet(p \o q) \subseteq blocks
        THEN internalLCA(Last(<< newCanonical >> \o p), Last(<< oldCanonical >> \o q),
                         canonicalPath \o p, nonCanonicalPath \o q)
        ELSE {}

WithoutLast(path) == IF path = << >> THEN path ELSE Front(path)

\* gethutil.LCA: the common ancestor, last on both paths, is removed from them.
WalkLCA(newCanonical, oldCanonical) ==
    { [ fork EXCEPT !.canonicalPath = WithoutLast(@), !.nonCanonicalPath = WithoutLast(@) ] :
      fork \in internalLCA(newCanonical, oldCanonical, << >>, << oldCanonical >>) }

\* storage.IsAncestor.
RECURSIVE WalkIsAncestor(_, _)
WalkIsAncestor(b, maybeAncestor) ==
    \/ maybeAncestor = b
    \/ /\ Height(maybeAncestor) < Height(b)
       /\ Parent(b) \in blocks
       /\ WalkIsAncestor(Parent(b), maybeAncestor)

-------------------------------------------------------------------------------
\* The calls of LCA: a new block that is not the child of the head.
Forks == { << new, old >> \in (L1Block \ blocks) \X blocks :
             Height(new) > 0 => Parent(new) # old }

(* The walks over the stored blocks find what they should.  Of every new block *)
(* and every stored one, the walk of LCA fails exactly when the closed form    *)
(* has no answer, and otherwise finds its ancestor and the blocks of its two   *)
(* paths, each block once, so that the order of the two updates of             *)
(* UpdateCanonicalBlocks does not matter.  The walk of storage.IsAncestor from *)
(* any block, stored or not, agrees with its closed form for every stored      *)
(* candidate.                                                                  *)
WalksMatchClosedForms ==
    /\ \A call \in Forks :
         LET walk == WalkLCA(call[1], call[2])
         IN  /\ LCA(call[1], call[2], blocks) =
                   { [ fork EXCEPT !.canonicalPath = ToSet(@), !.nonCanonicalPath = ToSet(@) ] :
                     fork \in walk }
             /\ \A fork \in walk : IsInjective(fork.canonicalPath \o fork.nonCanonicalPath)
    /\ \A b \in L1Block, a \in blocks : WalkIsAncestor(b, a) <=> IsAncestor(b, a, blocks)

-------------------------------------------------------------------------------
(* A tree with two children per block.  The columns of a batch that ingestion  *)
(* does not look at are fixed.                                                 *)
MCRows == { [ parent |-> NoParent, height |-> 0, l1Proof |-> p, txs |-> {} ] : p \in L1Block }

LabelSymmetry == Permutations(Labels)
===============================================================================
