------------------------- MODULE L1BlockProcessor_proofs -------------------------
(* What L1 ingestion does to the tables, for every set of labels and every     *)
(* bound: the lemmas that the proofs about the sequencer's and the validator's *)
(* enclave share, and the invariant and the refinement of ingestion under any  *)
(* client.                                                                     *)
EXTENDS L1Ingestion, WellFoundedInduction, TLAPS

-------------------------------------------------------------------------------
\* Induction over the natural numbers, for a set instead of a predicate.

\* A set that contains 0, and with every number the next, contains them all.
LEMMA NatSetInduction ==
    ASSUME NEW S, 0 \in S, \A n \in Nat : n \in S => n + 1 \in S
    PROVE  Nat \subseteq S
<1> DEFINE T == Nat \ S
           R == OpToRel(<, Nat)
<1>1. SUFFICES ASSUME T # {} PROVE FALSE
  OBVIOUS
<1>2. IsWellFoundedOn(R, Nat)
  BY NatLessThanWellFounded
<1>3. T \subseteq Nat
  OBVIOUS
<1>4. PICK x \in T : \A y \in T : ~ (<<y, x>> \in R)
  <2> HIDE DEF T, R
  <2>. QED  BY <1>1, <1>2, <1>3, WFMin
<1>5. x # 0 /\ x - 1 \in Nat
  OBVIOUS
<1>6. x - 1 \in T
  BY <1>5
<1>7. <<x - 1, x>> \in R
  BY <1>5 DEF OpToRel
<1>. QED  BY <1>4, <1>6, <1>7

\* A bounded set of natural numbers that is not empty has a greatest element.
LEMMA GreatestNumber ==
    ASSUME NEW M \in Nat, NEW T \in SUBSET (0..M), T # {}
    PROVE  \E x \in T : \A y \in T : y <= x
<1> DEFINE HasGreatest(U) == U # {} => \E x \in U : \A y \in U : y <= x
           S == { k \in Nat : \A U \in SUBSET (0..k) : HasGreatest(U) }
<1>1. 0 \in S
  <2>1. SUFFICES ASSUME NEW U \in SUBSET (0..0), U # {}
                 PROVE  \E x \in U : \A y \in U : y <= x
    OBVIOUS
  <2>2. \A y \in U : y = 0
    OBVIOUS
  <2>3. PICK x \in U : TRUE
    BY <2>1
  <2>. QED  BY <2>2, <2>3
<1>2. ASSUME NEW k \in Nat, k \in S PROVE k + 1 \in S
  <2>1. SUFFICES ASSUME NEW U \in SUBSET (0..(k + 1)), U # {}
                 PROVE  \E x \in U : \A y \in U : y <= x
    OBVIOUS
  <2>2. CASE k + 1 \in U
    <3>1. \A y \in U : y <= k + 1
      OBVIOUS
    <3>. QED  BY <2>2, <3>1
  <2>3. CASE k + 1 \notin U
    <3>1. U \in SUBSET (0..k)
      BY <2>3
    <3>. QED  BY <1>2, <2>1, <3>1
  <2>. QED  BY <2>2, <2>3
<1>3. M \in S
  <2> HIDE DEF S
  <2>. QED  BY <1>1, <1>2, NatSetInduction
<1>. QED  BY <1>3

-------------------------------------------------------------------------------
\* Blocks as paths: what the other proofs use of sequences.

\* A block is a sequence of labels no longer than MaxHeight.
LEMMA BlockIsSeq ==
    ASSUME NEW b \in L1Block
    PROVE  /\ b \in Seq(Labels)
           /\ Len(b) \in 0..MaxHeight
           /\ b \in [1..Len(b) -> Labels]
BY MaxHeightAssumption DEF L1Block

\* A sequence of labels no longer than MaxHeight is a block.
LEMMA SeqIsBlock ==
    ASSUME NEW b \in Seq(Labels), Len(b) <= MaxHeight
    PROVE  b \in L1Block
<1>1. Len(b) \in 0..MaxHeight /\ b \in [1..Len(b) -> Labels]
  BY MaxHeightAssumption
<1>. QED  BY <1>1 DEF L1Block

\* The genesis block is the only block of height 0.
LEMMA GenesisHeight ==
    /\ L1Genesis \in L1Block
    /\ Len(L1Genesis) = 0
    /\ \A b \in L1Block : Len(b) = 0 => b = L1Genesis
<1>1. << >> \in Seq(Labels) /\ Len(<< >>) = 0
  OBVIOUS
<1>2. << >> \in L1Block
  <2>1. 0 \in 0..MaxHeight /\ << >> \in [1..0 -> Labels]
    BY MaxHeightAssumption
  <2>. QED  BY <2>1 DEF L1Block
<1>3. ASSUME NEW b \in L1Block, Len(b) = 0 PROVE b = << >>
  BY <1>3, BlockIsSeq
<1>. QED  BY <1>1, <1>2, <1>3 DEF L1Genesis

\* Upto(b, k) is the block at height k on the path of b.
LEMMA UptoBlock ==
    ASSUME NEW b \in L1Block, NEW k \in 0..Len(b)
    PROVE  /\ Upto(b, k) \in L1Block
           /\ Len(Upto(b, k)) = k
           /\ \A i \in 1..k : Upto(b, k)[i] = b[i]
<1>1. b \in Seq(Labels) /\ Len(b) \in 0..MaxHeight
  BY BlockIsSeq
<1>2. Upto(b, k) \in Seq(Labels) /\ Len(Upto(b, k)) = k
  BY <1>1 DEF Upto
<1>3. \A i \in 1..k : Upto(b, k)[i] = b[i]
  BY <1>1 DEF Upto
<1>4. Upto(b, k) \in L1Block
  BY <1>1, <1>2, SeqIsBlock, MaxHeightAssumption
<1>. QED  BY <1>2, <1>3, <1>4

\* Two blocks of one height with the same labels are the same block.
LEMMA SameBlock ==
    ASSUME NEW a \in L1Block, NEW b \in L1Block, Len(a) = Len(b),
           \A i \in 1..Len(a) : a[i] = b[i]
    PROVE  a = b
<1>1. a \in [1..Len(a) -> Labels] /\ b \in [1..Len(a) -> Labels]
  BY BlockIsSeq
<1>. QED  BY <1>1

\* Walking down in one go or in two reaches the same block.
LEMMA UptoUpto ==
    ASSUME NEW b \in L1Block, NEW k \in 0..Len(b), NEW j \in 0..k
    PROVE  Upto(Upto(b, k), j) = Upto(b, j)
<1>1. Len(b) \in Nat
  BY BlockIsSeq
<1>2. /\ Upto(b, k) \in L1Block
      /\ Len(Upto(b, k)) = k
      /\ \A i \in 1..k : Upto(b, k)[i] = b[i]
  BY UptoBlock
<1>3. /\ Upto(b, j) \in L1Block
      /\ Len(Upto(b, j)) = j
      /\ \A i \in 1..j : Upto(b, j)[i] = b[i]
  BY <1>1, UptoBlock
<1>4. /\ Upto(Upto(b, k), j) \in L1Block
      /\ Len(Upto(Upto(b, k), j)) = j
      /\ \A i \in 1..j : Upto(Upto(b, k), j)[i] = Upto(b, k)[i]
  BY <1>2, UptoBlock
<1>5. \A i \in 1..j : Upto(Upto(b, k), j)[i] = Upto(b, j)[i]
  BY <1>2, <1>3, <1>4
<1>. QED  BY <1>3, <1>4, <1>5, SameBlock

\* A block is its own ancestor at its own height.
LEMMA UptoSelf ==
    ASSUME NEW b \in L1Block
    PROVE  Upto(b, Len(b)) = b
BY BlockIsSeq, UptoBlock, SameBlock

\* The only block at height 0 of any path is the genesis block.
LEMMA UptoZero ==
    ASSUME NEW b \in L1Block
    PROVE  Upto(b, 0) = L1Genesis
BY BlockIsSeq, UptoBlock, GenesisHeight
-------------------------------------------------------------------------------
\* The ancestor relation.

\* An ancestor of an ancestor is an ancestor.
LEMMA PrecTransitive ==
    ASSUME NEW a \in L1Block, NEW b \in L1Block, NEW c \in L1Block,
           a \preceq b, b \preceq c
    PROVE  a \preceq c
<1>1. Len(a) \in Nat /\ Len(b) \in Nat /\ Len(c) \in Nat
  BY BlockIsSeq
<1>2. a = Upto(b, Len(a)) /\ b = Upto(c, Len(b)) /\ Len(a) <= Len(b) /\ Len(b) <= Len(c)
  BY DEF \preceq
<1>3. Upto(Upto(c, Len(b)), Len(a)) = Upto(c, Len(a))
  BY <1>1, <1>2, UptoUpto
<1>. QED  BY <1>1, <1>2, <1>3 DEF \preceq

\* Two ancestors of one block are on one path: the lower is the other's ancestor.
LEMMA PrecLinear ==
    ASSUME NEW a \in L1Block, NEW b \in L1Block, NEW c \in L1Block,
           a \preceq c, b \preceq c, Len(a) <= Len(b)
    PROVE  a \preceq b
<1>1. Len(a) \in Nat /\ Len(b) \in Nat /\ Len(c) \in Nat
  BY BlockIsSeq
<1>2. a = Upto(c, Len(a)) /\ b = Upto(c, Len(b)) /\ Len(b) <= Len(c)
  BY DEF \preceq
<1>3. Upto(Upto(c, Len(b)), Len(a)) = Upto(c, Len(a))
  BY <1>1, <1>2, UptoUpto
<1>. QED  BY <1>1, <1>2, <1>3 DEF \preceq

\* Every block is its own ancestor, and the genesis block is everybody's.
LEMMA PrecBasics ==
    ASSUME NEW b \in L1Block
    PROVE  /\ b \preceq b
           /\ L1Genesis \preceq b
           /\ b \preceq L1Genesis => b = L1Genesis
<1>1. Len(b) \in Nat /\ Len(L1Genesis) = 0 /\ L1Genesis \in L1Block
  BY BlockIsSeq, GenesisHeight
<1>2. Upto(b, Len(b)) = b /\ Upto(b, 0) = L1Genesis
  BY UptoSelf, UptoZero
<1>3. b \preceq b
  BY <1>1, <1>2 DEF \preceq
<1>4. L1Genesis \preceq b
  BY <1>1, <1>2 DEF \preceq
<1>5. b \preceq L1Genesis => Len(b) = 0
  BY <1>1 DEF \preceq
<1>. QED  BY <1>3, <1>4, <1>5, GenesisHeight

\* The ancestors of b are the blocks Upto(b, k).
LEMMA UptoPrec ==
    ASSUME NEW b \in L1Block, NEW k \in 0..Len(b)
    PROVE  Upto(b, k) \preceq b
<1>1. Len(b) \in Nat /\ Len(Upto(b, k)) = k
  BY BlockIsSeq, UptoBlock
<1>. QED  BY <1>1 DEF \preceq

-------------------------------------------------------------------------------
\* What a submitted block does to the flags.

\* The head the flags describe is the only answer of FetchHeadBlock.
LEMMA TipIsHead ==
    ASSUME blocks \subseteq L1Block, NEW h \in blocks, IsTip(h)
    PROVE  HeadBlocks = {h}
<1>1. \A c \in canonicalBlocks : c \in L1Block /\ c \preceq h /\ Len(c) \in Nat
  BY BlockIsSeq DEF IsTip
<1>2. h \in canonicalBlocks /\ Len(h) \in Nat
  BY PrecBasics, BlockIsSeq DEF IsTip
<1>3. \A c \in canonicalBlocks : Len(c) <= Len(h)
  BY <1>1 DEF \preceq
<1>4. \A c \in canonicalBlocks : Len(c) = Len(h) => c = h
  BY <1>1, UptoSelf DEF \preceq
<1>5. \A c \in HeadBlocks : c \in canonicalBlocks /\ Len(h) <= Len(c)
  BY <1>2 DEF HeadBlocks, Height
<1>6. \A c \in HeadBlocks : c = h
  BY <1>1, <1>2, <1>3, <1>4, <1>5
<1>7. h \in HeadBlocks
  BY <1>2, <1>3 DEF HeadBlocks, Height
<1>. QED  BY <1>6, <1>7

\* The flags of the blocks already stored, once StoreBlock has applied the fork.
FlagsAfter(fork) ==
    IF IsFork(fork)
    THEN FlagBlocks(canonicalBlocks, fork.canonicalPath, fork.nonCanonicalPath)
    ELSE canonicalBlocks

\* b is accepted as a new head: what the proof needs of it and of its fork.
Accepted(b, fork) ==
    /\ \A x \in blocks : ~(b \preceq x)
    /\ fork.canonicalPath \subseteq blocks
    /\ FlagsAfter(fork) \cup {b} = { x \in blocks \cup {b} : x \preceq b }
    /\ \A j, k \in 1..Len(b) :
         (j <= k /\ Upto(b, j) \in blocks \cup {b}) => Upto(b, k) \in blocks \cup {b}
    /\ b # L1Genesis =>
         \A x \in blocks \ {L1Genesis} :
             Upto(x, 1) \in blocks <=> Upto(b, 1) \in blocks \cup {b}

\* The first block is accepted as the head.
LEMMA FirstAccepted ==
    ASSUME L1TypeOK, blocks = {}, NEW b \in L1Block, NEW fork \in IngestBlock(b)
    PROVE  Accepted(b, fork)
<1>1. canonicalBlocks = {} /\ HeadBlocks = {}
  BY DEF L1TypeOK, StorageTypeOK, HeadBlocks
<1>2. fork = NoFork
  BY <1>1 DEF IngestBlock
<1>3. fork.canonicalPath = {} /\ FlagsAfter(fork) = {}
  BY <1>1, <1>2 DEF NoFork, FlagsAfter, IsFork
<1>4. b \preceq b /\ Len(b) \in Nat /\ Upto(b, Len(b)) = b
  BY PrecBasics, BlockIsSeq, UptoSelf
<1>5. \A j \in 1..Len(b) : Upto(b, j) = b => j = Len(b)
  BY <1>4, UptoBlock
<1>. QED  BY <1>3, <1>4, <1>5 DEF Accepted
\* A child of the head is accepted as the new head.
LEMMA ChildAccepted ==
    ASSUME L1Inv, NEW h \in blocks, IsTip(h),
           NEW b \in L1Block, b \notin blocks, IsChild(b, h), NEW fork \in IngestBlock(b)
    PROVE  Accepted(b, fork)
<1>0. blocks \subseteq L1Block /\ h \in L1Block
  BY DEF L1Inv, L1TypeOK, StorageTypeOK
<1>1. fork = NoFork
  BY <1>0, TipIsHead DEF IngestBlock
<1>2. fork.canonicalPath = {} /\ FlagsAfter(fork) = canonicalBlocks
  BY <1>1 DEF NoFork, FlagsAfter, IsFork
<1>3. b # L1Genesis /\ Len(b) \in Nat /\ Len(b) > 0
  BY BlockIsSeq, GenesisHeight DEF IsChild
<1>4. h = Upto(b, Len(b) - 1) /\ Len(h) = Len(b) - 1 /\ h \preceq b
  BY <1>3, UptoBlock, UptoPrec DEF IsChild, Parent
<1>5. ASSUME NEW x \in blocks PROVE ~(b \preceq x)
  <2>1. SUFFICES ASSUME b \preceq x PROVE FALSE
    OBVIOUS
  <2>2. h \preceq x
    BY <1>0, <1>4, <2>1, PrecTransitive
  <2>3. x = h
    BY <2>2 DEF IsTip
  <2>. QED  BY <2>1, <2>3, <1>3, <1>4 DEF \preceq
<1>6. \A x \in blocks : x \preceq h <=> x \preceq b
  <2>1. ASSUME NEW x \in blocks, x \preceq h PROVE x \preceq b
    BY <1>0, <1>4, <2>1, PrecTransitive
  <2>2. ASSUME NEW x \in blocks, x \preceq b PROVE x \preceq h
    <3>1. x \in L1Block /\ Len(x) \in Nat /\ Len(x) <= Len(b)
      BY <1>0, <2>2, BlockIsSeq DEF \preceq
    <3>2. Len(x) # Len(b)
      BY <2>2, UptoSelf DEF \preceq
    <3>3. Len(x) <= Len(h)
      BY <1>3, <1>4, <3>1, <3>2
    <3>. QED  BY <1>0, <1>4, <2>2, <3>1, <3>3, PrecLinear
  <2>. QED  BY <2>1, <2>2
<1>7. FlagsAfter(fork) \cup {b} = { x \in blocks \cup {b} : x \preceq b }
  BY <1>2, <1>6, PrecBasics DEF IsTip
<1>8. ASSUME NEW k \in 1..Len(b) PROVE k = Len(b) \/ (k \in 1..Len(h) /\ Upto(b, k) = Upto(h, k))
  BY <1>3, <1>4, UptoUpto
<1>9. \A k \in 1..Len(b) : Upto(b, k) = b => k = Len(b)
  BY <1>3, UptoBlock
<1>10. ASSUME NEW j \in 1..Len(b), NEW k \in 1..Len(b), j <= k, Upto(b, j) \in blocks \cup {b}
       PROVE  Upto(b, k) \in blocks \cup {b}
  <2>1. CASE k = Len(b)
    BY <2>1, UptoSelf
  <2>2. CASE k # Len(b)
    <3>1. j \in 1..Len(h) /\ k \in 1..Len(h) /\ Upto(b, j) = Upto(h, j) /\ Upto(b, k) = Upto(h, k)
      BY <1>3, <1>4, <1>8, <1>10, <2>2
    <3>2. j \in 1..MaxHeight /\ k \in 1..MaxHeight /\ Upto(h, j) \in blocks
      BY <1>0, <1>3, <1>9, <1>10, <2>2, <3>1, BlockIsSeq, MaxHeightAssumption
    <3>. QED  BY <1>10, <3>1, <3>2 DEF L1Inv, NoHoles, Height
  <2>. QED  BY <2>1, <2>2
<1>11. ASSUME NEW x \in blocks \ {L1Genesis}
       PROVE  Upto(x, 1) \in blocks <=> Upto(b, 1) \in blocks \cup {b}
  <2>1. CASE h = L1Genesis
    <3>1. \A y \in blocks : y = L1Genesis
      BY <1>0, <2>1, PrecBasics DEF IsTip
    <3>. QED  BY <3>1
  <2>2. CASE h # L1Genesis
    <3>1. 1 \in 1..Len(h)
      BY <1>0, <2>2, BlockIsSeq, GenesisHeight
    <3>2. Upto(b, 1) = Upto(h, 1) /\ Upto(b, 1) # b
      BY <1>3, <1>4, <1>8, <1>9, <3>1
    <3>. QED  BY <2>2, <3>2 DEF L1Inv, RootsAgree
  <2>. QED  BY <2>1, <2>2
<1>. QED  BY <1>2, <1>3, <1>5, <1>7, <1>10, <1>11 DEF Accepted

\* Above a lone genesis block any block is accepted as the new head.
LEMMA AboveGenesisAccepted ==
    ASSUME L1Inv, NEW h \in blocks, IsTip(h), h = L1Genesis,
           NEW b \in L1Block, b \notin blocks, ~IsChild(b, h), NEW fork \in IngestBlock(b)
    PROVE  Accepted(b, fork)
<1>0. blocks \subseteq L1Block /\ Len(h) = 0
  BY GenesisHeight DEF L1Inv, L1TypeOK, StorageTypeOK
<1>1. blocks = {h}
  BY <1>0, PrecBasics DEF IsTip
<1>2. fork \in LCA(b, h, blocks)
  BY <1>0, TipIsHead DEF IngestBlock
<1>3. fork.canonicalPath = {} /\ fork.nonCanonicalPath = {}
  BY <1>0, <1>2 DEF LCA, Height
<1>4. FlagsAfter(fork) = canonicalBlocks
  BY <1>3 DEF FlagsAfter, IsFork
<1>5. b # L1Genesis /\ Len(b) \in Nat /\ Len(b) > 0 /\ Upto(b, Len(b)) = b
  BY <1>1, BlockIsSeq, GenesisHeight, UptoSelf
<1>6. ~(b \preceq h) /\ h \preceq b /\ b \preceq b /\ h \preceq h
  BY <1>0, <1>1, <1>5, PrecBasics
<1>7. canonicalBlocks = {h}
  BY <1>1, <1>6 DEF IsTip
<1>8. \A j \in 1..Len(b) : Upto(b, j) \in {h, b} => j = Len(b)
  BY <1>0, <1>5, UptoBlock
<1>9. \A j, k \in 1..Len(b) :
         (j <= k /\ Upto(b, j) \in blocks \cup {b}) => Upto(b, k) \in blocks \cup {b}
  BY <1>1, <1>5, <1>8
<1>. QED  BY <1>1, <1>3, <1>4, <1>6, <1>7, <1>9 DEF Accepted
\* A block whose walk to the common ancestor succeeds is accepted as the new head.
LEMMA ForkAccepted ==
    ASSUME L1Inv, NEW h \in blocks, IsTip(h), h # L1Genesis,
           NEW b \in L1Block, b \notin blocks, b # L1Genesis, ~IsChild(b, h),
           NEW fork \in IngestBlock(b)
    PROVE  Accepted(b, fork) /\ IsFork(fork)
<1>0. blocks \subseteq L1Block /\ h \in L1Block
  BY DEF L1Inv, L1TypeOK, StorageTypeOK
<1>1. Len(b) \in Nat /\ Len(h) \in Nat /\ Len(b) > 0 /\ Len(h) > 0
  BY <1>0, BlockIsSeq, GenesisHeight
<1>2. fork \in LCA(b, h, blocks)
  BY <1>0, TipIsHead DEF IngestBlock
<1>3. PICK c \in blocks :
        /\ IsLatestCommonAncestor(c, b, h)
        /\ ForkPath(b, c) \ {b} \subseteq blocks
        /\ ForkPath(h, c) \subseteq blocks
        /\ fork.canonicalPath = ForkPath(b, c) \ {b}
        /\ fork.nonCanonicalPath = ForkPath(h, c)
  BY <1>1, <1>2 DEF LCA, Height
<1>4. c \in L1Block /\ Len(c) \in Nat /\ c \preceq b /\ c \preceq h
  BY <1>0, <1>3, BlockIsSeq DEF IsLatestCommonAncestor
<1>5. Len(c) < Len(b)
  BY <1>1, <1>4, UptoSelf DEF \preceq
<1>6. \A k \in (Len(c) + 1)..(Len(b) - 1) : Upto(b, k) \in blocks
  <2>1. \A k \in (Len(c) + 1)..(Len(b) - 1) : Upto(b, k) \in ForkPath(b, c) /\ Upto(b, k) # b
    BY <1>1, <1>4, UptoBlock DEF ForkPath
  <2>. QED  BY <2>1, <1>3
<1>7. Len(c) < Len(h)
  <2>1. SUFFICES ASSUME Len(c) = Len(h) PROVE FALSE
    BY <1>1, <1>4 DEF \preceq
  <2>2. c = h
    BY <1>0, <1>4, <2>1, UptoSelf DEF \preceq
  <2>3. Len(b) - 1 # Len(h)
    BY <1>4, <2>2 DEF IsChild, Parent, \preceq
  <2>4. Len(h) + 1 \in (Len(c) + 1)..(Len(b) - 1)
    BY <1>1, <1>4, <1>5, <2>1, <2>3
  <2>5. /\ Upto(b, Len(h) + 1) \in blocks
        /\ Upto(b, Len(h) + 1) \preceq b
        /\ Len(Upto(b, Len(h) + 1)) = Len(h) + 1
    BY <1>1, <1>4, <1>6, <2>4, UptoPrec, UptoBlock
  <2>6. h \preceq Upto(b, Len(h) + 1)
    BY <1>0, <1>1, <1>4, <2>2, <2>5, PrecLinear
  <2>. QED  BY <1>1, <2>5, <2>6 DEF IsTip
<1>8. \A k \in (Len(c) + 1)..Len(h) : Upto(h, k) \in ForkPath(h, c) /\ Upto(h, k) \in blocks
  BY <1>3 DEF ForkPath
<1>9. IsFork(fork)
  BY <1>1, <1>3, <1>4, <1>7, <1>8 DEF IsFork
<1>10. ASSUME c = L1Genesis, NEW x \in blocks \ {L1Genesis} PROVE Upto(x, 1) \in blocks
  <2>1. Upto(h, 1) \in blocks
    BY <1>1, <1>8, <1>10, GenesisHeight
  <2>. QED  BY <2>1 DEF L1Inv, RootsAgree
<1>11. ASSUME NEW x \in blocks PROVE ~(b \preceq x)
  <2>1. SUFFICES ASSUME b \preceq x PROVE FALSE
    OBVIOUS
  <2>2. x \in L1Block /\ Len(x) \in 0..MaxHeight /\ Len(b) <= Len(x) /\ b = Upto(x, Len(b))
    BY <1>0, <2>1, BlockIsSeq DEF \preceq
  <2>3. CASE c # L1Genesis
    <3>1. c \preceq x /\ c = Upto(x, Len(c)) /\ Len(c) > 0
      BY <1>4, <2>1, <2>2, <2>3, PrecTransitive, GenesisHeight DEF \preceq
    <3>2. Len(c) \in 1..MaxHeight /\ Len(b) \in 1..MaxHeight /\ Upto(x, Len(c)) \in blocks
      BY <1>1, <1>4, <1>5, <2>2, <3>1, MaxHeightAssumption
    <3>. QED  BY <1>5, <1>1, <1>4, <2>2, <3>2 DEF L1Inv, NoHoles, Height
  <2>4. CASE c = L1Genesis
    <3>1. x # L1Genesis
      BY <2>1, PrecBasics
    <3>2. Upto(x, 1) \in blocks /\ 1 \in 1..MaxHeight /\ Len(b) \in 1..MaxHeight
      BY <1>1, <1>10, <2>2, <2>4, <3>1, MaxHeightAssumption
    <3>. QED  BY <1>1, <2>2, <3>2 DEF L1Inv, NoHoles, Height
  <2>. QED  BY <2>3, <2>4
<1>12. FlagsAfter(fork) = (canonicalBlocks \ ForkPath(h, c)) \cup (ForkPath(b, c) \ {b})
  BY <1>3, <1>9 DEF FlagsAfter, FlagBlocks
<1>13. \A k \in (Len(c) + 1)..Len(h) : Len(Upto(h, k)) = k
  BY <1>0, <1>1, <1>4, UptoBlock
<1>14. ASSUME NEW x \in canonicalBlocks \ ForkPath(h, c) PROVE x \in blocks /\ x \preceq b
  <2>1. x \in blocks /\ x \in L1Block /\ x \preceq h
    BY <1>0 DEF IsTip
  <2>2. Len(x) \in Nat /\ Len(x) <= Len(h) /\ x = Upto(h, Len(x))
    BY <2>1, BlockIsSeq DEF \preceq
  <2>3. Len(x) <= Len(c)
    BY <1>1, <1>4, <2>2 DEF ForkPath
  <2>4. x \preceq c
    BY <1>0, <1>4, <2>1, <2>3, PrecLinear
  <2>. QED  BY <1>4, <2>1, <2>4, PrecTransitive
<1>15. ASSUME NEW x \in ForkPath(b, c) \ {b} PROVE x \in blocks /\ x \preceq b
  <2>1. PICK k \in (Len(c) + 1)..Len(b) : x = Upto(b, k)
    BY DEF ForkPath
  <2>. QED  BY <1>1, <1>3, <1>4, <2>1, UptoPrec
<1>16. ASSUME NEW x \in blocks, x \preceq b
       PROVE  x \in (canonicalBlocks \ ForkPath(h, c)) \cup (ForkPath(b, c) \ {b})
  <2>1. x \in L1Block /\ Len(x) \in Nat /\ Len(x) <= Len(b) /\ x = Upto(b, Len(x)) /\ x # b
    BY <1>0, <1>16, BlockIsSeq DEF \preceq
  <2>2. CASE Len(x) > Len(c)
    BY <1>1, <1>4, <2>1, <2>2 DEF ForkPath
  <2>3. CASE Len(x) <= Len(c)
    <3>1. x \preceq h
      BY <1>0, <1>4, <1>16, <2>1, <2>3, PrecLinear, PrecTransitive
    <3>2. x \notin ForkPath(h, c)
      BY <1>1, <1>4, <1>13, <2>1, <2>3 DEF ForkPath
    <3>. QED  BY <3>1, <3>2 DEF IsTip
  <2>. QED  BY <1>4, <2>1, <2>2, <2>3
<1>17. FlagsAfter(fork) \cup {b} = { x \in blocks \cup {b} : x \preceq b }
  BY <1>12, <1>14, <1>15, <1>16, PrecBasics
<1>18. ASSUME NEW k \in 0..Len(c) PROVE Upto(b, k) = Upto(c, k) /\ Upto(b, k) # b
  <2>1. c = Upto(b, Len(c)) /\ Len(c) \in 0..Len(b) /\ k \in 0..Len(b)
    BY <1>1, <1>4, <1>5 DEF \preceq
  <2>. QED  BY <1>1, <1>4, <1>5, <2>1, UptoUpto, UptoBlock
<1>19. ASSUME NEW j \in 1..Len(b), NEW k \in 1..Len(b), j <= k, Upto(b, j) \in blocks \cup {b}
       PROVE  Upto(b, k) \in blocks \cup {b}
  <2>1. CASE k > Len(c)
    BY <1>1, <1>4, <1>6, <2>1, UptoSelf
  <2>2. CASE k <= Len(c)
    <3>1. /\ j \in 0..Len(c) /\ k \in 0..Len(c)
          /\ j \in 1..MaxHeight /\ k \in 1..MaxHeight
      BY <1>1, <1>4, <1>19, <2>2, BlockIsSeq, MaxHeightAssumption
    <3>2. Upto(b, j) = Upto(c, j) /\ Upto(b, k) = Upto(c, k) /\ Upto(c, j) \in blocks
      BY <1>18, <1>19, <3>1
    <3>. QED  BY <1>4, <1>19, <2>2, <3>1, <3>2 DEF L1Inv, NoHoles, Height
  <2>. QED  BY <1>1, <1>4, <2>1, <2>2
<1>20. ASSUME NEW x \in blocks \ {L1Genesis}
       PROVE  Upto(x, 1) \in blocks <=> Upto(b, 1) \in blocks \cup {b}
  <2>1. CASE c = L1Genesis
    <3>1. Upto(x, 1) \in blocks
      BY <1>10, <2>1
    <3>2. Len(c) = 0
      BY <2>1, GenesisHeight
    <3>3. Upto(b, 1) \in blocks \cup {b}
      BY <1>1, <1>6, <3>2, UptoSelf
    <3>. QED  BY <3>1, <3>3
  <2>2. CASE c # L1Genesis
    <3>1. 1 \in 0..Len(c)
      BY <1>4, <2>2, GenesisHeight
    <3>2. Upto(b, 1) = Upto(c, 1) /\ Upto(b, 1) # b
      BY <1>18, <3>1
    <3>. QED  BY <2>2, <3>2 DEF L1Inv, RootsAgree
  <2>. QED  BY <2>1, <2>2
<1>. QED  BY <1>3, <1>9, <1>11, <1>17, <1>19, <1>20 DEF Accepted
\* The L1 genesis block arrives after blocks above it.
LateGenesis(b, fork) ==
    /\ b = L1Genesis
    /\ blocks # {}
    /\ ~IsFork(fork)
    /\ fork.canonicalPath = {}

\* Every block that is inserted is a new head, or a genesis block filled in late.
LEMMA IngestCases ==
    ASSUME L1Inv, NEW b \in L1Block, b \notin blocks, NEW fork \in IngestBlock(b)
    PROVE  Accepted(b, fork) \/ LateGenesis(b, fork)
<1>1. CASE blocks = {}
  BY <1>1, FirstAccepted DEF L1Inv
<1>2. CASE blocks # {}
  <2>1. PICK h \in blocks : IsTip(h)
    BY <1>2 DEF L1Inv
  <2>2. blocks \subseteq L1Block
    BY DEF L1Inv, L1TypeOK, StorageTypeOK
  <2>3. CASE IsChild(b, h)
    BY <2>1, <2>3, ChildAccepted
  <2>4. CASE ~IsChild(b, h) /\ b = L1Genesis
    <3>1. fork \in LCA(b, h, blocks)
      BY <2>1, <2>2, <2>4, TipIsHead DEF IngestBlock
    <3>2. fork.canonicalPath = {} /\ fork.nonCanonicalPath = {}
      BY <2>4, <3>1, GenesisHeight DEF LCA, Height
    <3>. QED  BY <1>2, <2>4, <3>2 DEF LateGenesis, IsFork
  <2>5. CASE ~IsChild(b, h) /\ b # L1Genesis /\ h = L1Genesis
    BY <2>1, <2>5, AboveGenesisAccepted
  <2>6. CASE ~IsChild(b, h) /\ b # L1Genesis /\ h # L1Genesis
    BY <2>1, <2>6, ForkAccepted
  <2>. QED  BY <2>3, <2>4, <2>5, <2>6
<1>. QED  BY <1>1, <1>2

\* StoreBlock patches the flags of the two tables alike.
LEMMA FlagsInStep ==
    ASSUME L1TypeOK, BatchFlagsAgree, NEW b, NEW fork, StoreBlock(b, fork),
           fork.canonicalPath \subseteq blocks
    PROVE  /\ canonicalBlocks' = FlagsAfter(fork) \cup {b}
           /\ canonicalBlocks' \subseteq blocks'
           /\ canonicalBatches' \subseteq Stored'
           /\ BatchFlagsAgree'
<1>1. /\ canonicalBlocks \subseteq blocks /\ canonicalBatches \subseteq Stored
      /\ batch' = batch /\ Stored' = Stored /\ blocks' = blocks \cup {b}
  BY DEF L1TypeOK, StorageTypeOK, StoreBlock, Stored
<1>2. CASE IsFork(fork)
  <2>1. canonicalBlocks' = {b} \cup ((canonicalBlocks \ fork.nonCanonicalPath)
                                        \cup (blocks \cap fork.canonicalPath))
    BY <1>2 DEF StoreBlock, FlagBlocks
  <2>2. canonicalBatches' =
          BatchesByBlocks({b}) \cup ((canonicalBatches \ BatchesByBlocks(fork.nonCanonicalPath))
                                        \cup BatchesByBlocks(fork.canonicalPath))
    BY <1>2 DEF StoreBlock, FlagBatches
  <2>3. canonicalBlocks' = FlagsAfter(fork) \cup {b}
    BY <1>2, <2>1 DEF FlagsAfter, FlagBlocks
  <2>4. BatchFlagsAgree'
    BY <1>1, <2>1, <2>2 DEF BatchFlagsAgree, BatchesByBlocks
  <2>5. canonicalBatches' \subseteq Stored'
    BY <1>1, <2>2 DEF BatchesByBlocks
  <2>. QED  BY <1>1, <2>1, <2>3, <2>4, <2>5
<1>3. CASE ~IsFork(fork)
  <2>1. canonicalBlocks' = {b} \cup canonicalBlocks
    BY <1>3 DEF StoreBlock
  <2>2. canonicalBatches' = BatchesByBlocks({b}) \cup canonicalBatches
    BY <1>3 DEF StoreBlock
  <2>. QED  BY <1>1, <1>3, <2>1, <2>2 DEF BatchFlagsAgree, BatchesByBlocks, FlagsAfter
<1>. QED  BY <1>2, <1>3

\* A block accepted as the new head keeps the shape of the stored tree.
LEMMA AcceptedKeepsShape ==
    ASSUME L1Inv, NEW b \in L1Block, b \notin blocks, NEW fork, Accepted(b, fork),
           blocks' = blocks \cup {b}, canonicalBlocks' = FlagsAfter(fork) \cup {b}
    PROVE  (blocks # {} => \E h \in blocks : IsTip(h))' /\ NoHoles' /\ RootsAgree'
<1>0. blocks \subseteq L1Block
  BY DEF L1Inv, L1TypeOK, StorageTypeOK
<1>1. \A x \in blocks : \A k \in 0..Len(x) : Upto(x, k) # b
  BY <1>0, UptoPrec DEF Accepted
<1>2. IsTip(b)'
  BY DEF Accepted, IsTip
<1>3. NoHoles'
  <2>1. SUFFICES ASSUME NEW x \in blocks', NEW j \in 1..MaxHeight, NEW k \in 1..MaxHeight,
                        j <= k, k <= Len(x), Upto(x, j) \in blocks'
                 PROVE  Upto(x, k) \in blocks'
    BY DEF NoHoles, Height
  <2>2. CASE x \in blocks
    <3>1. x \in L1Block /\ Len(x) \in Nat /\ j \in 0..Len(x)
      BY <1>0, <2>1, <2>2, BlockIsSeq, MaxHeightAssumption
    <3>2. Upto(x, j) \in blocks
      BY <1>1, <2>1, <2>2, <3>1
    <3>. QED  BY <2>1, <2>2, <3>2 DEF L1Inv, NoHoles, Height
  <2>3. CASE x = b
    BY <2>1, <2>3, BlockIsSeq, MaxHeightAssumption DEF Accepted
  <2>. QED  BY <2>2, <2>3
<1>4. RootsAgree'
  <2>1. \A x \in blocks \ {L1Genesis} : Upto(x, 1) # b
    <3>1. \A x \in blocks \ {L1Genesis} : x \in L1Block /\ 1 \in 0..Len(x)
      BY <1>0, BlockIsSeq, GenesisHeight
    <3>. QED  BY <1>1, <3>1
  <2>. QED  BY <2>1 DEF L1Inv, RootsAgree, Accepted
<1>. QED  BY <1>2, <1>3, <1>4

\* A genesis block filled in late keeps the shape of the stored tree.
LEMMA LateGenesisKeepsShape ==
    ASSUME L1Inv, NEW b \in L1Block, b \notin blocks, NEW fork, LateGenesis(b, fork),
           blocks' = blocks \cup {b}, canonicalBlocks' = FlagsAfter(fork) \cup {b}
    PROVE  (blocks # {} => \E h \in blocks : IsTip(h))' /\ NoHoles' /\ RootsAgree'
<1>0. blocks \subseteq L1Block
  BY DEF L1Inv, L1TypeOK, StorageTypeOK
<1>1. \A x \in blocks : \A k \in 1..Len(x) : Upto(x, k) # L1Genesis
  BY <1>0, UptoBlock, BlockIsSeq, GenesisHeight
<1>2. PICK h \in blocks : IsTip(h)
  BY DEF L1Inv, LateGenesis
<1>3. canonicalBlocks' = canonicalBlocks \cup {L1Genesis} /\ blocks' = blocks \cup {L1Genesis}
  BY DEF LateGenesis, FlagsAfter
<1>4. h # L1Genesis /\ L1Genesis \preceq h /\ ~(h \preceq L1Genesis)
  BY <1>0, PrecBasics DEF LateGenesis
<1>5. IsTip(h)'
  BY <1>2, <1>3, <1>4 DEF IsTip
<1>6. NoHoles'
  <2>1. SUFFICES ASSUME NEW x \in blocks', NEW j \in 1..MaxHeight, NEW k \in 1..MaxHeight,
                        j <= k, k <= Len(x), Upto(x, j) \in blocks'
                 PROVE  Upto(x, k) \in blocks'
    BY DEF NoHoles, Height
  <2>2. x \in blocks
    BY <1>3, <2>1, GenesisHeight, MaxHeightAssumption
  <2>3. Upto(x, j) \in blocks
    BY <1>0, <1>1, <1>3, <2>1, <2>2, BlockIsSeq, MaxHeightAssumption
  <2>. QED  BY <1>3, <2>1, <2>2, <2>3 DEF L1Inv, NoHoles, Height
<1>7. RootsAgree'
  <2>1. \A x \in blocks \ {L1Genesis} : Upto(x, 1) # L1Genesis
    <3>1. \A x \in blocks \ {L1Genesis} : x \in L1Block /\ 1 \in 1..Len(x)
      BY <1>0, BlockIsSeq, GenesisHeight
    <3>. QED  BY <1>1, <3>1
  <2>. QED  BY <1>3, <2>1 DEF L1Inv, RootsAgree
<1>. QED  BY <1>2, <1>5, <1>3, <1>6, <1>7

-------------------------------------------------------------------------------
\* The storage operations preserve the invariant.

\* Inserting a block preserves the invariant, whatever becomes of its messages.
LEMMA InsertPreserves ==
    ASSUME L1Inv, NEW b \in L1Block, NEW fork, TryAndInsertBlock(b, fork),
           l1Messages' \subseteq blocks'
    PROVE  L1Inv'
<1>2. b \notin blocks /\ fork \in IngestBlock(b) /\ StoreBlock(b, fork)
  BY DEF TryAndInsertBlock
<1>3. Accepted(b, fork) \/ LateGenesis(b, fork)
  BY <1>2, IngestCases
<1>4. /\ blocks' = blocks \cup {b} /\ batch' = batch /\ executedBatches' = executedBatches
      /\ Stored' = Stored
  BY <1>2 DEF StoreBlock, Stored
<1>5. /\ canonicalBlocks' = FlagsAfter(fork) \cup {b}
      /\ canonicalBlocks' \subseteq blocks'
      /\ canonicalBatches' \subseteq Stored'
      /\ BatchFlagsAgree'
  <2>1. fork.canonicalPath \subseteq blocks
    BY <1>3 DEF Accepted, LateGenesis
  <2>. QED  BY <1>2, <2>1, FlagsInStep DEF L1Inv
<1>7. L1TypeOK'
  BY <1>4, <1>5 DEF L1Inv, L1TypeOK, StorageTypeOK
<1>8. (blocks # {} => \E h \in blocks : IsTip(h))' /\ NoHoles' /\ RootsAgree'
  BY <1>2, <1>3, <1>4, <1>5, AcceptedKeepsShape, LateGenesisKeepsShape
<1>. QED  BY <1>5, <1>7, <1>8 DEF L1Inv

\* Steps that leave the two block columns alone preserve what is said of them.
LEMMA BlocksUnchanged ==
    ASSUME L1Inv, UNCHANGED << blocks, canonicalBlocks >>
    PROVE  (blocks # {} => \E h \in blocks : IsTip(h))' /\ NoHoles' /\ RootsAgree'
BY DEF L1Inv, IsTip, NoHoles, RootsAgree

\* Storing a batch preserves the invariant.
LEMMA StoreBatchPreserves ==
    ASSUME L1Inv, NEW n \in SeqNo, n \notin Stored, NEW b \in Batch, StoreBatch(n, b),
           UNCHANGED l1Messages
    PROVE  L1Inv'
<1>1. /\ UNCHANGED << blocks, canonicalBlocks, executedBatches, l1Messages >>
      /\ batch' = [ m \in Stored \cup {n} |-> IF m = n THEN b ELSE batch[m] ]
  BY DEF StoreBatch
<1>2. Stored' = Stored \cup {n}
  BY <1>1 DEF Stored
<1>3. canonicalBatches' =
        IF b.l1Proof \in canonicalBlocks THEN canonicalBatches \cup {n} ELSE canonicalBatches
  BY DEF StoreBatch
<1>4. L1TypeOK'
  BY <1>1, <1>2, <1>3 DEF L1Inv, L1TypeOK, StorageTypeOK
<1>5. BatchFlagsAgree'
  <2>1. \A m \in Stored : batch'[m] = batch[m]
    BY <1>1
  <2>2. batch'[n] = b
    BY <1>1
  <2>3. n \notin canonicalBatches
    BY DEF L1Inv, L1TypeOK, StorageTypeOK
  <2>. QED  BY <1>1, <1>2, <1>3, <2>1, <2>2, <2>3 DEF L1Inv, BatchFlagsAgree
<1>. QED  BY <1>1, <1>4, <1>5, BlocksUnchanged DEF L1Inv

\* Marking a batch executed preserves the invariant.
LEMMA StoreExecutedPreserves ==
    ASSUME L1Inv, NEW n \in Stored, StoreExecutedBatch(n), UNCHANGED l1Messages
    PROVE  L1Inv'
<1>1. /\ UNCHANGED << blocks, canonicalBlocks, batch, canonicalBatches, l1Messages >>
      /\ executedBatches' = executedBatches \cup {n}
  BY DEF StoreExecutedBatch
<1>2. Stored' = Stored
  BY <1>1 DEF Stored
<1>3. L1TypeOK'
  BY <1>1, <1>2 DEF L1Inv, L1TypeOK, StorageTypeOK
<1>4. BatchFlagsAgree'
  BY <1>1, <1>2 DEF L1Inv, BatchFlagsAgree
<1>. QED  BY <1>1, <1>3, <1>4, BlocksUnchanged DEF L1Inv

\* So does storing the messages of blocks that are stored, and doing nothing.
LEMMA StorageUnchanged ==
    ASSUME L1Inv, UNCHANGED storageVars, l1Messages' \subseteq blocks
    PROVE  L1Inv'
<1>1. UNCHANGED << blocks, canonicalBlocks, batch, canonicalBatches, executedBatches >>
  BY DEF storageVars
<1>2. Stored' = Stored
  BY <1>1 DEF Stored
<1>3. L1TypeOK' /\ BatchFlagsAgree'
  BY <1>1, <1>2 DEF L1Inv, L1TypeOK, StorageTypeOK, BatchFlagsAgree
<1>. QED  BY <1>1, <1>3, BlocksUnchanged DEF L1Inv

\* The empty database satisfies the invariant.
LEMMA L1InitInv == L1Init => L1Inv
<1>1. SUFFICES ASSUME L1Init PROVE L1Inv
  OBVIOUS
<1>2. /\ blocks = {} /\ canonicalBlocks = {} /\ batch = << >> /\ canonicalBatches = {}
      /\ executedBatches = {} /\ l1Messages = {}
  BY <1>1 DEF L1Init, StorageInit
<1>3. Stored = {}
  BY <1>2 DEF Stored
<1>4. L1TypeOK
  BY <1>2, <1>3 DEF L1TypeOK, StorageTypeOK
<1>5. NoHoles /\ RootsAgree /\ BatchFlagsAgree
  BY <1>2, <1>3 DEF NoHoles, RootsAgree, BatchFlagsAgree
<1>. QED  BY <1>2, <1>4, <1>5 DEF L1Inv

\* The invariant gives CanonicalChain.
LEMMA L1InvGivesCanonicalChain == L1Inv => CanonicalChain
<1>1. SUFFICES ASSUME L1Inv, blocks # {} PROVE CanonicalChain
  BY DEF CanonicalChain
<1>2. PICK h \in blocks : IsTip(h)
  BY <1>1 DEF L1Inv
<1>3. HeadBlocks = {h}
  BY <1>1, <1>2, TipIsHead DEF L1Inv, L1TypeOK, StorageTypeOK
<1>. QED  BY <1>2, <1>3 DEF CanonicalChain, IsTip

-------------------------------------------------------------------------------
\* L1 ingestion under any client: the inductive invariant.

\* IngestL1Block preserves the invariant.
LEMMA SubmitPreserves ==
    ASSUME L1Inv, NEW b \in L1Block, IngestL1Block(b)
    PROVE  L1Inv'
<1>1. PICK fork \in IngestBlock(b) : Process(b, fork) \/ ProcessFails(b, fork)
  BY DEF IngestL1Block
<1>2. TryAndInsertBlock(b, fork) /\ blocks' = blocks \cup {b}
  BY <1>1 DEF Process, ProcessFails, TryAndInsertBlock, StoreBlock
<1>3. l1Messages' \subseteq blocks'
  BY <1>1, <1>2 DEF Process, ProcessFails, L1Inv, L1TypeOK
<1>. QED  BY <1>2, <1>3, InsertPreserves

\* Storing a batch preserves the invariant.
LEMMA AddBatchPreserves ==
    ASSUME L1Inv, NEW n \in SeqNo, NEW b \in Batch, AddBatch(n, b)
    PROVE  L1Inv'
BY StoreBatchPreserves DEF AddBatch

\* Marking a batch executed preserves the invariant.
LEMMA MarkExecutedPreserves ==
    ASSUME L1Inv, NEW n \in SeqNo, MarkExecuted(n)
    PROVE  L1Inv'
BY StoreExecutedPreserves DEF MarkExecuted

\* Every step preserves the invariant.
LEMMA NextL1Inv == L1Inv /\ [L1Next]_l1Vars => L1Inv'
<1>1. SUFFICES ASSUME L1Inv, [L1Next]_l1Vars PROVE L1Inv'
  OBVIOUS
<1>2. ASSUME NEW b \in L1Block, IngestL1Block(b) PROVE L1Inv'
  BY <1>1, <1>2, SubmitPreserves
<1>3. ASSUME NEW n \in SeqNo, NEW b \in Rows, AddBatch(n, b) PROVE L1Inv'
  BY <1>1, <1>3, AddBatchPreserves, RowsAssumption
<1>4. ASSUME NEW n \in SeqNo, MarkExecuted(n) PROVE L1Inv'
  BY <1>1, <1>4, MarkExecutedPreserves
<1>5. CASE UNCHANGED l1Vars
  <2>1. UNCHANGED storageVars /\ l1Messages' \subseteq blocks
    BY <1>1, <1>5 DEF l1Vars, L1Inv, L1TypeOK
  <2>. QED  BY <1>1, <2>1, StorageUnchanged
<1>. QED  BY <1>1, <1>2, <1>3, <1>4, <1>5 DEF L1Next

(* Whatever blocks are submitted, in whatever order, and whenever batches are  *)
(* stored and executed, the invariant of L1 ingestion holds.                   *)
THEOREM IngestionInvariance == L1Spec => []L1Inv
<1>1. L1Init => L1Inv
  BY L1InitInv
<1>2. L1Inv /\ [L1Next]_l1Vars => L1Inv'
  BY NextL1Inv
<1>. QED  BY <1>1, <1>2, PTL DEF L1Spec

\* Type correctness of the tables that L1 ingestion writes.
THEOREM IngestionTypeCorrect == L1Spec => []L1TypeOK
<1>1. L1Inv => L1TypeOK
  BY DEF L1Inv
<1>. QED  BY <1>1, IngestionInvariance, PTL

(* The blocks flagged is_canonical are always one chain, the stored ancestors  *)
(* of the only block FetchHeadBlock can return.                                *)
THEOREM CanonicalChainHolds == L1Spec => []CanonicalChain
BY L1InvGivesCanonicalChain, IngestionInvariance, PTL

(* A batch is always flagged canonical exactly when its L1 proof is, in        *)
(* whichever order the two were stored.                                        *)
THEOREM BatchFlagsAgreeHolds == L1Spec => []BatchFlagsAgree
<1>1. L1Inv => BatchFlagsAgree
  BY DEF L1Inv
<1>. QED  BY <1>1, IngestionInvariance, PTL

(* The stored blocks of one branch never have a hole above the genesis block,  *)
(* so no walk between two of them fails.                                       *)
THEOREM NoHolesHolds == L1Spec => []NoHoles
<1>1. L1Inv => NoHoles
  BY DEF L1Inv
<1>. QED  BY <1>1, IngestionInvariance, PTL
-------------------------------------------------------------------------------
\* The patched flags implement the recomputed ones.

\* An inserted block is a step of L1View: a new head, or the genesis block filled in.
LEMMA SubmitRefines ==
    ASSUME L1Inv, NEW b \in L1Block, IngestL1Block(b)
    PROVE  View!ViewNext
<1>1. PICK fork \in IngestBlock(b) : Process(b, fork) \/ ProcessFails(b, fork)
  BY DEF IngestL1Block
<1>2. b \notin blocks /\ StoreBlock(b, fork)
  BY <1>1 DEF Process, ProcessFails, TryAndInsertBlock
<1>3. Accepted(b, fork) \/ LateGenesis(b, fork)
  BY <1>2, IngestCases
<1>4. blocks' = blocks \cup {b} /\ batch' = batch
  BY <1>2 DEF StoreBlock
<1>5. canonicalBlocks' = FlagsAfter(fork) \cup {b}
  BY <1>2, <1>3, FlagsInStep DEF L1Inv, Accepted, LateGenesis
<1>6. canonicalBatches' = View!CanonicalIn(batch, canonicalBlocks')
  <2>1. L1Inv'
    BY SubmitPreserves
  <2>. QED  BY <1>4, <2>1 DEF L1Inv, BatchFlagsAgree, L1TypeOK, StorageTypeOK, Stored, View!CanonicalIn
<1>7. CASE Accepted(b, fork)
  <2>1. canonicalBlocks' = { c \in blocks \cup {b} : c \preceq b }
    BY <1>5, <1>7 DEF Accepted
  <2>2. View!NewHead(b)
    BY <1>2, <1>4, <1>6, <2>1 DEF View!NewHead, View!\preceq, View!Upto, \preceq, Upto
  <2>. QED  BY <2>2 DEF View!ViewNext, View!L1Block, L1Block
<1>8. CASE LateGenesis(b, fork)
  <2>1. canonicalBlocks' = canonicalBlocks \cup {b} /\ b = L1Genesis
    BY <1>5, <1>8 DEF LateGenesis, FlagsAfter
  <2>2. View!FillGenesis
    BY <1>2, <1>4, <1>6, <2>1 DEF View!FillGenesis, View!L1Genesis, L1Genesis
  <2>. QED  BY <2>2 DEF View!ViewNext
<1>. QED  BY <1>3, <1>7, <1>8

\* A stored batch is a step of L1View.
LEMMA AddBatchRefines ==
    ASSUME L1Inv, NEW n \in SeqNo, NEW b \in Batch, AddBatch(n, b)
    PROVE  View!ViewNext
<1>1. /\ UNCHANGED << blocks, canonicalBlocks >>
      /\ batch' = [ m \in DOMAIN batch \cup {n} |-> IF m = n THEN b ELSE batch[m] ]
      /\ n \notin DOMAIN batch
  BY DEF AddBatch, StoreBatch, Stored
<1>2. \A m \in DOMAIN batch : m \in DOMAIN batch' /\ batch'[m] = batch[m]
  BY <1>1
<1>3. canonicalBatches' = View!CanonicalIn(batch', canonicalBlocks)
  <2>1. L1Inv'
    BY AddBatchPreserves
  <2>. QED  BY <1>1, <2>1 DEF L1Inv, BatchFlagsAgree, L1TypeOK, StorageTypeOK, Stored, View!CanonicalIn
<1>. QED  BY <1>1, <1>2, <1>3 DEF View!ViewNext, View!NewBatch

(* L1 ingestion, which patches the rows a fork touches, implements L1View,     *)
(* which recomputes every is_canonical flag from the latest block accepted.    *)
THEOREM IngestionRefinesView == L1Spec => FlagsRefineView
<1>1. L1Init => View!ViewInit
  BY DEF L1Init, StorageInit, View!ViewInit
<1>2. L1Inv /\ [L1Next]_l1Vars => [View!ViewNext]_View!viewVars
  <2>1. SUFFICES ASSUME L1Inv, [L1Next]_l1Vars PROVE [View!ViewNext]_View!viewVars
    OBVIOUS
  <2>2. ASSUME NEW b \in L1Block, IngestL1Block(b) PROVE View!ViewNext
    BY <2>1, <2>2, SubmitRefines
  <2>3. ASSUME NEW n \in SeqNo, NEW b \in Rows, AddBatch(n, b) PROVE View!ViewNext
    BY <2>1, <2>3, AddBatchRefines, RowsAssumption
  <2>4. ASSUME NEW n \in SeqNo, MarkExecuted(n) PROVE UNCHANGED View!viewVars
    BY <2>4 DEF MarkExecuted, StoreExecutedBatch, View!viewVars
  <2>5. ASSUME UNCHANGED l1Vars PROVE UNCHANGED View!viewVars
    BY <2>5 DEF l1Vars, storageVars, View!viewVars
  <2>. QED  BY <2>1, <2>2, <2>3, <2>4, <2>5 DEF L1Next
<1>. QED  BY <1>1, <1>2, IngestionInvariance, PTL DEF L1Spec, FlagsRefineView, View!ViewSpec
===============================================================================
