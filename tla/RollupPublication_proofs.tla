------------------------ MODULE RollupPublication_proofs ------------------------
(* No batch is missing from the rollups on L1, for every delay, every size and *)
(* every sequence of failures, and of reorganisations and losses or of late    *)
(* receipts.                                                                   *)
EXTENDS RollupPublication, FiniteSetTheorems, WellFoundedInduction, TLAPS

-------------------------------------------------------------------------------
\* Numbers and counting.

\* Induction over the numbers: a set with 0 and the successor of each of its numbers has them all.
LEMMA NatSetInduction ==
    ASSUME NEW S, 0 \in S, \A n \in Nat : n \in S => n + 1 \in S
    PROVE  Nat \subseteq S
<1> DEFINE T == Nat \ S
           R == OpToRel(<, Nat)
<1>1. SUFFICES ASSUME T # {} PROVE FALSE
  OBVIOUS
<1>2. IsWellFoundedOn(R, Nat)
  BY NatLessThanWellFounded
<1>3. T \subseteq Nat
  OBVIOUS
<1>4. PICK x \in T : \A y \in T : ~ (<<y, x>> \in R)
  <2> HIDE DEF T, R
  <2>. QED  BY <1>1, <1>2, <1>3, WFMin
<1>5. x # 0 /\ x - 1 \in Nat
  OBVIOUS
<1>6. x - 1 \in T
  BY <1>5
<1>7. <<x - 1, x>> \in R
  BY <1>5 DEF OpToRel
<1>. QED  BY <1>4, <1>6, <1>7

\* A bounded set of numbers that is not empty has a greatest one: the least bound.
LEMMA GreatestNumber ==
    ASSUME NEW M \in Nat, NEW T \in SUBSET (0..M), T # {}
    PROVE  \E x \in T : \A y \in T : y <= x
<1> DEFINE B == { b \in Nat : \A y \in T : y <= b }
           R == OpToRel(<, Nat)
<1>1. M \in B /\ B \subseteq Nat
  OBVIOUS
<1>2. PICK b \in B : \A x \in B : ~ (<<x, b>> \in R)
  <2> HIDE DEF B, R
  <2>. QED  BY <1>1, NatLessThanWellFounded, WFMin DEF R
<1>3. b \in T
  <2>1. SUFFICES ASSUME b \notin T PROVE FALSE
    OBVIOUS
  <2>2. \A y \in T : y \in Nat /\ y < b
    BY <2>1
  <2>3. b - 1 \in Nat /\ b - 1 < b
    <3>1. PICK y \in T : TRUE
      OBVIOUS
    <3>. QED  BY <2>2, <3>1
  <2>4. b - 1 \in B
    BY <2>2, <2>3
  <2>5. <<b - 1, b>> \in R
    BY <2>3 DEF OpToRel
  <2>. QED  BY <1>2, <2>4, <2>5
<1>. QED  BY <1>2, <1>3

\* A finite set of numbers has an i-th smallest.
LEMMA IthSmallest ==
    ASSUME NEW M \in Nat, NEW O \in SUBSET (1..M), NEW i \in 1..Cardinality(O)
    PROVE  \E x \in O : Cardinality({ y \in O : y < x }) = i - 1
<1> DEFINE B(m) == O \cap (1..m)
           L(x) == { y \in O : y < x }
           Ranked(X) == \A j \in 1..Cardinality(X) : \E x \in X : Cardinality(L(x)) = j - 1
           S == { m \in Nat : Ranked(B(m)) }
<1>1. ASSUME NEW m \in Nat PROVE IsFiniteSet(B(m)) /\ Cardinality(B(m)) \in Nat
  <2>1. IsFiniteSet(1..m)
    BY FS_Interval
  <2>. QED  BY <2>1, FS_Subset, FS_CardinalityType
<1>2. 0 \in S
  <2>1. B(0) = {}
    OBVIOUS
  <2>. QED  BY <2>1, FS_EmptySet
<1>3. ASSUME NEW m \in Nat, m \in S PROVE m + 1 \in S
  <2>1. CASE m + 1 \notin O
    <3>1. B(m + 1) = B(m)
      BY <2>1
    <3> HIDE DEF B, Ranked
    <3>. QED  BY <1>3, <3>1
  <2>2. CASE m + 1 \in O
    <3>1. B(m + 1) = B(m) \cup {m + 1} /\ m + 1 \notin B(m) /\ m + 1 \in B(m + 1)
      BY <2>2
    <3>2. L(m + 1) = B(m)
      <4>1. \A y \in O : y \in Nat /\ 1 <= y
        OBVIOUS
      <4>2. \A y \in O : y < m + 1 <=> y \in 1..m
        BY <4>1
      <4>. QED  BY <4>2
    <3> HIDE DEF B, L
    <3>3. \A j \in 1..Cardinality(B(m)) : \E x \in B(m) : Cardinality(L(x)) = j - 1
      BY <1>3
    <3>4. Cardinality(B(m + 1)) = Cardinality(B(m)) + 1
      BY <1>1, <3>1, FS_AddElement
    <3>5. ASSUME NEW j \in 1..Cardinality(B(m + 1))
          PROVE  \E x \in B(m + 1) : Cardinality(L(x)) = j - 1
      <4>1. CASE j \in 1..Cardinality(B(m))
        BY <3>1, <3>3, <4>1
      <4>2. CASE j = Cardinality(B(m)) + 1
        BY <1>1, <3>1, <3>2, <4>2
      <4>. QED  BY <1>1, <3>4, <4>1, <4>2
    <3>. QED  BY <3>5
  <2>. QED  BY <2>1, <2>2
<1>4. M \in S
  <2> HIDE DEF S
  <2>. QED  BY <1>2, <1>3, NatSetInduction
<1>5. B(M) = O
  OBVIOUS
<1>. QED  BY <1>4, <1>5

\* The maximum of a bounded set is its greatest number.
LEMMA MaxIsGreatest ==
    ASSUME NEW M \in Nat, NEW T \in SUBSET (0..M), T # {}
    PROVE  Max(T) \in T /\ \A y \in T : y <= Max(T)
<1>1. PICK x \in T : \A y \in T : y <= x
  BY GreatestNumber
<1>2. \A y \in T : x >= y
  BY <1>1
<1>3. Max(T) \in T /\ \A y \in T : Max(T) >= y
  BY <1>2 DEF Max
<1>. QED  BY <1>3

-------------------------------------------------------------------------------
\* The wallet's transactions and their rollups.

Env == [ messages : BOOLEAN, losses : BOOLEAN, sizes : SUBSET Nat, batches : Nat,
         reorgs : Nat, timeouts : Nat, failures : Nat, met : SUBSET {"reorgs", "timeouts", "failures"} ]
Rollup == [ first : Nat, last : Nat ]
Tx == [ nonce : Int, rollup : Rollup, attempt : Nat, ok : BOOLEAN ]
Batch == [ l1 : Nat, message : Nat, size : Nat, canonical : BOOLEAN ]

\* The transactions that are in the chain or may get there.
Known == pool \cup ({ l1[i] : i \in DOMAIN l1 } \ {NoTx})

\* A range of batches there are.
Proper(r) == r \in Rollup /\ 1 <= r.first /\ r.first <= r.last /\ r.last <= Len(batches)

\* The contract takes a rollup when it has the batches in covered.
Fits(r, covered) ==
    \A n \in r.first..r.last : batches[n].message # NoMessage =>
        /\ \A k \in r.first..r.last : k # n => batches[k].message # batches[n].message
        /\ \A k \in covered : batches[k].message # batches[n].message

\* The batches the contract has after the rollup.
After(r, covered) == IF Fits(r, covered) THEN covered \cup (r.first..r.last) ELSE covered

\* The transactions of the first j blocks, and the batches they brought.
Count(s, j) == Cardinality({ i \in 1..j : s[i] # NoTx })
CoveredTo(s, j) == { n \in Nat : \E i \in 1..j : s[i].ok /\ n \in s[i].rollup.first..s[i].rollup.last }

TypeInv ==
    /\ env \in Env
    /\ l1 \in Seq(Tx) /\ pool \subseteq Tx
    /\ batches \in Seq(Batch)
    /\ nonce \in Nat /\ last \in Nat /\ attempt \in Nat
    /\ pc \in {"tick", "create", "publish", "wait"}
    /\ \A x \in Known : x.nonce \in Nat /\ Proper(x.rollup)
    /\ pc \in {"publish", "wait"} => Proper(rollup)

\* No batch is missing between those in covered and those the guardian is at.
Follows(covered) ==
    /\ pc = "create" => 1..last \subseteq covered
    /\ pc \in {"publish", "wait"} => 1..(rollup.first - 1) \subseteq covered

(* Until L1 reorganises, what is on it stays there: rollups with one nonce may *)
(* differ, but each goes on from what L1 has.                                  *)
Stays ==
    /\ \A x \in Known : 1..(x.rollup.first - 1) \subseteq Covered(OnL1)
    /\ Follows(Covered(OnL1))

\* The nonce after the greatest that was sent.
Top == IF pc = "wait" THEN nonce + 1 ELSE nonce

\* Transactions are mined in the order of their nonces, and c[n] is what n of them bring.
Accumulates(c) ==
    /\ \A j \in 0..Len(l1) : Count(l1, j) \in 0..Top /\ CoveredTo(l1, j) = c[Count(l1, j)]
    /\ \A j \in 1..Len(l1) : l1[j] # NoTx => l1[j].nonce = Count(l1, j - 1)

(* Until a receipt is late a nonce has one rollup for ever, and the batches    *)
(* the contract has when the nonce n is next are always the same: c[n],        *)
(* whatever was abandoned, put back or lost in between.                        *)
History(c) ==
    /\ c \in [ Nat -> SUBSET (1..Len(batches)) ]
    /\ c[0] = {}
    /\ \A m, n \in 0..Top : m <= n => c[m] \subseteq c[n]
    /\ \A x \in Known : /\ x.nonce < Top
                        /\ c[x.nonce + 1] = After(x.rollup, c[x.nonce])
                        /\ 1..(x.rollup.first - 1) \subseteq c[x.nonce]
    /\ Accumulates(c)
    /\ Follows(c[nonce])

\* The inductive invariant.
PInv ==
    /\ TypeInv
    /\ ~Reorganised => Stays
    /\ ~Late => \E c : History(c)

-------------------------------------------------------------------------------
\* What L1 has.

\* The batches of the rollups on L1.
LEMMA CoveredOnL1 == l1 \in Seq(Tx) => Covered(OnL1) = CoveredTo(l1, Len(l1))
<1> SUFFICES ASSUME l1 \in Seq(Tx) PROVE Covered(OnL1) = CoveredTo(l1, Len(l1))
  OBVIOUS
<1>1. \A r \in OnL1 : \E i \in 1..Len(l1) : l1[i].ok /\ r = l1[i].rollup
  BY DEF OnL1
<1>2. \A i \in 1..Len(l1) : l1[i].ok => l1[i].rollup \in OnL1
  BY DEF OnL1
<1>3. \A i \in 1..Len(l1) : l1[i].rollup.first \in Nat /\ l1[i].rollup.last \in Nat
  <2>1. \A i \in 1..Len(l1) : l1[i] \in Tx
    OBVIOUS
  <2>. QED  BY <2>1 DEF Tx, Rollup
<1>4. \A n : n \in Covered(OnL1) <=> \E r \in OnL1 : n \in r.first..r.last
  BY DEF Covered
<1>5. ASSUME NEW n \in Covered(OnL1) PROVE n \in CoveredTo(l1, Len(l1))
  BY <1>1, <1>3, <1>4 DEF CoveredTo
<1>6. ASSUME NEW n \in CoveredTo(l1, Len(l1)) PROVE n \in Covered(OnL1)
  BY <1>2, <1>4 DEF CoveredTo
<1>. QED  BY <1>5, <1>6

\* The same, after a step.
LEMMA CoveredOnL1After == l1' \in Seq(Tx) => Covered(OnL1)' = CoveredTo(l1', Len(l1'))
<1>1. (l1 \in Seq(Tx) => Covered(OnL1) = CoveredTo(l1, Len(l1)))'
  BY CoveredOnL1, PTL
<1>. QED  BY <1>1

\* The last batch on L1 is 0 or the last of a rollup there.
LEMMA LastBatchIs ==
    ASSUME TypeInv
    PROVE  /\ LastBatchSeqNo \in Nat
           /\ \/ LastBatchSeqNo = 0
              \/ \E i \in 1..Len(l1) : l1[i].ok /\ l1[i] \in Known /\ LastBatchSeqNo = l1[i].rollup.last
<1> DEFINE T == {0} \cup { r.last : r \in OnL1 }
<1>1. ASSUME NEW i \in 1..Len(l1), l1[i].ok PROVE l1[i] \in Known /\ l1[i].rollup.last \in 0..Len(batches)
  <2>1. l1[i] # NoTx
    BY <1>1 DEF NoTx
  <2>2. l1[i] \in Known
    BY <2>1 DEF Known, TypeInv
  <2>. QED  BY <2>2 DEF TypeInv, Proper, Rollup
<1>2. \A r \in OnL1 : \E i \in 1..Len(l1) : l1[i].ok /\ r = l1[i].rollup
  BY DEF OnL1, TypeInv
<1>3. Len(batches) \in Nat /\ T \in SUBSET (0..Len(batches)) /\ T # {}
  BY <1>1, <1>2 DEF TypeInv
<1>4. Max(T) \in T
  <2> HIDE DEF T
  <2>. QED  BY <1>3, MaxIsGreatest
<1>5. LastBatchSeqNo \in T
  BY <1>4 DEF LastBatchSeqNo
<1>. QED  BY <1>1, <1>2, <1>3, <1>5

(* No batch is missing when none is before the rollups on L1.                  *)
LEMMA CompleteBelow ==
    ASSUME TypeInv,
           \A i \in 1..Len(l1) : l1[i].ok => 1..(l1[i].rollup.first - 1) \subseteq Covered(OnL1)
    PROVE  NoBatchMissing
<1>1. CASE LastBatchSeqNo = 0
  BY <1>1 DEF NoBatchMissing
<1>2. CASE LastBatchSeqNo # 0
  <2>1. PICK i \in 1..Len(l1) : l1[i].ok /\ l1[i] \in Known /\ LastBatchSeqNo = l1[i].rollup.last
    BY <1>2, LastBatchIs
  <2> DEFINE r == l1[i].rollup
  <2>2. Proper(r)
    BY <2>1 DEF TypeInv
  <2>3. r.first \in Nat /\ r.last \in Nat /\ 1 <= r.first /\ r.first <= r.last
    BY <2>2 DEF Proper, Rollup
  <2>4. 1..(r.first - 1) \subseteq Covered(OnL1)
    BY <2>1
  <2>5. r.first..r.last \subseteq CoveredTo(l1, Len(l1))
    BY <2>1, <2>3 DEF CoveredTo
  <2>6. 1..r.last \subseteq Covered(OnL1)
    <3> HIDE DEF r
    <3>. QED  BY <2>3, <2>4, <2>5, CoveredOnL1 DEF TypeInv
  <2>. QED  BY <2>1, <2>6 DEF NoBatchMissing
<1>. QED  BY <1>1, <1>2

\* The invariant implies the property.
LEMMA PInvComplete == PInv => NoBatchMissing
<1> SUFFICES ASSUME PInv PROVE NoBatchMissing
  OBVIOUS
<1>1. TypeInv
  BY DEF PInv
<1>2. ASSUME NEW i \in 1..Len(l1), l1[i].ok PROVE l1[i] \in Known /\ l1[i] # NoTx
  BY <1>1, <1>2 DEF NoTx, Known, TypeInv
<1>3. CASE ~Reorganised
  BY <1>1, <1>2, <1>3, CompleteBelow DEF PInv, Stays
<1>4. CASE ~Late
  <2>1. PICK c : History(c)
    BY <1>4 DEF PInv
  <2>2. ASSUME NEW i \in 1..Len(l1), l1[i].ok
        PROVE  1..(l1[i].rollup.first - 1) \subseteq Covered(OnL1)
    <3>1. i - 1 \in 0..Len(l1) /\ Len(l1) \in Nat
      BY <1>1 DEF TypeInv
    <3>2. 1..(l1[i].rollup.first - 1) \subseteq CoveredTo(l1, i - 1)
      BY <1>2, <2>1, <2>2, <3>1 DEF History, Accumulates
    <3>3. CoveredTo(l1, i - 1) \subseteq CoveredTo(l1, Len(l1))
      BY <3>1 DEF CoveredTo
    <3>. QED  BY <1>1, <3>2, <3>3, CoveredOnL1 DEF TypeInv
  <2>. QED  BY <1>1, <2>2, CompleteBelow
<1>. QED  BY <1>3, <1>4 DEF NoBatchMissing

-------------------------------------------------------------------------------
\* The first state.

\* The invariant holds initially.
LEMMA InitPInv == Init => PInv
<1> SUFFICES ASSUME Init PROVE PInv
  OBVIOUS
<1>1. Known = {} /\ Len(l1) = 0 /\ l1 \in Seq(Tx)
  BY DEF Init, Known
<1>2. TypeInv
  <2>1. batches \in Seq(Batch)
    <3> DEFINE b == [ l1 |-> 0, message |-> NoMessage, size |-> 1, canonical |-> TRUE ]
    <3>1. batches = << b >> /\ b \in Batch
      BY DEF Init, Batch, NoMessage
    <3> HIDE DEF b
    <3>. QED  BY <3>1
  <2>2. env \in Env
    BY RollupPublicationAssumption DEF Init, Env
  <2>. QED  BY <1>1, <2>1, <2>2 DEF Init, TypeInv
<1>3. Stays
  BY <1>1 DEF Init, Stays, Follows
<1>4. \E c : History(c)
  <2> DEFINE c == [ n \in Nat |-> {} ]
  <2>1. Count(l1, 0) = 0
    <3>1. { i \in 1..0 : l1[i] # NoTx } = {}
      OBVIOUS
    <3>. QED  BY <3>1, FS_EmptySet DEF Count
  <2>2. CoveredTo(l1, 0) = {}
    BY DEF CoveredTo
  <2>3. Top = 0 /\ pc = "tick"
    BY DEF Init, Top
  <2>4. History(c)
    BY <1>1, <2>1, <2>2, <2>3 DEF History, Accumulates, Follows
  <2>. QED  BY <2>4
<1>. QED  BY <1>2, <1>3, <1>4 DEF PInv

-------------------------------------------------------------------------------
\* Steps of the guardian.

\* A fault is used up and has been met; the others stay as they are.
LEMMA FaultKeeps ==
    ASSUME TypeInv, NEW kind \in {"reorgs", "timeouts", "failures"}, Fault(kind)
    PROVE  env' \in Env /\ env'.met = env.met \cup {kind}
<1>1. env \in Env
  BY DEF TypeInv
<1>2. /\ env[kind] \in Nat /\ env[kind] > 0
      /\ env' = [ env EXCEPT ![kind] = env[kind] - 1, !.met = env.met \cup {kind} ]
  BY <1>1 DEF Fault, Env
<1>3. env.met \cup {kind} \in SUBSET {"reorgs", "timeouts", "failures"} /\ env[kind] - 1 \in Nat
  <2>1. env.met \in SUBSET {"reorgs", "timeouts", "failures"}
    BY <1>1 DEF Env
  <2>2. env.met \cup {kind} \in SUBSET {"reorgs", "timeouts", "failures"}
    BY <2>1, Zenon
  <2>3. \A n \in Nat : n > 0 => n - 1 \in Nat
    OBVIOUS
  <2>. QED  BY <1>2, <2>2, <2>3, Zenon
<1>4. CASE kind = "reorgs"
  BY <1>1, <1>2, <1>3, <1>4 DEF Env
<1>5. CASE kind = "timeouts"
  BY <1>1, <1>2, <1>3, <1>5 DEF Env
<1>6. CASE kind = "failures"
  BY <1>1, <1>2, <1>3, <1>6 DEF Env
<1>. QED  BY <1>4, <1>5, <1>6

\* L1 and the batches stay, and with them what is known.
LEMMA L1Same ==
    ASSUME l1' = l1, pool' = pool, batches' = batches
    PROVE  /\ Known' = Known /\ Covered(OnL1)' = Covered(OnL1)
           /\ \A r : Proper(r)' <=> Proper(r)
           /\ \A r, covered : After(r, covered)' = After(r, covered)
           /\ LastBatchSeqNo' = LastBatchSeqNo
BY DEF Known, Covered, OnL1, Proper, After, Fits, LastBatchSeqNo

(* A step of the guardian that sends nothing keeps the invariant, when the     *)
(* guardian goes on from what is on L1.                                        *)
LEMMA GuardianMoves ==
    ASSUME PInv, l1' = l1, pool' = pool, batches' = batches,
           env' \in Env,
           env.met \subseteq env'.met,
           nonce' \in Nat, last' \in Nat, attempt' \in Nat,
           pc' \in {"tick", "create", "publish", "wait"},
           pc' \in {"publish", "wait"} => Proper(rollup'),
           ~Late' => Top' = Top /\ (pc' = "tick" \/ (nonce' = nonce /\ pc # "wait")),
           \A covered : 1..LastBatchSeqNo \subseteq covered /\ Follows(covered) => Follows(covered)'
    PROVE  PInv'
<1>1. /\ Known' = Known /\ Covered(OnL1)' = Covered(OnL1)
      /\ \A r : Proper(r)' <=> Proper(r)
      /\ \A r, covered : After(r, covered)' = After(r, covered)
  BY L1Same
<1>2. TypeInv /\ NoBatchMissing
  BY PInvComplete DEF PInv
<1>3. TypeInv'
  <2>1. \A x \in Known' : x.nonce \in Nat /\ Proper(x.rollup)'
    BY <1>1, <1>2 DEF TypeInv
  <2>2. pc' \in {"publish", "wait"} => Proper(rollup)'
    BY DEF Proper
  <2>. QED  BY <1>2, <2>1, <2>2 DEF TypeInv
<1>4. ASSUME ~Reorganised' PROVE Stays'
  <2>1. ~Reorganised /\ Stays
    BY <1>4 DEF PInv, Reorganised
  <2>2. Follows(Covered(OnL1))'
    BY <1>1, <1>2, <2>1 DEF Stays, NoBatchMissing, Follows
  <2>. QED  BY <1>1, <2>1, <2>2 DEF Stays
<1>5. ASSUME ~Late' PROVE \E c : History(c)'
  <2>0. ~Late
    BY <1>5 DEF Late
  <2>1. PICK c : History(c)
    BY <2>0 DEF PInv
  <2>2. ASSUME pc' # "tick" PROVE Follows(c[nonce])'
    <3>1. nonce' = nonce /\ Top = nonce
      BY <1>5, <2>2 DEF Top
    <3>2. Covered(OnL1) \subseteq c[nonce]
      <4>1. /\ Covered(OnL1) = c[Count(l1, Len(l1))] /\ Count(l1, Len(l1)) \in 0..Top
            /\ nonce \in Nat
        BY <1>2, <2>1, CoveredOnL1 DEF History, Accumulates, TypeInv
      <4>. QED  BY <2>1, <3>1, <4>1 DEF History
    <3>3. 1..LastBatchSeqNo \subseteq c[nonce] /\ Follows(c[nonce])
      BY <1>2, <2>0, <2>1, <3>2 DEF NoBatchMissing, History
    <3>. QED  BY <3>1, <3>3 DEF Follows
  <2>3. Follows(c[nonce])'
    BY <2>2 DEF Follows
  <2>4. History(c)'
    BY <1>1, <1>5, <2>1, <2>3 DEF History, Accumulates
  <2>. QED  BY <2>4
<1>. QED  BY <1>3, <1>4, <1>5 DEF PInv

(* FetchLatestSeqNo: the guardian goes on from the last batch on L1.           *)
LEMMA FetchKeeps == PInv /\ FetchLatestSeqNo => PInv'
<1> SUFFICES ASSUME PInv, FetchLatestSeqNo PROVE PInv'
  OBVIOUS
<1>1. TypeInv /\ LastBatchSeqNo \in Nat
  BY LastBatchIs DEF PInv
<1>2. /\ pc = "tick" /\ pc' = "create" /\ last' = LastBatchSeqNo
      /\ UNCHANGED << env, l1, pool, batches, rollup, nonce, attempt >>
  BY DEF FetchLatestSeqNo
<1>3. Top' = Top
  BY <1>2 DEF Top
<1>4. \A covered : 1..LastBatchSeqNo \subseteq covered => Follows(covered)'
  BY <1>2 DEF Follows
<1>. QED  BY <1>1, <1>2, <1>3, <1>4, GuardianMoves DEF TypeInv

\* CreateRollup starts after the batch the guardian has read.
LEMMA CreateRollupKeeps == PInv /\ CreateRollup => PInv'
<1> SUFFICES ASSUME PInv, CreateRollup PROVE PInv'
  OBVIOUS
<1> DEFINE rollups == RollupsFrom(FromBatch)
<1>1. TypeInv /\ last \in Nat /\ Len(batches) \in Nat
  BY DEF PInv, TypeInv
<1>2. /\ pc = "create" /\ UNCHANGED << env, l1, pool, batches, last, nonce, attempt >>
      /\ \/ pc' = "tick"
         \/ /\ pc' = "publish" /\ rollups # {}
            /\ rollup' = CHOOSE r \in rollups : \A s \in rollups : s.last <= r.last
  BY DEF CreateRollup
<1>3. FromBatch \in Nat /\ 1 <= FromBatch /\ 1..(FromBatch - 1) \subseteq 1..last
  BY <1>1 DEF FromBatch, L2GenesisSeqNo
<1>4. \A r \in rollups : r \in Rollup /\ r.first = FromBatch /\ r.last \in FromBatch..Len(batches)
  BY <1>1, <1>3 DEF RollupsFrom, Rollup
<1> HIDE DEF rollups
<1>5. ASSUME pc' = "publish" PROVE rollup' \in rollups
  <2> DEFINE T == { r.last : r \in rollups }
  <2>1. T \in SUBSET (0..Len(batches)) /\ T # {}
    BY <1>1, <1>2, <1>3, <1>4, <1>5
  <2>2. PICK x \in T : \A y \in T : y <= x
    <3> HIDE DEF T
    <3>. QED  BY <1>1, <2>1, GreatestNumber
  <2>3. \E r \in rollups : \A s \in rollups : s.last <= r.last
    BY <2>2
  <2>. QED  BY <1>2, <1>5, <2>3
<1>6. pc' = "publish" => Proper(rollup') /\ rollup'.first = FromBatch
  BY <1>1, <1>3, <1>4, <1>5 DEF Proper
<1>7. \A covered : Follows(covered) => Follows(covered)'
  BY <1>2, <1>3, <1>6 DEF Follows
<1>8. Top' = Top
  BY <1>2 DEF Top
<1>. QED  BY <1>1, <1>2, <1>6, <1>7, <1>8, GuardianMoves DEF TypeInv

\* Giving up a rollup, and with it nothing that was sent.
LEMMA AbandonKeeps == PInv /\ (Rejected \/ Unavailable) => PInv'
<1> SUFFICES ASSUME PInv, Rejected \/ Unavailable PROVE PInv'
  OBVIOUS
<1>1. TypeInv
  BY DEF PInv
<1>2. pc = "publish" /\ pc' = "tick" /\ attempt' = 0 /\ UNCHANGED << l1, pool, batches, last, nonce >>
  BY DEF Rejected, Unavailable, Abandon
<1>3. env' \in Env /\ env.met \subseteq env'.met
  BY <1>1, FaultKeeps DEF Rejected, Unavailable, TypeInv
<1>4. Top' = Top /\ \A covered : Follows(covered)'
  BY <1>2 DEF Top, Follows
<1>. QED  BY <1>1, <1>2, <1>3, <1>4, GuardianMoves DEF TypeInv

\* A receipt: the nonce is used.
LEMMA ReceiptFoundKeeps == PInv /\ ReceiptFound => PInv'
<1> SUFFICES ASSUME PInv, ReceiptFound PROVE PInv'
  OBVIOUS
<1>1. TypeInv
  BY DEF PInv
<1>2. /\ pc = "wait" /\ pc' = "tick" /\ nonce' = nonce + 1 /\ attempt' = 0
      /\ UNCHANGED << env, l1, pool, batches, last >>
  BY DEF ReceiptFound
<1>3. Top' = Top /\ \A covered : Follows(covered)'
  BY <1>2 DEF Top, Follows
<1>. QED  BY <1>1, <1>2, <1>3, GuardianMoves DEF TypeInv

\* A late receipt: the rollup is published again.
LEMMA ReceiptTimesOutKeeps == PInv /\ ReceiptTimesOut => PInv'
<1> SUFFICES ASSUME PInv, ReceiptTimesOut PROVE PInv'
  OBVIOUS
<1>1. TypeInv
  BY DEF PInv
<1>2. /\ pc = "wait" /\ pc' = "publish" /\ Fault("timeouts")
      /\ UNCHANGED << l1, pool, batches, last, rollup, nonce, attempt >>
  BY DEF ReceiptTimesOut
<1>3. env' \in Env /\ env.met \subseteq env'.met /\ Late'
  BY <1>1, <1>2, FaultKeeps DEF Late
<1>4. \A covered : Follows(covered) => Follows(covered)'
  BY <1>2 DEF Follows
<1>5. Proper(rollup')
  BY <1>1, <1>2 DEF TypeInv
<1>. QED  BY <1>1, <1>2, <1>3, <1>4, <1>5, GuardianMoves DEF TypeInv

(* Send: a nonce that was not sent before gets its rollup, or one that was     *)
(* sent before gets another one after a late receipt.                          *)
LEMMA SendKeeps == PInv /\ Send => PInv'
<1> SUFFICES ASSUME PInv, Send PROVE PInv'
  OBVIOUS
<1> DEFINE tx == [ nonce |-> nonce, rollup |-> rollup, attempt |-> attempt', ok |-> FALSE ]
<1>1. TypeInv
  BY DEF PInv
<1>2. /\ pc = "publish" /\ pc' = "wait" /\ attempt' = attempt + 1 /\ pool' = pool \cup {tx}
      /\ UNCHANGED << env, l1, batches, last, rollup, nonce >>
  BY DEF Send
<1>3. /\ tx \in Tx /\ tx.nonce = nonce /\ tx.rollup = rollup /\ Proper(rollup)
      /\ rollup \in Rollup /\ nonce \in Nat
  BY <1>1, <1>2 DEF TypeInv, Tx, Proper
<1> HIDE DEF tx
<1>4. Known' = Known \cup {tx} \/ Known' = Known
  BY <1>2 DEF Known
<1>5. /\ Covered(OnL1)' = Covered(OnL1) /\ \A r : Proper(r)' <=> Proper(r)
      /\ \A r, covered : After(r, covered)' = After(r, covered)
      /\ \A covered : Follows(covered)' <=> Follows(covered)
  BY <1>2 DEF OnL1, Covered, Proper, After, Fits, Follows
<1>6. TypeInv'
  <2>1. \A x \in Known' : x.nonce \in Nat /\ Proper(x.rollup)'
    BY <1>1, <1>3, <1>4, <1>5 DEF TypeInv
  <2>2. Proper(rollup)'
    BY <1>2, <1>3 DEF Proper
  <2>3. pool' \subseteq Tx
    BY <1>1, <1>2, <1>3 DEF TypeInv
  <2>. QED  BY <1>1, <1>2, <2>1, <2>2, <2>3 DEF TypeInv
<1>7. ASSUME ~Reorganised' PROVE Stays'
  <2>1. ~Reorganised /\ Stays
    BY <1>2, <1>7 DEF PInv, Reorganised
  <2>2. \A x \in Known' : 1..(x.rollup.first - 1) \subseteq Covered(OnL1)
    BY <1>2, <1>3, <1>4, <2>1 DEF Stays, Follows
  <2>3. Follows(Covered(OnL1))'
    BY <1>2, <1>5, <2>1 DEF Stays, Follows
  <2>. QED  BY <1>2, <1>5, <2>1, <2>2, <2>3 DEF Stays
<1>8. ASSUME ~Late' PROVE \E c : History(c)'
  <2>0. ~Late
    BY <1>2, <1>8 DEF Late
  <2>1. PICK c : History(c)
    BY <2>0 DEF PInv
  <2>d. PICK d : d = [ c EXCEPT ![nonce + 1] = After(rollup, c[nonce]) ]
    OBVIOUS
  <2>2. Top = nonce /\ Top' = nonce + 1
    BY <1>2 DEF Top
  <2>3. c \in [ Nat -> SUBSET (1..Len(batches)) ] /\ c[nonce] \in SUBSET (1..Len(batches))
    BY <1>3, <2>1 DEF History
  <2>4. c[nonce] \subseteq After(rollup, c[nonce]) /\ After(rollup, c[nonce]) \in SUBSET (1..Len(batches))
    BY <1>3, <2>3 DEF After, Proper, Rollup
  <2>5. /\ d \in [ Nat -> SUBSET (1..Len(batches)) ]
        /\ d[nonce + 1] = After(rollup, c[nonce])
        /\ \A n \in 0..nonce : d[n] = c[n]
    BY <1>3, <2>d, <2>3, <2>4
  <2>6. \A m, n \in 0..(nonce + 1) : m <= n => d[m] \subseteq d[n]
    <3>1. SUFFICES ASSUME NEW m \in 0..(nonce + 1), NEW n \in 0..(nonce + 1), m <= n
                   PROVE  d[m] \subseteq d[n]
      OBVIOUS
    <3>2. CASE n <= nonce
      BY <1>3, <2>1, <2>2, <2>5, <3>1, <3>2 DEF History
    <3>3. CASE n = nonce + 1 /\ m = nonce + 1
      BY <3>3
    <3>4. CASE n = nonce + 1 /\ m <= nonce
      <4>1. c[m] \subseteq c[nonce] /\ d[m] = c[m]
        BY <1>3, <2>1, <2>2, <2>5, <3>4 DEF History
      <4>. QED  BY <2>4, <2>5, <3>4, <4>1
    <3>. QED  BY <1>3, <3>2, <3>3, <3>4
  <2>7. ASSUME NEW x \in Known'
        PROVE  /\ x.nonce < nonce + 1
               /\ d[x.nonce + 1] = After(x.rollup, d[x.nonce])
               /\ 1..(x.rollup.first - 1) \subseteq d[x.nonce]
    <3>1. CASE x \in Known
      <4>1. x.nonce \in Nat /\ x.nonce < nonce
        BY <1>1, <2>1, <2>2, <3>1 DEF History, Accumulates, TypeInv
      <4>2. d[x.nonce] = c[x.nonce] /\ d[x.nonce + 1] = c[x.nonce + 1]
        BY <1>3, <2>5, <4>1
      <4>. QED  BY <1>3, <2>1, <3>1, <4>1, <4>2 DEF History
    <3>2. CASE x = tx
      <4>1. 1..(rollup.first - 1) \subseteq c[nonce]
        BY <1>2, <2>1 DEF History, Accumulates, Follows
      <4>. QED  BY <1>3, <2>5, <3>2, <4>1
    <3>. QED  BY <1>4, <3>1, <3>2
  <2>8. ASSUME NEW j \in 0..Len(l1)
        PROVE  Count(l1, j) \in 0..(nonce + 1) /\ CoveredTo(l1, j) = d[Count(l1, j)]
    <3>1. Count(l1, j) \in 0..nonce /\ CoveredTo(l1, j) = c[Count(l1, j)]
      BY <2>1, <2>2 DEF History, Accumulates
    <3>. QED  BY <1>3, <2>5, <3>1
  <2>9. Follows(d[nonce])'
    BY <1>2, <1>3, <2>1, <2>5 DEF History, Accumulates, Follows
  <2>10. d[0] = {}
    BY <1>3, <2>1, <2>5 DEF History
  <2>11. History(d)'
    BY <1>2, <1>5, <2>1, <2>2, <2>5, <2>6, <2>7, <2>8, <2>9, <2>10 DEF History, Accumulates
  <2>. QED  BY <2>11
<1>. QED  BY <1>2, <1>6, <1>7, <1>8 DEF PInv

-------------------------------------------------------------------------------
\* Steps of L1 and of the sequencer.

\* Batches are added, and the messages of the others stay.
BatchesGrow ==
    /\ batches' \in Seq(Batch)
    /\ Len(batches) <= Len(batches')
    /\ \A n \in 1..Len(batches) : batches'[n].message = batches[n].message

\* What the contract makes of a rollup does not depend on later batches.
LEMMA GrowKeepsRollups ==
    ASSUME TypeInv, BatchesGrow
    PROVE  /\ \A r : Proper(r) => Proper(r)'
           /\ \A r, covered : Proper(r) /\ covered \subseteq 1..Len(batches) =>
                After(r, covered)' = After(r, covered)
<1>1. Len(batches) \in Nat /\ Len(batches') \in Nat /\ Len(batches) <= Len(batches')
  BY DEF TypeInv, BatchesGrow
<1>2. ASSUME NEW r, Proper(r) PROVE Proper(r)'
  BY <1>1, <1>2 DEF Proper, Rollup
<1>3. ASSUME NEW r, NEW covered, Proper(r), covered \subseteq 1..Len(batches)
      PROVE  After(r, covered)' = After(r, covered)
  <2>1. r.first..r.last \subseteq 1..Len(batches)
    BY <1>1, <1>3 DEF Proper, Rollup
  <2>2. \A n \in (r.first..r.last) \cup covered : batches'[n].message = batches[n].message
    BY <1>3, <2>1 DEF BatchesGrow
  <2>3. Fits(r, covered)' <=> Fits(r, covered)
    BY <2>2 DEF Fits
  <2>. QED  BY <2>3 DEF After
<1>. QED  BY <1>2, <1>3

(* The chain, the pool and the batches change, and the transactions that are   *)
(* known were known.                                                           *)
LEMMA ChainChanges ==
    ASSUME PInv, UNCHANGED << pc, last, rollup, nonce, attempt >>, BatchesGrow,
           env' \in Env,
           env.met \subseteq env'.met,
           l1' \in Seq(Tx), pool' \subseteq Tx,
           \A y \in Known' : \E x \in Known : y.nonce = x.nonce /\ y.rollup = x.rollup,
           ~Reorganised' => Covered(OnL1) \subseteq Covered(OnL1)',
           ~Late' => \A c : History(c) => Accumulates(c)'
    PROVE  PInv'
<1>1. TypeInv
  BY DEF PInv
<1>2. /\ \A r : Proper(r) => Proper(r)'
      /\ \A r, covered : Proper(r) /\ covered \subseteq 1..Len(batches) =>
           After(r, covered)' = After(r, covered)
  BY <1>1, GrowKeepsRollups
<1>3. TypeInv'
  <2>1. \A y \in Known' : y.nonce \in Nat /\ Proper(y.rollup)'
    BY <1>1, <1>2 DEF TypeInv
  <2>2. ASSUME pc \in {"publish", "wait"} PROVE Proper(rollup)'
    <3>1. Proper(rollup)
      BY <1>1, <2>2 DEF TypeInv
    <3>2. Len(batches) \in Nat /\ Len(batches') \in Nat /\ Len(batches) <= Len(batches')
      BY <1>1 DEF TypeInv, BatchesGrow
    <3>. QED  BY <3>1, <3>2 DEF Proper, Rollup
  <2>. QED  BY <1>1, <2>1, <2>2 DEF TypeInv, BatchesGrow
<1>4. ASSUME ~Reorganised' PROVE Stays'
  <2>1. ~Reorganised /\ Stays
    BY <1>4 DEF PInv, Reorganised
  <2>2. \A y \in Known' : 1..(y.rollup.first - 1) \subseteq Covered(OnL1)'
    BY <1>4, <2>1 DEF Stays
  <2>3. Follows(Covered(OnL1))'
    BY <1>4, <2>1 DEF Stays, Follows
  <2>. QED  BY <1>4, <2>1, <2>2, <2>3 DEF Stays
<1>5. ASSUME ~Late' PROVE \E c : History(c)'
  <2>0. ~Late
    BY <1>5 DEF Late
  <2>1. PICK c : History(c)
    BY <2>0 DEF PInv
  <2>2. Top' = Top
    BY DEF Top
  <2>3. c \in [ Nat -> SUBSET (1..Len(batches')) ] /\ \A n \in Nat : c[n] \subseteq 1..Len(batches)
    <3>1. c \in [ Nat -> SUBSET (1..Len(batches)) ]
      BY <2>1 DEF History
    <3>2. 1..Len(batches) \subseteq 1..Len(batches')
      BY <1>1 DEF TypeInv, BatchesGrow
    <3>. QED  BY <3>1, <3>2
  <2>4. ASSUME NEW y \in Known'
        PROVE  /\ y.nonce < Top
               /\ c[y.nonce + 1] = After(y.rollup, c[y.nonce])'
               /\ 1..(y.rollup.first - 1) \subseteq c[y.nonce]
    <3>1. PICK x \in Known : y.nonce = x.nonce /\ y.rollup = x.rollup
      OBVIOUS
    <3>2. x.nonce \in Nat /\ Proper(x.rollup)
      BY <1>1 DEF TypeInv
    <3>3. After(y.rollup, c[y.nonce])' = After(x.rollup, c[x.nonce])
      BY <1>2, <2>3, <3>1, <3>2
    <3>. QED  BY <2>1, <3>1, <3>3 DEF History
  <2>5. Follows(c[nonce])'
    BY <2>1 DEF History, Follows
  <2>6. Accumulates(c)'
    BY <1>5, <2>1
  <2>7. History(c)'
    BY <2>1, <2>2, <2>3, <2>4, <2>5, <2>6 DEF History
  <2>. QED  BY <2>7
<1>. QED  BY <1>3, <1>4, <1>5 DEF PInv

\* A batch on the L1 head.
LEMMA CreateBatchKeeps ==
    ASSUME PInv, NEW size, NEW message \in Nat, CreateBatch(size, message)
    PROVE  PInv'
<1> DEFINE b == [ l1 |-> Len(l1), message |-> message, size |-> size, canonical |-> TRUE ]
<1>1. TypeInv
  BY DEF PInv
<1>2. batches' = Append(batches, b) /\ UNCHANGED << env, l1, pool, pc, last, rollup, nonce, attempt >>
  BY DEF CreateBatch
<1>3. BatchesGrow
  <2>1. b \in Batch
    <3>1. size \in Nat /\ Len(l1) \in Nat
      BY <1>1 DEF TypeInv, Env, CreateBatch
    <3>. QED  BY <3>1 DEF Batch
  <2> HIDE DEF b
  <2>2. batches \in Seq(Batch)
    BY <1>1 DEF TypeInv
  <2>. QED  BY <1>2, <2>1, <2>2 DEF BatchesGrow
<1>4. /\ Known' = Known /\ Covered(OnL1)' = Covered(OnL1)
      /\ \A c : Accumulates(c)' <=> Accumulates(c)
  BY <1>2 DEF Known, Covered, OnL1, Accumulates, Top
<1>. QED  BY <1>1, <1>2, <1>3, <1>4, ChainChanges DEF TypeInv, History

\* Chains with the same beginning.
LEMMA SameBeginning ==
    ASSUME NEW s, NEW t, NEW j \in Nat, \A i \in 1..j : s[i] = t[i]
    PROVE  Count(s, j) = Count(t, j) /\ CoveredTo(s, j) = CoveredTo(t, j)
<1>1. { i \in 1..j : s[i] # NoTx } = { i \in 1..j : t[i] # NoTx }
  OBVIOUS
<1>2. CoveredTo(s, j) = CoveredTo(t, j)
  BY DEF CoveredTo
<1>. QED  BY <1>1, <1>2 DEF Count

\* The blocks of s after its k-th, up to its j-th, have no transaction.
NoTxBetween(s, k, j) ==
    /\ k \in Nat /\ j \in Nat /\ k <= j
    /\ \A i \in (k + 1)..j : s[i] = NoTx

\* Blocks without a transaction change nothing.
LEMMA EmptyBlocks ==
    ASSUME NEW s, NEW k, NEW j, NoTxBetween(s, k, j)
    PROVE  Count(s, j) = Count(s, k) /\ CoveredTo(s, j) = CoveredTo(s, k)
<1> USE DEF NoTxBetween
<1>1. { i \in 1..j : s[i] # NoTx } = { i \in 1..k : s[i] # NoTx }
  OBVIOUS
<1>2. ASSUME NEW i \in 1..j, s[i].ok PROVE i \in 1..k
  <2>1. s[i] # NoTx
    BY <1>2 DEF NoTx
  <2>. QED  BY <2>1
<1>3. CoveredTo(s, j) = CoveredTo(s, k)
  BY <1>2 DEF CoveredTo
<1>. QED  BY <1>1, <1>3 DEF Count

\* A block with a transaction.
LEMMA BlockWithTx ==
    ASSUME NEW s, NEW j \in Nat, s[j + 1] # NoTx, s[j + 1].rollup \in Rollup
    PROVE  /\ Count(s, j + 1) = Count(s, j) + 1
           /\ CoveredTo(s, j + 1) = IF s[j + 1].ok
                                    THEN CoveredTo(s, j) \cup (s[j + 1].rollup.first..s[j + 1].rollup.last)
                                    ELSE CoveredTo(s, j)
<1> DEFINE M(n) == { i \in 1..n : s[i] # NoTx }
<1>1. M(j + 1) = M(j) \cup {j + 1} /\ j + 1 \notin M(j)
  OBVIOUS
<1>2. IsFiniteSet(M(j))
  <2>1. IsFiniteSet(1..j) /\ M(j) \subseteq 1..j
    BY FS_Interval
  <2> HIDE DEF M
  <2>. QED  BY <2>1, FS_Subset
<1>3. Cardinality(M(j + 1)) = Cardinality(M(j)) + 1
  <2> HIDE DEF M
  <2>. QED  BY <1>1, <1>2, FS_AddElement
<1>4. CoveredTo(s, j + 1) = IF s[j + 1].ok
                            THEN CoveredTo(s, j) \cup (s[j + 1].rollup.first..s[j + 1].rollup.last)
                            ELSE CoveredTo(s, j)
  <2>1. 1..(j + 1) = (1..j) \cup {j + 1}
    OBVIOUS
  <2>2. s[j + 1].rollup.first..s[j + 1].rollup.last \subseteq Nat
    BY DEF Rollup
  <2>. QED  BY <2>1, <2>2 DEF CoveredTo
<1>. QED  BY <1>3, <1>4 DEF Count

\* An empty block.
LEMMA EmptyBlockKeeps ==
    ASSUME PInv, l1' = Append(l1, NoTx), UNCHANGED << env, pool, batches, pc, last, rollup, nonce, attempt >>
    PROVE  PInv'
<1>1. TypeInv /\ Len(l1) \in Nat
  BY DEF PInv, TypeInv
<1>2. NoTx \in Tx /\ NoTx.ok = FALSE
  BY DEF NoTx, NoRollup, Tx, Rollup
<1>3. /\ l1' \in Seq(Tx) /\ Len(l1') = Len(l1) + 1 /\ l1'[Len(l1) + 1] = NoTx
      /\ \A i \in 1..Len(l1) : l1'[i] = l1[i]
  BY <1>1, <1>2 DEF TypeInv
<1>4. ASSUME NEW y \in Known' PROVE y \in Known
  <2>1. CASE y \in pool
    BY <2>1 DEF Known
  <2>2. CASE y \notin pool
    <3>1. y # NoTx /\ \E i \in 1..Len(l1') : y = l1'[i]
      BY <1>3, <2>2 DEF Known
    <3>2. \E i \in 1..Len(l1) : y = l1[i]
      BY <1>1, <1>3, <3>1
    <3>. QED  BY <1>1, <3>1, <3>2 DEF Known, TypeInv
  <2>. QED  BY <2>1, <2>2
<1>a. ASSUME NEW j \in 0..Len(l1)
      PROVE  Count(l1', j) = Count(l1, j) /\ CoveredTo(l1', j) = CoveredTo(l1, j)
  <2>1. j \in Nat /\ \A i \in 1..j : l1'[i] = l1[i]
    BY <1>1, <1>3
  <2>. QED  BY <2>1, SameBeginning
<1>b. /\ Count(l1', Len(l1) + 1) = Count(l1', Len(l1))
      /\ CoveredTo(l1', Len(l1) + 1) = CoveredTo(l1', Len(l1))
  <2>1. NoTxBetween(l1', Len(l1), Len(l1) + 1)
    BY <1>1, <1>3 DEF NoTxBetween
  <2>. QED  BY <2>1, EmptyBlocks
<1>5. Covered(OnL1)' = Covered(OnL1)
  BY <1>1, <1>3, <1>a, <1>b, CoveredOnL1, CoveredOnL1After DEF TypeInv
<1>6. ASSUME NEW c, History(c) PROVE Accumulates(c)'
  <2>1. \A j \in 0..Len(l1) : Count(l1', j) = Count(l1, j) /\ CoveredTo(l1', j) = CoveredTo(l1, j)
    BY <1>a
  <2>2. /\ Count(l1', Len(l1) + 1) = Count(l1', Len(l1))
        /\ CoveredTo(l1', Len(l1) + 1) = CoveredTo(l1', Len(l1))
    BY <1>b
  <2>3. Top' = Top
    BY DEF Top
  <2>4. ASSUME NEW j \in 0..Len(l1') PROVE Count(l1', j) \in 0..Top /\ CoveredTo(l1', j) = c[Count(l1', j)]
    <3>1. CASE j \in 0..Len(l1)
      BY <1>6, <2>1, <3>1 DEF History, Accumulates
    <3>2. CASE j = Len(l1) + 1
      BY <1>1, <1>6, <2>1, <2>2, <3>2 DEF History, Accumulates
    <3>. QED  BY <1>1, <1>3, <3>1, <3>2
  <2>5. ASSUME NEW j \in 1..Len(l1'), l1'[j] # NoTx PROVE l1'[j].nonce = Count(l1', j - 1)
    <3>1. j \in 1..Len(l1) /\ j - 1 \in 0..Len(l1)
      BY <1>1, <1>3, <2>5
    <3>. QED  BY <1>3, <1>6, <2>1, <2>5, <3>1 DEF History, Accumulates
  <2>. QED  BY <2>3, <2>4, <2>5 DEF Accumulates
<1>7. BatchesGrow
  BY <1>1 DEF TypeInv, BatchesGrow
<1>. QED  BY <1>1, <1>3, <1>4, <1>5, <1>6, <1>7, ChainChanges DEF TypeInv

(* A transaction is mined: its nonce is next, so that the contract has what it *)
(* had whenever this nonce was next.                                           *)
LEMMA MineTxKeeps ==
    ASSUME PInv, NEW x \in pool, x.nonce = NextNonce,
           l1' = Append(l1, [ x EXCEPT !.ok = AddRollupSucceeds(x.rollup) ]),
           pool' = { p \in pool : p.nonce # x.nonce },
           UNCHANGED << env, batches, pc, last, rollup, nonce, attempt >>
    PROVE  PInv'
<1> DEFINE y == [ x EXCEPT !.ok = AddRollupSucceeds(x.rollup) ]
           n == Len(l1)
<1>1. TypeInv /\ n \in Nat /\ x \in Known /\ x \in Tx
  BY DEF PInv, TypeInv, Known
<1>2. x.nonce \in Nat /\ Proper(x.rollup) /\ x.rollup \in Rollup
  BY <1>1 DEF TypeInv, Proper
<1>3. /\ y.ok = AddRollupSucceeds(x.rollup) /\ y.nonce = x.nonce /\ y.rollup = x.rollup /\ y \in Tx
  BY <1>1 DEF Tx, AddRollupSucceeds
<1>4. y # NoTx
  BY <1>2, <1>3 DEF NoTx
<1>5. /\ l1' \in Seq(Tx) /\ Len(l1') = n + 1 /\ l1'[n + 1] = y
      /\ \A i \in 1..n : l1'[i] = l1[i]
  BY <1>1, <1>3 DEF TypeInv
<1> HIDE DEF y
<1>6. ASSUME NEW z \in Known' PROVE \E w \in Known : z.nonce = w.nonce /\ z.rollup = w.rollup
  <2>1. CASE z \in pool
    BY <2>1 DEF Known
  <2>2. CASE z \notin pool
    <3>1. z # NoTx /\ \E i \in 1..Len(l1') : z = l1'[i]
      BY <1>5, <2>2 DEF Known
    <3>2. z = y \/ \E i \in 1..n : z = l1[i]
      BY <1>1, <1>5, <3>1
    <3>3. CASE z = y
      BY <1>1, <1>3, <3>3
    <3>4. CASE \E i \in 1..n : z = l1[i]
      <4>0. DOMAIN l1 = 1..n
        BY <1>1 DEF TypeInv
      <4>1. z \in Known
        BY <3>1, <3>4, <4>0 DEF Known
      <4>. QED  BY <4>1
    <3>. QED  BY <3>2, <3>3, <3>4
  <2>. QED  BY <2>1, <2>2
<1>7. ASSUME NEW j \in 0..n
      PROVE  Count(l1', j) = Count(l1, j) /\ CoveredTo(l1', j) = CoveredTo(l1, j)
  <2>1. j \in Nat /\ \A i \in 1..j : l1'[i] = l1[i]
    BY <1>1, <1>5
  <2>. QED  BY <2>1, SameBeginning
<1>8. /\ Count(l1', n + 1) = Count(l1', n) + 1
      /\ CoveredTo(l1', n + 1) = IF y.ok THEN CoveredTo(l1', n) \cup (x.rollup.first..x.rollup.last)
                                 ELSE CoveredTo(l1', n)
  <2>1. l1'[n + 1] # NoTx /\ l1'[n + 1].rollup \in Rollup
    BY <1>2, <1>3, <1>4, <1>5
  <2>. QED  BY <1>1, <1>3, <1>5, <2>1, BlockWithTx
<1>9. n \in 0..n /\ Count(l1, n) = x.nonce
  <2>1. DOMAIN l1 = 1..n
    BY <1>1 DEF TypeInv
  <2>. QED  BY <1>1, <2>1 DEF Count, NextNonce
<1>10. Covered(OnL1) = CoveredTo(l1, n) /\ Covered(OnL1)' = CoveredTo(l1', n + 1)
  BY <1>1, <1>5, CoveredOnL1, CoveredOnL1After DEF TypeInv
<1>11. Covered(OnL1) \subseteq Covered(OnL1)'
  BY <1>7, <1>8, <1>9, <1>10
<1>12. ASSUME NEW c, History(c) PROVE Accumulates(c)'
  <2>1. /\ Top' = Top /\ x.nonce < Top /\ Top \in Nat
        /\ c[x.nonce + 1] = After(x.rollup, c[x.nonce])
        /\ CoveredTo(l1, n) = c[x.nonce]
    <3>1. Top' = Top /\ Top \in Nat
      BY <1>1 DEF Top, TypeInv
    <3>2. x.nonce < Top /\ c[x.nonce + 1] = After(x.rollup, c[x.nonce])
      BY <1>1, <1>12 DEF History
    <3>3. CoveredTo(l1, n) = c[Count(l1, n)]
      BY <1>9, <1>12 DEF History, Accumulates
    <3>. QED  BY <1>9, <3>1, <3>2, <3>3
  <2>2. y.ok = Fits(x.rollup, c[x.nonce])
    BY <1>3, <1>10, <2>1 DEF AddRollupSucceeds, Fits
  <2>3. CoveredTo(l1', n + 1) = c[x.nonce + 1] /\ Count(l1', n + 1) = x.nonce + 1
    BY <1>7, <1>8, <1>9, <2>1, <2>2 DEF After
  <2>4. ASSUME NEW j \in 0..Len(l1') PROVE Count(l1', j) \in 0..Top /\ CoveredTo(l1', j) = c[Count(l1', j)]
    <3>1. CASE j \in 0..n
      <4>1. Count(l1, j) \in 0..Top /\ CoveredTo(l1, j) = c[Count(l1, j)]
        BY <1>12, <3>1 DEF History, Accumulates
      <4>. QED  BY <1>7, <3>1, <4>1
    <3>2. CASE j = n + 1
      BY <1>2, <2>1, <2>3, <3>2
    <3>. QED  BY <1>1, <1>5, <3>1, <3>2
  <2>5. ASSUME NEW j \in 1..Len(l1'), l1'[j] # NoTx PROVE l1'[j].nonce = Count(l1', j - 1)
    <3>1. CASE j \in 1..n
      <4>1. j - 1 \in 0..n
        BY <1>1, <3>1
      <4>2. l1'[j] = l1[j] /\ Count(l1', j - 1) = Count(l1, j - 1)
        BY <1>5, <1>7, <3>1, <4>1
      <4>3. \A i \in 1..n : l1[i] # NoTx => l1[i].nonce = Count(l1, i - 1)
        BY <1>12 DEF History, Accumulates
      <4>. QED  BY <2>5, <3>1, <4>2, <4>3
    <3>2. CASE j = n + 1
      BY <1>1, <1>3, <1>5, <1>7, <1>9, <3>2
    <3>. QED  BY <1>1, <1>5, <3>1, <3>2
  <2>. QED  BY <2>1, <2>4, <2>5 DEF Accumulates
<1>13. BatchesGrow
  BY <1>1 DEF TypeInv, BatchesGrow
<1>14. pool' \subseteq Tx
  BY <1>1 DEF TypeInv
<1>. QED  BY <1>1, <1>5, <1>6, <1>11, <1>12, <1>13, <1>14, ChainChanges DEF TypeInv

\* An empty block has no transaction that could be put back.
LEMMA NoTxUnchanged == ASSUME NEW tx, tx = NoTx PROVE [ tx EXCEPT !.ok = FALSE ] = tx
<1>1. tx \in Tx /\ tx.ok = FALSE
  BY DEF NoTx, NoRollup, Tx, Rollup
<1>2. [ tx EXCEPT !.ok = FALSE ] \in Tx
  BY <1>1 DEF Tx
<1>. QED  BY <1>1, <1>2 DEF Tx

\* A chain that is s for m blocks, and then has the blocks t.
IsFork(chain, s, m, t) ==
    /\ chain \in Seq(Tx)
    /\ Len(chain) = m + Len(t)
    /\ \A i \in 1..m : chain[i] = s[i]
    /\ \A i \in 1..Len(t) : chain[m + i] = t[i]

\* The chain s, cut after m blocks, with the blocks t.
LEMMA Forked ==
    ASSUME NEW s \in Seq(Tx), NEW m \in Nat, m <= Len(s), NEW t \in Seq(Tx)
    PROVE  IsFork(SubSeq(s, 1, m) \o t, s, m, t)
<1>1. PICK p : p = SubSeq(s, 1, m)
  OBVIOUS
<1>2. p \in Seq(Tx) /\ Len(p) = m /\ \A i \in 1..m : p[i] = s[i]
  BY <1>1
<1>. QED  BY <1>1, <1>2 DEF IsFork

\* A function over the first numbers is a sequence.
LEMMA FunctionIsSeq ==
    ASSUME NEW S, NEW n \in Nat, NEW f \in [ 1..n -> S ]
    PROVE  f \in Seq(S) /\ Len(f) = n
OBVIOUS

\* One sequence after the other.
LEMMA Joined ==
    ASSUME NEW S, NEW s \in Seq(S), NEW t \in Seq(S)
    PROVE  /\ s \o t \in Seq(S) /\ Len(s \o t) = Len(s) + Len(t)
           /\ \A i \in 1..Len(s) : (s \o t)[i] = s[i]
OBVIOUS

(* The batches, those in orphans marked as not canonical, with their           *)
(* duplicates.                                                                 *)
LEMMA DuplicatesAdded ==
    ASSUME batches \in Seq(Batch), NEW orphans \in SUBSET DOMAIN batches, NEW l1Proof \in Nat,
           batches' = [ n \in DOMAIN batches |-> [ batches[n] EXCEPT !.canonical = @ /\ n \notin orphans ] ]
                      \o Duplicates(orphans, l1Proof)
    PROVE  BatchesGrow
<1> DEFINE marked == [ n \in DOMAIN batches |-> [ batches[n] EXCEPT !.canonical = @ /\ n \notin orphans ] ]
           nth(i) == CHOOSE k \in orphans : Cardinality({ j \in orphans : j < k }) = i - 1
<1>1. /\ Len(batches) \in Nat /\ DOMAIN batches = 1..Len(batches)
      /\ \A n \in DOMAIN batches : batches[n] \in Batch
  OBVIOUS
<1>2. Cardinality(orphans) \in Nat
  <2>1. IsFiniteSet(1..Len(batches))
    BY <1>1, FS_Interval
  <2>. QED  BY <1>1, <2>1, FS_Subset, FS_CardinalityType
<1>3. ASSUME NEW i \in 1..Cardinality(orphans)
      PROVE  [ batches[nth(i)] EXCEPT !.l1 = l1Proof ] \in Batch
  <2>1. nth(i) \in orphans
    BY <1>1, IthSmallest
  <2>2. batches[nth(i)] \in Batch
    BY <1>1, <2>1
  <2> HIDE DEF nth
  <2>. QED  BY <2>2 DEF Batch
<1>4. /\ Duplicates(orphans, l1Proof) \in Seq(Batch)
      /\ Len(Duplicates(orphans, l1Proof)) = Cardinality(orphans)
  <2>1. Duplicates(orphans, l1Proof) = [ i \in 1..Cardinality(orphans) |-> [ batches[nth(i)] EXCEPT !.l1 = l1Proof ] ]
    BY DEF Duplicates
  <2> HIDE DEF nth
  <2>2. Duplicates(orphans, l1Proof) \in [ 1..Cardinality(orphans) -> Batch ]
    BY <1>3, <2>1
  <2>. QED  BY <1>2, <2>2, FunctionIsSeq, Zenon
<1>5. ASSUME NEW n \in 1..Len(batches)
      PROVE  marked[n] \in Batch /\ marked[n].message = batches[n].message
  <2>1. marked[n] = [ batches[n] EXCEPT !.canonical = @ /\ n \notin orphans ] /\ batches[n] \in Batch
    BY <1>1
  <2>. QED  BY <2>1 DEF Batch
<1>6. marked \in Seq(Batch) /\ Len(marked) = Len(batches)
  <2>1. DOMAIN marked = 1..Len(batches) /\ marked \in [ 1..Len(batches) -> Batch ]
    BY <1>1, <1>5
  <2> HIDE DEF marked
  <2>. QED  BY <1>1, <2>1
<1> HIDE DEF marked, nth
<1>7. batches' = marked \o Duplicates(orphans, l1Proof)
  BY DEF marked
<1>8. PICK m, d : /\ m = marked /\ d = Duplicates(orphans, l1Proof) /\ batches' = m \o d
                  /\ m \in Seq(Batch) /\ d \in Seq(Batch)
                  /\ Len(m) = Len(batches) /\ Len(d) = Cardinality(orphans)
  BY <1>4, <1>6, <1>7, Zenon
<1>9. /\ m \o d \in Seq(Batch) /\ Len(m \o d) = Len(batches) + Cardinality(orphans)
      /\ \A n \in 1..Len(batches) : (m \o d)[n] = marked[n]
  <2>1. /\ m \o d \in Seq(Batch) /\ Len(m \o d) = Len(m) + Len(d)
        /\ \A n \in 1..Len(m) : (m \o d)[n] = m[n]
    BY <1>8, Joined, Zenon
  <2>. QED  BY <1>8, <2>1, Zenon
<1>10. Len(batches) <= Len(batches) + Cardinality(orphans)
  BY <1>1, <1>2
<1>. QED  BY <1>5, <1>8, <1>9, <1>10, Zenon DEF BatchesGrow

(* L1 reorganises: the chain up to the fork is as it was, and the transactions *)
(* after it, if they come again, are the same but for their outcome.           *)
LEMMA ReorgKeeps ==
    ASSUME PInv, NEW k \in 1..MaxL1, NEW at \in 0..k, Reorg(k, at)
    PROVE  PInv'
<1> DEFINE kept    == Len(l1) - k
           orphans == { n \in DOMAIN batches : batches[n].canonical /\ batches[n].l1 > kept }
           dropped == { [ l1[i] EXCEPT !.ok = FALSE ] : i \in (kept + 1)..Len(l1) } \ {NoTx}
           news    == [ i \in 1..(k + 1) |-> NoTx ]
           marked  == [ n \in DOMAIN batches |-> [ batches[n] EXCEPT !.canonical = @ /\ n \notin orphans ] ]
<1>0. k \in Nat /\ 1 <= k
  OBVIOUS
<1>1. TypeInv /\ Len(l1) \in Nat /\ DOMAIN l1 = 1..Len(l1) /\ l1 \in Seq(Tx)
  BY DEF PInv, TypeInv
<1>2. /\ kept >= 0
      /\ Fault("reorgs")
      /\ l1' = SubSeq(l1, 1, kept) \o news
      /\ \/ pool' = pool \cup dropped
         \/ pool' = pool
      /\ batches' = marked \o Duplicates(orphans, kept + at)
      /\ UNCHANGED << pc, last, rollup, nonce, attempt >>
  BY DEF Reorg
<1>3. kept \in Nat /\ kept < Len(l1)
  BY <1>0, <1>1, <1>2
<1>4. NoTx \in Tx
  BY DEF NoTx, NoRollup, Tx, Rollup
<1>5. /\ l1' \in Seq(Tx) /\ Len(l1') = Len(l1) + 1
      /\ \A i \in 1..kept : l1'[i] = l1[i]
      /\ \A i \in (kept + 1)..(Len(l1) + 1) : l1'[i] = NoTx
  <2>1. news \in Seq(Tx) /\ Len(news) = k + 1 /\ \A i \in 1..(k + 1) : news[i] = NoTx
    BY <1>0, <1>4
  <2> HIDE DEF news, kept
  <2>2. l1' = SubSeq(l1, 1, kept) \o news /\ kept \in Nat /\ kept <= Len(l1)
    BY <1>1, <1>2, <1>3 DEF kept
  <2>3. /\ l1' \in Seq(Tx) /\ Len(l1') = kept + Len(news)
        /\ \A i \in 1..kept : l1'[i] = l1[i]
        /\ \A i \in 1..Len(news) : l1'[kept + i] = news[i]
    <3>1. IsFork(SubSeq(l1, 1, kept) \o news, l1, kept, news)
      BY <1>1, <2>1, <2>2, Forked
    <3>2. IsFork(l1', l1, kept, news)
      BY <2>2, <3>1
    <3>. QED  BY <3>2 DEF IsFork
  <2>4. kept + (k + 1) = Len(l1) + 1
    BY <1>0, <1>1 DEF kept
  <2>5. ASSUME NEW i \in (kept + 1)..(Len(l1) + 1) PROVE l1'[i] = NoTx
    <3>1. i - kept \in 1..(k + 1) /\ kept + (i - kept) = i
      BY <1>0, <1>1, <2>2, <2>4
    <3>. QED  BY <2>1, <2>3, <3>1
  <2>. QED  BY <2>1, <2>3, <2>4, <2>5
<1>6. env' \in Env /\ env.met \subseteq env'.met /\ Reorganised'
  BY <1>1, <1>2, FaultKeeps DEF Reorganised
<1>7. ASSUME NEW x \in dropped
      PROVE  x \in Tx /\ \E w \in Known : x.nonce = w.nonce /\ x.rollup = w.rollup
  <2>1. PICK i \in (kept + 1)..Len(l1) : x = [ l1[i] EXCEPT !.ok = FALSE ]
    OBVIOUS
  <2>2. i \in 1..Len(l1) /\ l1[i] \in Tx
    BY <1>1, <1>3
  <2>3. x \in Tx /\ x.nonce = l1[i].nonce /\ x.rollup = l1[i].rollup
    BY <2>1, <2>2 DEF Tx
  <2>4. l1[i] # NoTx
    <3>1. \A tx : tx = NoTx => [ tx EXCEPT !.ok = FALSE ] = tx
      BY NoTxUnchanged
    <3>. QED  BY <2>1, <3>1
  <2>. QED  BY <1>1, <2>2, <2>3, <2>4 DEF Known
<1>8. pool' \subseteq Tx
  <2> HIDE DEF dropped
  <2>. QED  BY <1>1, <1>2, <1>7 DEF TypeInv
<1>9. ASSUME NEW y \in Known' PROVE \E w \in Known : y.nonce = w.nonce /\ y.rollup = w.rollup
  <2>1. CASE y \in pool
    BY <2>1 DEF Known
  <2>2. CASE y \in dropped
    BY <1>7, <2>2
  <2>3. CASE y \notin pool /\ y \notin dropped
    <3>1. y # NoTx /\ \E i \in 1..Len(l1') : y = l1'[i]
      <4> HIDE DEF dropped
      <4>1. y \notin pool'
        BY <1>2, <2>3
      <4>2. DOMAIN l1' = 1..Len(l1')
        BY <1>5
      <4>. QED  BY <4>1, <4>2 DEF Known
    <3>2. \E i \in 1..kept : y = l1[i]
      <4> HIDE DEF kept
      <4>1. PICK i \in 1..(Len(l1) + 1) : y = l1'[i]
        BY <1>5, <3>1
      <4>2. i \in 1..kept \/ i \in (kept + 1)..(Len(l1) + 1)
        BY <1>1, <1>3
      <4>. QED  BY <1>5, <3>1, <4>1, <4>2
    <3>3. \E i \in 1..Len(l1) : y = l1[i]
      BY <1>1, <1>3, <3>2
    <3>4. y \in Known
      BY <1>1, <3>1, <3>3 DEF Known
    <3>. QED  BY <3>4
  <2>. QED  BY <2>1, <2>2, <2>3
<1>10. ASSUME NEW j \in 0..kept
       PROVE  Count(l1', j) = Count(l1, j) /\ CoveredTo(l1', j) = CoveredTo(l1, j)
  <2>1. j \in Nat /\ \A i \in 1..j : l1'[i] = l1[i]
    BY <1>3, <1>5
  <2>. QED  BY <2>1, SameBeginning
<1>11. ASSUME NEW j \in kept..(Len(l1) + 1)
       PROVE  Count(l1', j) = Count(l1, kept) /\ CoveredTo(l1', j) = CoveredTo(l1, kept)
  <2>1. NoTxBetween(l1', kept, j)
    BY <1>1, <1>3, <1>5 DEF NoTxBetween
  <2>2. Count(l1', j) = Count(l1', kept) /\ CoveredTo(l1', j) = CoveredTo(l1', kept)
    BY <2>1, EmptyBlocks
  <2>. QED  BY <1>3, <1>10, <2>2
<1>12. ASSUME NEW c, History(c) PROVE Accumulates(c)'
  <2>1. Top' = Top
    BY <1>2 DEF Top
  <2>2. ASSUME NEW j \in 0..Len(l1') PROVE Count(l1', j) \in 0..Top /\ CoveredTo(l1', j) = c[Count(l1', j)]
    <3>1. \A i \in 0..Len(l1) : Count(l1, i) \in 0..Top /\ CoveredTo(l1, i) = c[Count(l1, i)]
      BY <1>12 DEF History, Accumulates
    <3>2. CASE j \in 0..kept
      BY <1>1, <1>3, <1>10, <3>1, <3>2
    <3>3. CASE j \in kept..(Len(l1) + 1)
      BY <1>1, <1>3, <1>11, <3>1, <3>3
    <3>. QED  BY <1>1, <1>3, <1>5, <3>2, <3>3
  <2>3. ASSUME NEW j \in 1..Len(l1'), l1'[j] # NoTx PROVE l1'[j].nonce = Count(l1', j - 1)
    <3>1. j \in 1..kept
      BY <1>1, <1>3, <1>5, <2>3
    <3>2. j - 1 \in 0..kept /\ j \in 1..Len(l1)
      BY <1>1, <1>3, <3>1
    <3>. QED  BY <1>5, <1>10, <1>12, <2>3, <3>1, <3>2 DEF History, Accumulates
  <2>. QED  BY <2>1, <2>2, <2>3 DEF Accumulates
<1>13. BatchesGrow
  <2>1. batches \in Seq(Batch) /\ orphans \subseteq DOMAIN batches /\ kept + at \in Nat
    BY <1>1, <1>3 DEF TypeInv
  <2>2. batches' = marked \o Duplicates(orphans, kept + at)
    BY <1>2
  <2> HIDE DEF orphans, kept
  <2>. QED  BY <2>1, <2>2, DuplicatesAdded
<1>14. UNCHANGED << pc, last, rollup, nonce, attempt >>
  BY <1>2
<1> HIDE DEF kept, orphans, dropped, news, marked
<1>. QED  BY <1>5, <1>6, <1>8, <1>9, <1>12, <1>13, <1>14, ChainChanges

-------------------------------------------------------------------------------
\* The invariant holds.

\* Every step keeps it.
LEMMA NextPInv == PInv /\ [Next]_vars => PInv'
<1> SUFFICES ASSUME PInv, [Next]_vars PROVE PInv'
  OBVIOUS
<1>1. CASE MineBlock
  <2>1. CASE l1' = Append(l1, NoTx) /\ UNCHANGED << env, pool, batches, pc, last, rollup, nonce, attempt >>
    BY <2>1, EmptyBlockKeeps
  <2>2. ASSUME NEW tx \in pool, tx.nonce = NextNonce,
               l1' = Append(l1, [ tx EXCEPT !.ok = AddRollupSucceeds(tx.rollup) ]),
               pool' = { p \in pool : p.nonce # tx.nonce },
               UNCHANGED << env, batches, pc, last, rollup, nonce, attempt >>
        PROVE  PInv'
    BY <2>2, MineTxKeeps
  <2>. QED  BY <1>1, <2>1, <2>2 DEF MineBlock
<1>2. CASE \E k \in 1..MaxL1 : \E at \in 0..k : Reorg(k, at)
  BY <1>2, ReorgKeeps
<1>3. CASE \E size \in 1..MaxRollupSize : \E message \in {NoMessage, Len(batches) + 1} : CreateBatch(size, message)
  <2>1. NoMessage \in Nat /\ Len(batches) + 1 \in Nat
    BY DEF PInv, TypeInv, NoMessage
  <2>. QED  BY <1>3, <2>1, CreateBatchKeeps
<1>4. CASE GuardianStep
  BY <1>4, FetchKeeps, CreateRollupKeeps, AbandonKeeps, SendKeeps, ReceiptFoundKeeps DEF GuardianStep
<1>5. CASE Unavailable
  BY <1>5, AbandonKeeps
<1>6. CASE ReceiptTimesOut
  BY <1>6, ReceiptTimesOutKeeps
<1>7. CASE UNCHANGED vars
  <2>1. TypeInv
    BY DEF PInv
  <2>2. /\ l1' = l1 /\ pool' = pool /\ batches' = batches /\ env' = env
        /\ pc' = pc /\ last' = last /\ rollup' = rollup /\ nonce' = nonce /\ attempt' = attempt
    BY <1>7 DEF vars
  <2>3. BatchesGrow
    BY <2>1, <2>2 DEF TypeInv, BatchesGrow
  <2>4. Known' = Known /\ Covered(OnL1)' = Covered(OnL1) /\ \A c : Accumulates(c)' <=> Accumulates(c)
    BY <2>2 DEF Known, Covered, OnL1, Accumulates, Top
  <2>. QED  BY <2>1, <2>2, <2>3, <2>4, ChainChanges DEF TypeInv, History
<1>. QED  BY <1>1, <1>2, <1>3, <1>4, <1>5, <1>6, <1>7 DEF Next

(* Whatever was sent, abandoned, mined, put back or lost, the inductive        *)
(* invariant holds in every state of publishTransaction's loop and of L1: the  *)
(* batches the contract has are those a nonce determines until a receipt is    *)
(* late, and each rollup goes on from those it has until L1 reorganises.       *)
THEOREM PublicationInvariance == Spec => []PInv
BY InitPInv, NextPInv, PTL DEF Spec

(* No batch up to lastBatchSeqNo is missing from the rollups of the canonical  *)
(* L1 chain, for every delay, batch size, number of batches and failures of    *)
(* publishTransaction, with any number of reorganisations and losses while no  *)
(* receipt is late, and any number of late receipts while L1 does not          *)
(* reorganise.                                                                 *)
THEOREM NoBatchMissingHolds == Spec => []NoBatchMissing
BY PublicationInvariance, PInvComplete, PTL
===============================================================================
