--------------------------- MODULE GuardianL2_proofs ---------------------------
(***************************************************************************)
(* What the guardian believes of its enclave's batches is true, and Live   *)
(* means fed where live batches are handled in time, for every number of   *)
(* batches, every size of a response and every environment.                *)
(***************************************************************************)
EXTENDS GuardianL2, TLAPS, WellFoundedInduction

\* The goroutine has a batch in hand.
Busy == {"received", "check", "submit", "processed"}

\* Where the beliefs of the guardian come from: reports, the stream and the
\* goroutines only ever carry batches that are stored where they are said to be.
Founded ==
  /\ tracker.enclaveL2Head \in enclave \cup {0}
  /\ tracker.hostL2Head \in db \cup {0}
  /\ report \in [code : {"Running"}, l1Head : {L1Head}, l2Head : enclave \cup {0}]
  /\ enclave \subseteq db
  /\ latest \in db \cup {0}
  /\ \A t \in Threads : pc[t] \in Busy => batch[t] \in db
  /\ \A t \in Threads : pc[t] = "processed" => batch[t] \in enclave
  /\ \A i \in 1..Len(stream) : stream[i] \in enclave
  /\ \A m \in net \cup handling : m.batches # <<>>

LiveUnderway == \E m \in net \cup handling : m.live

\* At most one live batch is under way, the last one produced, and nothing else
\* knows of it until it is received.
InTurn ==
  /\ \A m \in net \cup handling : m.live =>
       /\ m.batches = <<produced>> /\ produced \notin db
       /\ \A t \in Batches : pc[t] = "idle"
  /\ \A m \in net \cap handling : ~m.live
  /\ \A t \in Batches : pc[t] # "idle" => t = produced /\ batch[t] = t
  /\ \A n \in db : n <= produced
  /\ \A m \in net \cup handling : ~m.live =>
       \A i \in 1..Len(m.batches) :
         m.batches[i] <= produced /\ (LiveUnderway => m.batches[i] # produced)
  /\ LiveUnderway \/ db # {} => peer

\* The live batch has not been made known to the tracker.
Unannounced == LiveUnderway \/ \E t \in Batches : pc[t] = "received"

NoResponses == \A m \in net \cup handling : m.live

\* The tracker knows of every batch produced but the one that is unannounced, or
\* of none and the first is on its way.
HostHeadKnown ==
  /\ tracker.hostL2Head > 0 =>
       tracker.hostL2Head >= produced \/ (Unannounced /\ tracker.hostL2Head + 1 >= produced)
  /\ tracker.hostL2Head = 0 =>
       /\ NoResponses
       /\ \/ db = {} /\ requests = {} /\ asking = {}
          \/ db = {produced} /\ \E t \in Batches : pc[t] = "received"

\* The enclave has no holes, and none is about to be made.
NoHoles ==
  /\ \A n \in enclave : 1..n \subseteq enclave
  /\ \A t \in Threads : pc[t] = "submit" => batch[t] - 1 \in enclave \cup {0}

\* The tracker is Live with the enclave at the host's head, or with a live batch
\* in hand that comes next.
LiveAtHead ==
  tracker.status = "Live" =>
    /\ tracker.hostL2Head > 0
    /\ \/ tracker.hostL2Head <= tracker.enclaveL2Head
       \/ /\ \E t \in Batches : pc[t] \in {"check", "submit", "processed"}
          /\ tracker.enclaveL2Head + 1 >= produced

\* The inductive invariant.
IInv ==
  /\ TypeOK
  /\ Founded
  /\ Timely => InTurn /\ HostHeadKnown /\ NoHoles /\ LiveAtHead

(***************************************************************************)
(* Facts about numbers, the tracker, messages and goroutines.              *)
(***************************************************************************)
\* A set of numbers up to MaxSeqNo that is not empty has a greatest element, its Max.
LEMMA GreatestIsMax ==
  ASSUME NEW S \in SUBSET (0..MaxSeqNo), S # {}
  PROVE  Max(S) \in S /\ \A y \in S : y <= Max(S)
<1> DEFINE R == {ss \in Nat \X Nat : ss[1] < ss[2]}
           T == {d \in Nat : MaxSeqNo - d \in S}
<1>1. OpToRel(<, Nat) = R
  BY Zenon DEF OpToRel
<1>2. T \in SUBSET Nat
  OBVIOUS
<1>3. T # {}
  <2>1. PICK x \in S : TRUE
    OBVIOUS
  <2>2. x \in 0..MaxSeqNo /\ MaxSeqNo \in Nat
    BY <2>1, GuardianL2Assumption
  <2>3. MaxSeqNo - x \in Nat /\ MaxSeqNo - (MaxSeqNo - x) = x
    BY <2>2
  <2>4. MaxSeqNo - x \in T
    BY <2>1, <2>3
  <2>. QED  BY <2>4
<1> HIDE DEF T
<1>4. \E d \in T : \A e \in T : ~(<<e, d>> \in OpToRel(<, Nat))
  BY <1>2, <1>3, NatLessThanWellFounded, WFMin, Zenon
<1>5. PICK d \in T : \A e \in T : ~(<<e, d>> \in R)
  BY <1>1, <1>4, Zenon
<1> HIDE DEF R
<1>6. d \in Nat /\ MaxSeqNo - d \in S
  BY <1>5 DEF T
<1>7. ASSUME NEW y \in S PROVE y <= MaxSeqNo - d
  <2>1. y \in 0..MaxSeqNo /\ MaxSeqNo \in Nat
    BY GuardianL2Assumption
  <2>2. MaxSeqNo - y \in Nat /\ MaxSeqNo - (MaxSeqNo - y) = y
    BY <2>1
  <2>3. MaxSeqNo - y \in T
    BY <2>2 DEF T
  <2>4. ~(<<MaxSeqNo - y, d>> \in R)
    BY <1>5, <2>3
  <2>5. ~(MaxSeqNo - y < d)
    BY <1>6, <2>2, <2>4 DEF R
  <2>. QED  BY <1>6, <2>1, <2>5
<1>8. \A y \in S : y \in Int
  BY GuardianL2Assumption
<1>9. \E x \in S : \A y \in S : x >= y
  <2>1. \A y \in S : MaxSeqNo - d >= y
    BY <1>6, <1>7, <1>8
  <2>. QED  BY <1>6, <2>1
<1>. QED
  <2>1. Max(S) \in S /\ \A y \in S : Max(S) >= y
    BY <1>9 DEF Max
  <2>. QED  BY <1>8, <2>1

\* Recalculated leaves the heads alone, and Live means that neither L2 head is
\* nil and the host's is not ahead.
LEMMA RecalculatedFacts ==
  ASSUME NEW H, NEW t \in Tracker(H)
  PROVE  /\ Recalculated(t) \in Tracker(H)
         /\ Recalculated(t).enclaveL2Head = t.enclaveL2Head
         /\ Recalculated(t).hostL2Head = t.hostL2Head
         /\ Recalculated(t).status = "Live" =>
              t.hostL2Head > 0 /\ t.hostL2Head <= t.enclaveL2Head
<1>1. CalculateStatus(t) \in Statuses
  BY DEF CalculateStatus, Statuses, Tracker, StatusCodes
<1>2. Recalculated(t) \in Tracker(H)
  BY <1>1 DEF Recalculated, Tracker
<1>3. /\ Recalculated(t).enclaveL2Head = t.enclaveL2Head
      /\ Recalculated(t).hostL2Head = t.hostL2Head
      /\ Recalculated(t).status = CalculateStatus(t)
  BY DEF Recalculated, Tracker
<1>4. ASSUME CalculateStatus(t) = "Live"
      PROVE  t.hostL2Head > 0 /\ t.hostL2Head <= t.enclaveL2Head
  <2>1. t.code \in StatusCodes /\ t.hostL2Head \in Nat /\ t.enclaveL2Head \in Nat
    BY DEF Tracker
  <2>2. ~BehindL2(t)
    BY <1>4, <2>1 DEF CalculateStatus, StatusCodes
  <2>. QED  BY <2>1, <2>2 DEF BehindL2
<1>. QED  BY <1>2, <1>3, <1>4

\* What OnProcessedBatch does to the heads.
LEMMA ProcessedBatchFacts ==
  ASSUME NEW H, NEW t \in Tracker(H), NEW n \in Nat
  PROVE  LET u == OnProcessedBatch(t, n) IN
         /\ u \in Tracker(H)
         /\ u.enclaveL2Head = n
         /\ u.hostL2Head = IF t.hostL2Head < n THEN n ELSE t.hostL2Head
         /\ u.status = "Live" => u.hostL2Head > 0 /\ u.hostL2Head <= u.enclaveL2Head
<1> DEFINE h == IF t.hostL2Head < n THEN n ELSE t.hostL2Head
           v == [t EXCEPT !.hostL2Head = h, !.enclaveL2Head = n]
<1>1. v \in Tracker(H) /\ v.enclaveL2Head = n /\ v.hostL2Head = h
  BY DEF Tracker
<1>2. OnProcessedBatch(t, n) = Recalculated(v)
  BY DEF OnProcessedBatch
<1> HIDE DEF v, h
<1>3. LET u == OnProcessedBatch(t, n) IN
      /\ u \in Tracker(H)
      /\ u.enclaveL2Head = n
      /\ u.hostL2Head = h
      /\ u.status = "Live" => u.hostL2Head > 0 /\ u.hostL2Head <= u.enclaveL2Head
  BY <1>1, <1>2, RecalculatedFacts
<1>. QED  BY <1>3 DEF h

\* What OnEnclaveStatus does to them.
LEMMA EnclaveStatusFacts ==
  ASSUME NEW H, NEW t \in Tracker(H), NEW s, s.code \in StatusCodes, s.l1Head \in H, s.l2Head \in Nat
  PROVE  LET u == OnEnclaveStatus(t, s) IN
         /\ u \in Tracker(H)
         /\ u.enclaveL2Head = s.l2Head
         /\ u.hostL2Head = t.hostL2Head
         /\ u.status = "Live" => u.hostL2Head > 0 /\ u.hostL2Head <= u.enclaveL2Head
<1> DEFINE v == [t EXCEPT !.code = s.code, !.enclaveL1Head = s.l1Head, !.enclaveL2Head = s.l2Head]
<1>1. v \in Tracker(H) /\ v.enclaveL2Head = s.l2Head /\ v.hostL2Head = t.hostL2Head
  BY DEF Tracker
<1>2. OnEnclaveStatus(t, s) = Recalculated(v)
  BY DEF OnEnclaveStatus
<1> HIDE DEF v
<1>. QED  BY <1>1, <1>2, RecalculatedFacts

\* The handlers that leave the status alone, and the tracker of a new guardian.
LEMMA OtherTrackerFacts ==
  ASSUME NEW t \in Tracker({NoHash, L1Head}), NEW n \in Nat
  PROVE  /\ OnReceivedBatch(t, n) \in Tracker({NoHash, L1Head})
         /\ OnReceivedBatch(t, n).status = t.status
         /\ OnReceivedBatch(t, n).enclaveL2Head = t.enclaveL2Head
         /\ OnReceivedBatch(t, n).hostL2Head = n
         /\ OnDisconnected(t) \in Tracker({NoHash, L1Head})
         /\ OnDisconnected(t).status = "Disconnected"
         /\ OnDisconnected(t).enclaveL2Head = t.enclaveL2Head
         /\ OnDisconnected(t).hostL2Head = t.hostL2Head
BY DEF OnReceivedBatch, OnDisconnected, Tracker, Statuses

\* The tracker of a guardian that has just started knows of no batches.
LEMMA NewTrackerFacts ==
  /\ NewTracker \in Tracker({NoHash, L1Head})
  /\ NewTracker.status = "Disconnected"
  /\ NewTracker.enclaveL2Head = 0
  /\ NewTracker.hostL2Head = 0
BY DEF NewTracker, NewStateTracker, Tracker, Statuses, StatusCodes

\* A message is its two fields.
LEMMA MessageFacts ==
  ASSUME NEW m \in Messages, m.batches # <<>>
  PROVE  /\ Head(m.batches) = m.batches[1] /\ m.batches[1] \in Batches
         /\ Len(m.batches) \in Nat \ {0}
         /\ m = [live |-> m.live, batches |-> m.batches]
BY DEF Messages

\* Main is not the goroutine of a batch, and batches are numbers above 0.
LEMMA ThreadFacts ==
  /\ Main \in Threads /\ Main \notin Batches /\ Batches \subseteq Threads
  /\ MaxSeqNo \in Nat
  /\ \A n \in Batches : n \in Nat /\ n > 0 /\ n <= MaxSeqNo
  /\ Batches \subseteq 0..MaxSeqNo
BY GuardianL2Assumption DEF Threads, Batches

\* What the invariant says of the goroutines.
LEMMA GoroutineFacts ==
  ASSUME IInv
  PROVE  /\ pc \in [Threads -> Places] /\ batch \in [Threads -> 0..MaxSeqNo] /\ 0 \in 0..MaxSeqNo
         /\ \A t \in Threads : pc[t] \in Busy => batch[t] \in db
         /\ \A t \in Threads : pc[t] = "processed" => batch[t] \in enclave
<1>1. pc \in [Threads -> Places] /\ batch \in [Threads -> 0..MaxSeqNo]
  BY DEF IInv, TypeOK
<1>2. /\ \A t \in Threads : pc[t] \in Busy => batch[t] \in db
      /\ \A t \in Threads : pc[t] = "processed" => batch[t] \in enclave
  BY DEF IInv, Founded
<1>. QED  BY <1>1, <1>2, ThreadFacts

\* A failure is one the environment allows, and is counted.
LEMMA FailsFacts ==
  ASSUME IInv, NEW fault, Fails(fault)
  PROVE  fault \in env.faults /\ env' = env /\ failures' \in 0..MaxFailures
<1>1. failures \in 0..MaxFailures /\ MaxFailures \in Nat
  BY GuardianL2Assumption DEF IInv, TypeOK
<1>2. failures < MaxFailures /\ failures' = failures + 1 /\ fault \in env.faults /\ env' = env
  BY DEF Fails
<1>. QED  BY <1>1, <1>2

\* Goto moves one goroutine.
LEMMA GotoMoves ==
  ASSUME pc \in [Threads -> Places], NEW t \in Threads, NEW place \in Places, Goto(t, place)
  PROVE  /\ pc' \in [Threads -> Places]
         /\ pc'[t] = place
         /\ \A u \in Threads \ {t} : pc'[u] = pc[u]
BY DEF Goto

(***************************************************************************)
(* The conjuncts of the invariant under the steps of a goroutine.          *)
(***************************************************************************)
\* A goroutine that does not take up a batch keeps the turn.
LEMMA KeepsTurn ==
  ASSUME InTurn, UNCHANGED <<produced, peer, net, handling, db>>,
         \A t \in Batches : pc'[t] # "idle" => pc[t] # "idle" /\ batch'[t] = batch[t]
  PROVE  InTurn'
<1>1. LiveUnderway' <=> LiveUnderway
  BY DEF LiveUnderway
<1>. QED  BY <1>1 DEF InTurn

\* The host's head stays known when no live batch is announced.
LEMMA KeepsHostHead ==
  ASSUME HostHeadKnown, UNCHANGED <<produced, net, handling, db, requests>>,
         tracker'.hostL2Head = tracker.hostL2Head,
         \A t \in Batches : pc'[t] = "received" <=> pc[t] = "received",
         asking' = asking \/ db # {}
  PROVE  HostHeadKnown'
<1>1. LiveUnderway' <=> LiveUnderway
  BY DEF LiveUnderway
<1>2. Unannounced' <=> Unannounced
  BY <1>1 DEF Unannounced
<1>3. NoResponses' <=> NoResponses
  BY DEF NoResponses
<1>. QED  BY <1>2, <1>3 DEF HostHeadKnown

\* No hole is made by a step that submits nothing and prepares no submission.
LEMMA KeepsNoHoles ==
  ASSUME NoHoles, UNCHANGED enclave,
         \A t \in Threads : pc'[t] = "submit" => pc[t] = "submit" /\ batch'[t] = batch[t]
  PROVE  NoHoles'
BY DEF NoHoles

\* A live batch in hand stays in hand when the tracker is left alone.
LEMMA KeepsLiveAtHead ==
  ASSUME LiveAtHead, UNCHANGED <<produced, tracker>>,
         \A t \in Batches : pc[t] \in {"check", "submit", "processed"} =>
                              pc'[t] \in {"check", "submit", "processed"}
  PROVE  LiveAtHead'
BY DEF LiveAtHead

\* Store stores one batch, and streams batches that are stored.
LEMMA StoreFacts ==
  ASSUME TypeOK, \A i \in 1..Len(stream) : stream[i] \in enclave,
         NEW n \in Batches, Store(n)
  PROVE  /\ enclave' = enclave \cup {n} /\ enclave' \subseteq Batches
         /\ stream' \in Seq(Batches)
         /\ \A i \in 1..Len(stream') : stream'[i] \in enclave'
<1> DEFINE Prefixes(S) == {0} \cup {k \in S : 1..k \subseteq S}
           e == Executed(enclave)
           f == Executed(enclave')
           new == [i \in 1..(f - e) |-> e + i]
<1>1. enclave' = enclave \cup {n} /\ enclave' \subseteq Batches /\ enclave \subseteq Batches
  BY DEF Store, TypeOK
<1>2. ASSUME NEW S \in SUBSET Batches
      PROVE  /\ Executed(S) \in 0..MaxSeqNo /\ 1..Executed(S) \subseteq S
             /\ \A k \in Prefixes(S) : k <= Executed(S)
  <2>1. Prefixes(S) \in SUBSET (0..MaxSeqNo) /\ Prefixes(S) # {}
    <3>1. 0 \in 0..MaxSeqNo /\ S \subseteq 0..MaxSeqNo
      BY ThreadFacts
    <3>. QED  BY <3>1, Zenon
  <2>2. Executed(S) = Max(Prefixes(S))
    BY DEF Executed
  <2>3. Executed(S) \in Prefixes(S) /\ \A k \in Prefixes(S) : k <= Executed(S)
    BY <2>1, <2>2, GreatestIsMax
  <2>. QED  BY <2>1, <2>3
<1>3. e \in 0..MaxSeqNo /\ f \in 0..MaxSeqNo /\ 1..f \subseteq enclave'
  BY <1>1, <1>2
<1>4. e <= f
  <2>1. e \in Prefixes(enclave)
    <3>1. 0 \in 0..MaxSeqNo /\ enclave \subseteq 0..MaxSeqNo
      BY <1>1, ThreadFacts
    <3>2. Prefixes(enclave) \in SUBSET (0..MaxSeqNo) /\ Prefixes(enclave) # {}
      BY <3>1, Zenon
    <3>. QED  BY <3>2, GreatestIsMax DEF Executed
  <2>2. e \in Prefixes(enclave')
    BY <1>1, <2>1
  <2>. QED  BY <1>1, <1>2, <2>2
<1>5. stream' = stream \o new
  BY DEF Store
<1> HIDE DEF e, f
<1>6. f - e \in Nat
  BY <1>3, <1>4
<1>7. \A i \in 1..(f - e) : e + i \in enclave'
  <2>1. ASSUME NEW i \in 1..(f - e) PROVE e + i \in 1..f
    BY <1>3, <1>4
  <2>. QED  BY <1>3, <2>1
<1>8. new \in Seq(enclave') /\ Len(new) = f - e
  BY <1>6, <1>7
<1>9. stream \in Seq(enclave')
  <2>1. stream \in Seq(Batches)
    BY DEF TypeOK
  <2>2. \A i \in 1..Len(stream) : stream[i] \in enclave'
    BY <1>1
  <2>. QED  BY <2>1, <2>2
<1> HIDE DEF new
<1>10. stream' \in Seq(enclave')
  BY <1>5, <1>8, <1>9
<1>11. \A i \in 1..Len(stream') : stream'[i] \in enclave'
  BY <1>10
<1>12. stream' \in Seq(Batches)
  BY <1>1, <1>10, <1>11
<1>. QED  BY <1>1, <1>11, <1>12

\* A submission makes no hole.
LEMMA StoreKeepsNoHoles ==
  ASSUME NoHoles, enclave \subseteq Batches, NEW n \in Batches, n - 1 \in enclave \cup {0},
         enclave' = enclave \cup {n},
         \A t \in Threads : pc'[t] = "submit" => pc[t] = "submit" /\ batch'[t] = batch[t]
  PROVE  NoHoles'
<1>1. 1..n \subseteq enclave'
  <2>1. n \in Nat /\ n > 0
    BY ThreadFacts
  <2>2. 1..(n - 1) \subseteq enclave
    <3>1. CASE n - 1 = 0
      BY <3>1
    <3>2. CASE n - 1 \in enclave
      BY <3>2 DEF NoHoles
    <3>. QED  BY <3>1, <3>2
  <2>3. \A k \in 1..n : k = n \/ k \in 1..(n - 1)
    BY <2>1
  <2>. QED  BY <2>2, <2>3
<1>. QED  BY <1>1 DEF NoHoles

(***************************************************************************)
(* The steps of the sequencer and of the network.                          *)
(***************************************************************************)
\* Broadcasting: where batches are timely the last one has been handled by then.
LEMMA BroadcastBatchPreserves ==
  ASSUME IInv, BroadcastBatch
  PROVE  IInv'
<1> USE DEF BroadcastBatch, sequencer, p2p, inFlightReq, repo, guardian
<1>1. /\ produced \in Nat /\ produced' = produced + 1 /\ produced' \in Batches
      /\ produced' \in 0..MaxSeqNo
  <2>1. env \in Environments /\ produced \in 0..MaxSeqNo /\ produced < env.batches
    BY DEF IInv, TypeOK
  <2>2. env.batches \in 0..MaxSeqNo
    BY <2>1, GuardianL2Assumption
  <2>3. produced' = produced + 1
    OBVIOUS
  <2>. QED  BY <2>1, <2>2, <2>3, ThreadFacts DEF Batches
<1>2. Live(produced') \in Messages /\ Live(produced').live /\ Live(produced').batches = <<produced'>>
  BY <1>1 DEF Live, Messages
<1>3. net' \subseteq net \cup {Live(produced')}
  OBVIOUS
<1>4. TypeOK'
  BY <1>1, <1>2, <1>3 DEF IInv, TypeOK
<1>5. Founded'
  BY <1>2, <1>3 DEF IInv, Founded
<1>6. ASSUME Timely' PROVE InTurn' /\ HostHeadKnown' /\ NoHoles' /\ LiveAtHead'
  <2>1. Timely /\ "overlap" \notin env.faults
    BY <1>6 DEF Timely
  <2>2. /\ \A m \in net \cup handling : ~m.live
        /\ \A t \in Batches : pc[t] = "idle"
    BY <2>1 DEF Handled
  <2>3. InTurn /\ HostHeadKnown /\ NoHoles /\ LiveAtHead
    BY <2>1 DEF IInv
  <2>4. LiveUnderway' => peer
    BY <2>2 DEF LiveUnderway
  <2>5. \A n \in db : n \in Nat /\ n <= produced
    BY <2>3, ThreadFacts DEF IInv, TypeOK, InTurn
  <2>6. \A m \in net \cup handling :
          \A i \in 1..Len(m.batches) : m.batches[i] \in Nat /\ m.batches[i] <= produced
    <3>1. \A m \in net \cup handling : m.batches \in Seq(Batches)
      BY DEF IInv, TypeOK, Messages
    <3>2. \A m \in net \cup handling :
            \A i \in 1..Len(m.batches) : m.batches[i] <= produced
      BY <2>2, <2>3 DEF InTurn
    <3>3. ASSUME NEW m \in net \cup handling, NEW i \in 1..Len(m.batches)
          PROVE  m.batches[i] \in Batches
      BY <3>1
    <3>. QED  BY <3>2, <3>3, ThreadFacts
  <2>7. InTurn'
    <3>1. \A m \in net' \cup handling' : m.live => m = Live(produced')
      BY <1>3, <2>2
    <3>2. \A m \in net' \cap handling' : ~m.live
      BY <2>2
    <3>3. \A n \in db : n <= produced' /\ n # produced'
      BY <1>1, <2>5
    <3>4. \A m \in net \cup handling :
            \A i \in 1..Len(m.batches) : m.batches[i] <= produced' /\ m.batches[i] # produced'
      BY <1>1, <2>6
    <3>. QED  BY <1>2, <1>3, <2>2, <2>3, <2>4, <3>1, <3>2, <3>3, <3>4 DEF InTurn
  <2>8. HostHeadKnown'
    <3>1. CASE tracker.hostL2Head = 0
      <4>1. net = {} /\ handling = {} /\ db = {} /\ requests = {} /\ asking = {}
        BY <2>2, <2>3, <3>1 DEF HostHeadKnown, NoResponses
      <4>2. NoResponses'
        BY <1>2, <1>3, <4>1 DEF NoResponses
      <4>. QED  BY <3>1, <4>1, <4>2 DEF HostHeadKnown
    <3>2. CASE tracker.hostL2Head > 0
      <4>1. tracker.hostL2Head \in Nat /\ tracker.hostL2Head \in db
        BY <3>2 DEF IInv, Founded, TypeOK, Tracker
      <4>2. peer
        BY <2>3, <4>1 DEF InTurn
      <4>3. Unannounced'
        BY <1>2, <4>2 DEF Unannounced, LiveUnderway
      <4>4. tracker.hostL2Head >= produced
        BY <2>2, <2>3, <3>2 DEF HostHeadKnown, Unannounced, LiveUnderway
      <4>. QED  BY <1>1, <3>2, <4>1, <4>3, <4>4 DEF HostHeadKnown
    <3>. QED  BY <3>1, <3>2 DEF IInv, TypeOK, Tracker
  <2>9. LiveAtHead'
    BY <2>2, <2>3 DEF LiveAtHead
  <2>. QED  BY <2>3, <2>7, <2>8, <2>9, KeepsNoHoles
<1>. QED  BY <1>4, <1>5, <1>6 DEF IInv

\* A peer that has been added may get live batches.
LEMMA RefreshPeerListPreserves ==
  ASSUME IInv, RefreshPeerList
  PROVE  IInv'
<1> USE DEF RefreshPeerList, p2p, inFlightReq, repo, guardian
<1>1. TypeOK' /\ Founded'
  BY DEF IInv, TypeOK, Founded
<1>2. ASSUME Timely' PROVE InTurn' /\ HostHeadKnown' /\ NoHoles' /\ LiveAtHead'
  <2>1. InTurn /\ HostHeadKnown /\ NoHoles /\ LiveAtHead
    BY <1>2 DEF IInv, Timely
  <2>2. InTurn'
    BY <2>1 DEF InTurn, LiveUnderway
  <2>. QED  BY <2>1, <2>2, KeepsHostHead, KeepsNoHoles, KeepsLiveAtHead
<1>. QED  BY <1>1, <1>2 DEF IInv

\* A response holds batches that have been produced.
LEMMA HandleBatchRequestPreserves ==
  ASSUME IInv, HandleBatchRequest
  PROVE  IInv'
<1> USE DEF sequencer, inFlightReq, repo, guardian
<1>1. PICK n \in requests :
        /\ "overlap" \in env.faults \/ Handled
        /\ requests' = requests \ {n}
        /\ net' = IF n <= produced THEN net \cup {Response(n)} ELSE net
        /\ UNCHANGED <<sequencer, handling, inFlightReq, repo, guardian, enclave, stream,
                       failures, env>>
  BY DEF HandleBatchRequest
<1>2. n \in Batches /\ produced \in 0..MaxSeqNo
  BY DEF IInv, TypeOK
<1>3. ASSUME n <= produced
      PROVE  /\ Response(n) \in Messages /\ ~Response(n).live /\ Response(n).batches # <<>>
             /\ \A i \in 1..Len(Response(n).batches) : Response(n).batches[i] <= produced
  <2> DEFINE k == Min({Cap + 1, produced - n + 1})
  <2>1. produced - n + 1 \in Nat \ {0} /\ Cap + 1 \in Nat \ {0}
    BY <1>2, <1>3, GuardianL2Assumption, ThreadFacts
  <2>2. k \in Nat \ {0} /\ k <= produced - n + 1
    BY <2>1 DEF Min
  <2>3. /\ Response(n) = [live |-> FALSE, batches |-> [i \in 1..k |-> n + i - 1]]
    BY DEF Response
  <2> HIDE DEF k
  <2>4. \A i \in 1..k : n + i - 1 \in Batches /\ n + i - 1 <= produced
    <3>1. n \in Nat /\ n > 0 /\ produced \in Nat /\ produced <= MaxSeqNo /\ MaxSeqNo \in Nat
      BY <1>2, ThreadFacts
    <3>. QED  BY <2>2, <3>1 DEF Batches
  <2>5. /\ [i \in 1..k |-> n + i - 1] \in Seq(Batches)
        /\ Len([i \in 1..k |-> n + i - 1]) = k
    BY <2>2, <2>4
  <2>. QED  BY <2>2, <2>3, <2>4, <2>5 DEF Messages
<1>4. ASSUME NEW m \in net', m \notin net
      PROVE  /\ m \in Messages /\ ~m.live /\ m.batches # <<>>
             /\ \A i \in 1..Len(m.batches) : m.batches[i] <= produced
  BY <1>1, <1>3, <1>4
<1>5. net \subseteq net'
  BY <1>1
<1>6. TypeOK'
  <2>1. net' \subseteq Messages
    BY <1>4 DEF IInv, TypeOK
  <2>. QED  BY <1>1, <2>1 DEF IInv, TypeOK
<1>7. Founded'
  BY <1>1, <1>4 DEF IInv, Founded
<1>8. ASSUME Timely' PROVE InTurn' /\ HostHeadKnown' /\ NoHoles' /\ LiveAtHead'
  <2>1. InTurn /\ HostHeadKnown /\ NoHoles /\ LiveAtHead
    BY <1>1, <1>8 DEF IInv, Timely
  <2>2. /\ \A m \in net \cup handling : ~m.live
        /\ \A t \in Batches : pc[t] = "idle"
    BY <1>1, <1>8 DEF Handled, Timely
  <2>3. \A m \in net' \cup handling' : ~m.live
    BY <1>1, <1>4, <2>2
  <2>4. ~LiveUnderway /\ ~LiveUnderway'
    BY <2>2, <2>3 DEF LiveUnderway
  <2>5. InTurn'
    BY <1>1, <1>4, <2>1, <2>2, <2>3, <2>4 DEF InTurn
  <2>6. HostHeadKnown'
    <3>1. tracker.hostL2Head # 0
      BY <2>1, <2>2 DEF HostHeadKnown
    <3>2. ~Unannounced
      BY <2>2, <2>4 DEF Unannounced
    <3>. QED  BY <1>1, <2>1, <3>1, <3>2 DEF HostHeadKnown
  <2>. QED  BY <1>1, <2>1, <2>5, <2>6, KeepsNoHoles, KeepsLiveAtHead
<1>. QED  BY <1>6, <1>7, <1>8 DEF IInv

\* A lost message leaves the others; where batches are timely it is not a live one.
LEMMA LoseMessagePreserves ==
  ASSUME IInv, LoseMessage
  PROVE  IInv'
<1> USE DEF sequencer, inFlightReq, repo, guardian
<1>1. /\ UNCHANGED <<sequencer, handling, inFlightReq, repo, guardian, enclave, stream, env>>
      /\ net' \subseteq net /\ requests' \subseteq requests
      /\ failures \in 0..MaxFailures => failures' \in 0..MaxFailures
  BY GuardianL2Assumption DEF LoseMessage, Fails
<1>2. TypeOK' /\ Founded'
  BY <1>1 DEF IInv, TypeOK, Founded
<1>3. ASSUME Timely' PROVE InTurn' /\ HostHeadKnown' /\ NoHoles' /\ LiveAtHead'
  <2>1. InTurn /\ HostHeadKnown /\ NoHoles /\ LiveAtHead
    BY <1>1, <1>3 DEF IInv, Timely
  <2>2. \A m \in net : m.live => m \in net'
    <3>1. "loseLive" \notin env.faults
      BY <1>1, <1>3 DEF Timely
    <3>. QED  BY <3>1 DEF LoseMessage, Fails
  <2>3. LiveUnderway' <=> LiveUnderway
    BY <1>1, <2>2 DEF LiveUnderway
  <2>4. InTurn'
    BY <1>1, <2>1, <2>3 DEF InTurn
  <2>5. HostHeadKnown'
    <3>1. Unannounced' <=> Unannounced
      BY <1>1, <2>3 DEF Unannounced
    <3>2. NoResponses => NoResponses'
      BY <1>1 DEF NoResponses
    <3>. QED  BY <1>1, <2>1, <3>1, <3>2 DEF HostHeadKnown
  <2>. QED  BY <1>1, <2>1, <2>4, <2>5, KeepsNoHoles, KeepsLiveAtHead
<1>. QED  BY <1>2, <1>3 DEF IInv

(***************************************************************************)
(* The steps of the batch repository.                                      *)
(***************************************************************************)
\* Taking a message up moves it.
LEMMA HandleBatchesPreserves ==
  ASSUME IInv, HandleBatches
  PROVE  IInv'
<1> USE DEF sequencer, repo, guardian
<1>1. PICK m \in net :
        /\ net' = net \ {m}
        /\ handling' = handling \cup {m}
        /\ requested' \in {requested, 0} /\ inFlight' \in {inFlight, 0}
        /\ UNCHANGED <<sequencer, requests, asking, repo, guardian, enclave, stream,
                       failures, env>>
  BY DEF HandleBatches
<1>2. net' \cup handling' = net \cup handling
  BY <1>1
<1>3. TypeOK'
  <2>1. requested' \in 0..MaxSeqNo /\ inFlight' \in 0..MaxSeqNo
    BY <1>1, ThreadFacts DEF IInv, TypeOK
  <2>. QED  BY <1>1, <2>1 DEF IInv, TypeOK
<1>4. Founded'
  BY <1>1, <1>2 DEF IInv, Founded
<1>5. ASSUME Timely' PROVE InTurn' /\ HostHeadKnown' /\ NoHoles' /\ LiveAtHead'
  <2>1. InTurn /\ HostHeadKnown /\ NoHoles /\ LiveAtHead
    BY <1>1, <1>5 DEF IInv, Timely
  <2>2. (LiveUnderway' <=> LiveUnderway) /\ (NoResponses' <=> NoResponses)
    BY <1>2 DEF LiveUnderway, NoResponses
  <2>3. \A w \in net' \cap handling' : ~w.live
    BY <1>1, <2>1 DEF InTurn
  <2>4. InTurn'
    BY <1>1, <1>2, <2>1, <2>2, <2>3 DEF InTurn
  <2>5. HostHeadKnown'
    <3>1. Unannounced' <=> Unannounced
      BY <1>1, <2>2 DEF Unannounced
    <3>. QED  BY <1>1, <2>1, <2>2, <3>1 DEF HostHeadKnown
  <2>. QED  BY <1>1, <2>1, <2>4, <2>5, KeepsNoHoles, KeepsLiveAtHead
<1>. QED  BY <1>3, <1>4, <1>5 DEF IInv

\* A live batch is taken up by its goroutine, the batches of a response are stored.
LEMMA HandleNextBatchPreserves ==
  ASSUME IInv, HandleNextBatch
  PROVE  IInv'
<1> USE DEF sequencer, p2p, inFlightReq
<1>1. PICK m \in handling :
        LET n == Head(m.batches)
            rest == IF n \in db \/ Len(m.batches) = 1 THEN {}
                    ELSE {[m EXCEPT !.batches = Tail(@)]}
        IN /\ handling' = (handling \ {m}) \cup rest
           /\ AddBatch(n)
           /\ IF m.live /\ n \notin db
              THEN Goto(n, "received") /\ batch' = [batch EXCEPT ![n] = n]
              ELSE UNCHANGED <<pc, batch>>
           /\ UNCHANGED <<sequencer, p2p, inFlightReq, tracker, report, enclave, stream,
                          failures, env>>
  BY DEF HandleNextBatch
<1> DEFINE n == Head(m.batches)
           w == [m EXCEPT !.batches = Tail(@)]
<1>2. m \in Messages /\ m.batches # <<>> /\ net \subseteq Messages /\ handling \subseteq Messages
  BY DEF IInv, TypeOK, Founded
<1>3. n = m.batches[1] /\ n \in Batches /\ Len(m.batches) \in Nat \ {0}
  BY <1>2, MessageFacts
<1>4. /\ UNCHANGED <<produced, peer, net, requests, asking, requested, inFlight, tracker,
                     report, enclave, stream, failures, env>>
      /\ db' = db \cup {n}
      /\ latest' \in {n, latest}
  BY <1>1 DEF AddBatch
<1>5. /\ w.live = m.live
      /\ Len(m.batches) # 1 =>
           /\ w \in Messages /\ w.batches # <<>>
           /\ Len(w.batches) = Len(m.batches) - 1
           /\ \A i \in 1..Len(w.batches) : w.batches[i] = m.batches[i + 1]
  <2>1. m.batches \in Seq(Batches) /\ w.live = m.live /\ w.batches = Tail(m.batches)
    BY <1>2 DEF Messages
  <2>2. Tail(m.batches) \in Seq(Batches) => w \in Messages
    BY <1>2 DEF Messages
  <2> HIDE DEF w
  <2>3. ASSUME Len(m.batches) # 1
        PROVE  /\ Tail(m.batches) \in Seq(Batches) /\ Len(Tail(m.batches)) = Len(m.batches) - 1
               /\ \A i \in 1..Len(Tail(m.batches)) : Tail(m.batches)[i] = m.batches[i + 1]
    BY <1>2, <1>3, <2>1
  <2>4. Len(m.batches) # 1 => Tail(m.batches) # <<>>
    <3> DEFINE tl == Tail(m.batches)
               k == Len(m.batches)
    <3>1. k \in Nat \ {0} /\ (k # 1 => Len(tl) = k - 1)
      BY <1>3, <2>3
    <3> HIDE DEF tl, k
    <3>2. k # 1 => Len(tl) # 0
      BY <3>1
    <3>3. Len(<<>>) = 0
      OBVIOUS
    <3>4. k # 1 => tl # <<>>
      BY <3>2, <3>3, Zenon
    <3>. QED  BY <3>4 DEF tl, k
  <2>. QED  BY <2>1, <2>2, <2>3, <2>4
<1>6. /\ handling' \subseteq (handling \ {m}) \cup {w}
      /\ handling \ {m} \subseteq handling'
      /\ w \in handling' /\ w \notin handling \ {m} => Len(m.batches) # 1
  <2>1. CASE n \in db \/ Len(m.batches) = 1
    <3>1. handling' = handling \ {m}
      BY <1>1, <2>1
    <3>. QED  BY <3>1
  <2>2. CASE ~(n \in db \/ Len(m.batches) = 1)
    <3>1. handling' = (handling \ {m}) \cup {w}
      BY <1>1, <2>2
    <3>. QED  BY <2>2, <3>1, Zenon
  <2>. QED  BY <2>1, <2>2
<1>7. CASE m.live /\ n \notin db
  <2>1. /\ pc' \in [Threads -> Places] /\ pc'[n] = "received"
        /\ \A u \in Threads \ {n} : pc'[u] = pc[u]
    <3>1. Goto(n, "received") /\ n \in Threads /\ "received" \in Places
      BY <1>1, <1>3, <1>7, ThreadFacts DEF Places
    <3>. QED  BY <3>1, GotoMoves DEF IInv, TypeOK
  <2>2. /\ batch' \in [Threads -> 0..MaxSeqNo] /\ batch'[n] = n
        /\ \A u \in Threads \ {n} : batch'[u] = batch[u]
    <3>1. batch' = [batch EXCEPT ![n] = n] /\ n \in Threads /\ n \in 0..MaxSeqNo
      BY <1>1, <1>3, <1>7, ThreadFacts
    <3>2. batch \in [Threads -> 0..MaxSeqNo]
      BY DEF IInv, TypeOK
    <3>. QED  BY <3>1, <3>2
  <2> HIDE DEF n, w
  <2>3. TypeOK'
    <3>1. handling' \subseteq Messages
      BY <1>2, <1>5, <1>6
    <3>2. db' \subseteq Batches /\ latest' \in 0..MaxSeqNo
      BY <1>3, <1>4, ThreadFacts DEF IInv, TypeOK
    <3>. QED  BY <1>4, <2>1, <2>2, <3>1, <3>2 DEF IInv, TypeOK
  <2>4. Founded'
    <3>1. \A v \in handling' : v.batches # <<>>
      BY <1>5, <1>6 DEF IInv, Founded
    <3>2. \A t \in Threads : pc'[t] \in Busy => batch'[t] \in db'
      BY <1>4, <2>1, <2>2 DEF IInv, Founded
    <3>3. \A t \in Threads : pc'[t] = "processed" => batch'[t] \in enclave'
      BY <1>4, <2>1, <2>2 DEF IInv, Founded
    <3>. QED  BY <1>4, <3>1, <3>2, <3>3 DEF IInv, Founded
  <2>5. ASSUME Timely' PROVE InTurn' /\ HostHeadKnown' /\ NoHoles' /\ LiveAtHead'
    <3>1. InTurn /\ HostHeadKnown /\ NoHoles /\ LiveAtHead
      BY <1>4, <2>5 DEF IInv, Timely
    <3>2. m.batches = <<produced>> /\ n = produced /\ \A t \in Batches : pc[t] = "idle"
      BY <1>3, <1>7, <3>1 DEF InTurn
    <3>3. handling' = handling \ {m}
      BY <1>1, <3>2
    <3>4. ASSUME NEW v \in net' \cup handling' PROVE ~v.live
      <4>1. v \in net \cup handling /\ v \in Messages
        BY <1>2, <1>4, <3>3
      <4>2. v.live => v.batches = <<produced>>
        BY <3>1, <4>1 DEF InTurn
      <4>3. v.live => v = m
        BY <1>2, <1>7, <3>2, <4>1, <4>2 DEF Messages
      <4>. QED  BY <1>4, <1>7, <3>1, <3>3, <4>3 DEF InTurn
    <3>5. ~LiveUnderway'
      BY <3>4 DEF LiveUnderway
    <3>6. LiveUnderway
      BY <1>7 DEF LiveUnderway
    <3>7. InTurn'
      <4>1. produced \in Batches /\ produced <= produced
        BY <1>3, <3>2, ThreadFacts
      <4>2. \A t \in Batches : pc'[t] # "idle" => t = produced /\ batch'[t] = t
        BY <2>1, <2>2, <3>2, ThreadFacts
      <4>3. \A k \in db' : k <= produced
        BY <1>4, <3>1, <3>2, <4>1 DEF InTurn
      <4>4. peer
        BY <3>1, <3>6 DEF InTurn
      <4>. QED  BY <1>4, <3>1, <3>3, <3>4, <3>5, <4>2, <4>3, <4>4 DEF InTurn
    <3>8. HostHeadKnown'
      <4>1. \E t \in Batches : pc'[t] = "received"
        BY <1>3, <2>1
      <4>2. CASE tracker.hostL2Head = 0
        <5>1. NoResponses /\ db = {}
          BY <1>7, <3>1, <3>2, <4>2 DEF HostHeadKnown
        <5>2. NoResponses' /\ db' = {produced}
          BY <1>4, <3>2, <3>3, <5>1 DEF NoResponses
        <5>. QED  BY <1>4, <4>1, <4>2, <5>2 DEF HostHeadKnown
      <4>3. CASE tracker.hostL2Head > 0
        <5>1. tracker.hostL2Head \in Nat /\ produced \in Nat
          BY <1>3, <3>2, ThreadFacts DEF IInv, TypeOK, Tracker
        <5>2. tracker.hostL2Head + 1 >= produced
          BY <3>1, <4>3, <5>1 DEF HostHeadKnown
        <5>. QED  BY <1>4, <4>1, <4>3, <5>2 DEF HostHeadKnown, Unannounced
      <4>. QED  BY <4>2, <4>3 DEF IInv, TypeOK, Tracker
    <3>9. \A t \in Threads : pc'[t] = "submit" => pc[t] = "submit" /\ batch'[t] = batch[t]
      BY <2>1, <2>2
    <3>10. LiveAtHead'
      BY <1>4, <3>1, <3>2 DEF LiveAtHead
    <3>. QED  BY <1>4, <3>1, <3>7, <3>8, <3>9, <3>10, KeepsNoHoles
  <2>. QED  BY <2>3, <2>4, <2>5 DEF IInv
<1>8. CASE ~(m.live /\ n \notin db)
  <2>1. UNCHANGED <<pc, batch>>
    BY <1>1, <1>8
  <2> HIDE DEF n, w
  <2>2. TypeOK'
    <3>1. handling' \subseteq Messages
      BY <1>2, <1>5, <1>6
    <3>2. db' \subseteq Batches /\ latest' \in 0..MaxSeqNo
      BY <1>3, <1>4, ThreadFacts DEF IInv, TypeOK
    <3>. QED  BY <1>4, <2>1, <3>1, <3>2 DEF IInv, TypeOK
  <2>3. Founded'
    <3>1. \A v \in handling' : v.batches # <<>>
      BY <1>5, <1>6 DEF IInv, Founded
    <3>. QED  BY <1>4, <2>1, <3>1 DEF IInv, Founded
  <2>4. ASSUME Timely' PROVE InTurn' /\ HostHeadKnown' /\ NoHoles' /\ LiveAtHead'
    <3>1. InTurn /\ HostHeadKnown /\ NoHoles /\ LiveAtHead
      BY <1>4, <2>4 DEF IInv, Timely
    <3>2. ~m.live
      <4>1. SUFFICES ASSUME m.live PROVE FALSE
        OBVIOUS
      <4>2. m.batches = <<produced>> /\ produced \notin db
        BY <3>1, <4>1 DEF InTurn
      <4>. QED  BY <1>3, <1>8, <4>1, <4>2
    <3>3. \A v \in net' \cup handling' : v.live => v \in net \cup handling
      BY <1>4, <1>5, <1>6, <3>2
    <3>4. LiveUnderway' <=> LiveUnderway
      BY <1>4, <1>6, <3>2, <3>3 DEF LiveUnderway
    <3>5. n <= produced /\ (LiveUnderway => n # produced)
      BY <1>3, <3>1, <3>2 DEF InTurn
    <3>6. tracker.hostL2Head > 0 /\ tracker.hostL2Head \in db
      <4>1. ~NoResponses
        BY <3>2 DEF NoResponses
      <4>2. tracker.hostL2Head \in Nat /\ tracker.hostL2Head # 0
        BY <3>1, <4>1 DEF HostHeadKnown, IInv, TypeOK, Tracker
      <4>. QED  BY <4>2 DEF IInv, Founded
    <3>7. InTurn'
      <4>1. \A v \in net' \cup handling' : v.live =>
              /\ v.batches = <<produced>> /\ produced \notin db'
              /\ \A t \in Batches : pc[t] = "idle"
        BY <1>4, <3>1, <3>3, <3>5 DEF InTurn, LiveUnderway
      <4>2. \A v \in net' \cap handling' : ~v.live
        BY <1>4, <1>5, <1>6, <3>1, <3>2 DEF InTurn
      <4>3. \A k \in db' : k <= produced
        BY <1>4, <3>1, <3>5 DEF InTurn
      <4>4. ASSUME NEW v \in net' \cup handling', ~v.live
            PROVE  \A i \in 1..Len(v.batches) :
                     v.batches[i] <= produced /\ (LiveUnderway => v.batches[i] # produced)
        <5>1. CASE v \in net \cup handling
          BY <3>1, <4>4, <5>1 DEF InTurn
        <5>2. CASE v \notin net \cup handling
          <6>1. v = w /\ Len(m.batches) # 1
            BY <1>4, <1>6, <4>4, <5>2
          <6>2. \A i \in 1..Len(m.batches) :
                  m.batches[i] <= produced /\ (LiveUnderway => m.batches[i] # produced)
            BY <3>1, <3>2 DEF InTurn
          <6>3. \A i \in 1..Len(w.batches) :
                  i + 1 \in 1..Len(m.batches) /\ w.batches[i] = m.batches[i + 1]
            BY <1>3, <1>5, <6>1
          <6>. QED  BY <6>1, <6>2, <6>3
        <5>. QED  BY <5>1, <5>2
      <4>5. peer
        BY <3>1, <3>6 DEF InTurn
      <4>. QED  BY <1>4, <2>1, <3>1, <3>4, <4>1, <4>2, <4>3, <4>4, <4>5 DEF InTurn
    <3>8. HostHeadKnown'
      <4>1. Unannounced' <=> Unannounced
        BY <2>1, <3>4 DEF Unannounced
      <4>. QED  BY <1>4, <3>1, <3>6, <4>1 DEF HostHeadKnown
    <3>. QED  BY <1>4, <2>1, <3>1, <3>7, <3>8, KeepsNoHoles, KeepsLiveAtHead
  <2>. QED  BY <2>2, <2>3, <2>4 DEF IInv
<1>. QED  BY <1>7, <1>8

\* Requests come from catch ups, so from a host that knows of batches.
LEMMA RequestMissingBatchesPreserves ==
  ASSUME IInv, RequestMissingBatchesFromPeers
  PROVE  IInv'
<1> USE DEF sequencer, repo, guardian
<1>1. /\ UNCHANGED <<sequencer, net, handling, requested, repo, guardian, enclave, stream,
                     failures, env>>
      /\ asking' \subseteq asking /\ requests' \subseteq requests \cup asking
      /\ inFlight' \in {inFlight} \cup asking
      /\ asking # {}
  BY DEF RequestMissingBatchesFromPeers
<1>2. TypeOK'
  <2>1. asking \subseteq Batches /\ Batches \subseteq 0..MaxSeqNo
    BY ThreadFacts DEF IInv, TypeOK
  <2>. QED  BY <1>1, <2>1 DEF IInv, TypeOK
<1>3. Founded'
  BY <1>1 DEF IInv, Founded
<1>4. ASSUME Timely' PROVE InTurn' /\ HostHeadKnown' /\ NoHoles' /\ LiveAtHead'
  <2>1. InTurn /\ HostHeadKnown /\ NoHoles /\ LiveAtHead
    BY <1>1, <1>4 DEF IInv, Timely
  <2>2. HostHeadKnown'
    <3>1. Unannounced' <=> Unannounced
      BY <1>1 DEF Unannounced, LiveUnderway
    <3>2. NoResponses' <=> NoResponses
      BY <1>1 DEF NoResponses
    <3>. QED  BY <1>1, <2>1, <3>1, <3>2 DEF HostHeadKnown
  <2>. QED  BY <1>1, <2>1, <2>2, KeepsTurn, KeepsNoHoles, KeepsLiveAtHead
<1>. QED  BY <1>2, <1>3, <1>4 DEF IInv

\* Forgetting the request in flight changes nothing the invariant speaks of.
LEMMA RequestTimeoutPreserves ==
  ASSUME IInv, RequestTimeout
  PROVE  IInv'
<1> USE DEF RequestTimeout, sequencer, p2p, repo, guardian
<1>1. TypeOK' /\ Founded'
  <2>1. 0 \in 0..MaxSeqNo
    BY ThreadFacts
  <2>2. TypeOK'
    BY <2>1 DEF IInv, TypeOK
  <2>3. Founded'
    BY DEF IInv, Founded
  <2>. QED  BY <2>2, <2>3
<1>2. ASSUME Timely' PROVE InTurn' /\ HostHeadKnown' /\ NoHoles' /\ LiveAtHead'
  <2>1. InTurn /\ HostHeadKnown /\ NoHoles /\ LiveAtHead
    BY <1>2 DEF IInv, Timely
  <2>. QED  BY <2>1, KeepsTurn, KeepsHostHead, KeepsNoHoles, KeepsLiveAtHead
<1>. QED  BY <1>1, <1>2 DEF IInv

(***************************************************************************)
(* The steps of the main loop and of HandleBatch.                          *)
(***************************************************************************)
\* A step of the main loop that submits nothing: Main goes to a place without
\* a batch, no other goroutine moves, and the tracker is left alone, given the
\* status of the enclave, or disconnected.
LEMMA MainStepPreserves ==
  ASSUME IInv, NEW place \in {"status", "report", "switch", "catchup"}, Goto(Main, place),
         UNCHANGED <<produced, peer, net, requests, handling, requested, inFlight, db, latest,
                     batch, enclave, stream, env>>,
         failures' \in 0..MaxFailures,
         asking' = asking \/ (asking' \subseteq Batches /\ db # {}),
         tracker' \in Tracker({NoHash, L1Head}),
         tracker'.hostL2Head = tracker.hostL2Head,
         tracker'.enclaveL2Head \in enclave \cup {0},
         \/ tracker' = tracker
         \/ tracker'.status = "Live" =>
              tracker'.hostL2Head > 0 /\ tracker'.hostL2Head <= tracker'.enclaveL2Head,
         report' \in [code : {"Running"}, l1Head : {L1Head}, l2Head : enclave \cup {0}]
  PROVE  IInv'
<1>1. /\ pc' \in [Threads -> Places] /\ pc'[Main] = place
      /\ \A t \in Threads \ {Main} : pc'[t] = pc[t]
  <2>1. place \in Places
    BY DEF Places
  <2>. QED  BY <2>1, GotoMoves, ThreadFacts DEF IInv, TypeOK
<1>2. \A t \in Batches : pc'[t] = pc[t]
  BY <1>1, ThreadFacts
<1>3. TypeOK'
  BY <1>1 DEF IInv, TypeOK
<1>4. Founded'
  <2>1. \A t \in Threads : pc'[t] \in Busy => pc[t] \in Busy /\ pc'[t] = pc[t]
    BY <1>1 DEF Busy
  <2>2. \A t \in Threads : pc'[t] \in Busy => batch'[t] \in db'
    BY <2>1 DEF IInv, Founded
  <2>3. \A t \in Threads : pc'[t] = "processed" => batch'[t] \in enclave'
    BY <2>1 DEF IInv, Founded, Busy
  <2>4. tracker'.hostL2Head \in db' \cup {0}
    BY DEF IInv, Founded
  <2>. QED  BY <2>2, <2>3, <2>4 DEF IInv, Founded
<1>5. ASSUME Timely' PROVE InTurn' /\ HostHeadKnown' /\ NoHoles' /\ LiveAtHead'
  <2>1. InTurn /\ HostHeadKnown /\ NoHoles /\ LiveAtHead
    BY <1>5 DEF IInv, Timely
  <2>2. InTurn'
    BY <1>2, <2>1, KeepsTurn
  <2>3. HostHeadKnown'
    BY <1>2, <2>1, KeepsHostHead
  <2>4. NoHoles'
    <3>1. \A t \in Threads : pc'[t] = "submit" => pc[t] = "submit" /\ batch'[t] = batch[t]
      BY <1>1
    <3>. QED  BY <2>1, <3>1, KeepsNoHoles
  <2>5. LiveAtHead'
    <3>1. CASE tracker' = tracker
      BY <1>2, <2>1, <3>1, KeepsLiveAtHead
    <3>2. CASE tracker'.status = "Live" =>
                 tracker'.hostL2Head > 0 /\ tracker'.hostL2Head <= tracker'.enclaveL2Head
      BY <3>2 DEF LiveAtHead
    <3>. QED  BY <3>1, <3>2
  <2>. QED  BY <2>2, <2>3, <2>4, <2>5
<1>. QED  BY <1>3, <1>4, <1>5 DEF IInv

\* The status is read from the enclave, or the enclave is taken to be disconnected.
LEMMA CheckEnclaveStatusPreserves ==
  ASSUME IInv, CheckEnclaveStatus
  PROVE  IInv'
<1> USE DEF sequencer, p2p, inFlightReq, repo
<1>1. UNCHANGED <<sequencer, p2p, handling, inFlightReq, repo, batch, enclave, stream>>
  BY DEF CheckEnclaveStatus
<1>2. /\ tracker \in Tracker({NoHash, L1Head}) /\ tracker.enclaveL2Head \in enclave \cup {0}
      /\ report \in [code : {"Running"}, l1Head : {L1Head}, l2Head : enclave \cup {0}]
      /\ failures \in 0..MaxFailures /\ enclave \cup {0} \in SUBSET (0..MaxSeqNo)
  BY ThreadFacts DEF IInv, TypeOK, Founded
<1>3. CASE /\ report' = [NoReport EXCEPT !.l2Head = Max(enclave \cup {0})]
           /\ Goto(Main, "report")
           /\ UNCHANGED <<tracker, failures, env>>
  <2>1. Max(enclave \cup {0}) \in enclave \cup {0}
    BY <1>2, GreatestIsMax
  <2>2. report' \in [code : {"Running"}, l1Head : {L1Head}, l2Head : enclave \cup {0}]
    BY <1>3, <2>1 DEF NoReport
  <2>. QED  BY <1>1, <1>2, <1>3, <2>2, MainStepPreserves
<1>4. CASE /\ Fails("rpc")
           /\ tracker' = OnDisconnected(tracker)
           /\ Goto(Main, "switch")
           /\ UNCHANGED report
  <2>1. failures' \in 0..MaxFailures /\ env' = env
    BY <1>2, <1>4, GuardianL2Assumption DEF Fails
  <2>2. /\ tracker' \in Tracker({NoHash, L1Head})
        /\ tracker'.status = "Disconnected"
        /\ tracker'.hostL2Head = tracker.hostL2Head
        /\ tracker'.enclaveL2Head \in enclave \cup {0}
    BY <1>2, <1>4, OtherTrackerFacts
  <2>. QED  BY <1>1, <1>2, <1>4, <2>1, <2>2, MainStepPreserves
<1>. QED  BY <1>3, <1>4 DEF CheckEnclaveStatus

\* The report may be stale by now; its head is still stored.
LEMMA RecordEnclaveStatusPreserves ==
  ASSUME IInv, RecordEnclaveStatus
  PROVE  IInv'
<1> USE DEF sequencer, p2p, inFlightReq, repo
<1>1. /\ UNCHANGED <<sequencer, p2p, handling, inFlightReq, repo, batch, enclave, stream,
                     failures, env>>
      /\ Goto(Main, "switch") /\ report' = NoReport
      /\ tracker' = OnEnclaveStatus(tracker, report)
  BY DEF RecordEnclaveStatus
<1>2. /\ tracker \in Tracker({NoHash, L1Head}) /\ failures \in 0..MaxFailures
      /\ report \in [code : {"Running"}, l1Head : {L1Head}, l2Head : enclave \cup {0}]
      /\ enclave \subseteq Batches
  BY DEF IInv, TypeOK, Founded
<1>3. /\ report.code \in StatusCodes /\ report.l1Head \in {NoHash, L1Head}
      /\ report.l2Head \in enclave \cup {0} /\ report.l2Head \in Nat
  <2>1. report.code = "Running" /\ report.l1Head = L1Head /\ report.l2Head \in enclave \cup {0}
    BY <1>2
  <2>2. \A n \in enclave \cup {0} : n \in Nat
    BY <1>2, ThreadFacts
  <2>. QED  BY <2>1, <2>2 DEF StatusCodes
<1>4. /\ tracker' \in Tracker({NoHash, L1Head})
      /\ tracker'.hostL2Head = tracker.hostL2Head
      /\ tracker'.enclaveL2Head \in enclave \cup {0}
      /\ tracker'.status = "Live" =>
           tracker'.hostL2Head > 0 /\ tracker'.hostL2Head <= tracker'.enclaveL2Head
  BY <1>1, <1>2, <1>3, EnclaveStatusFacts
<1>5. report' \in [code : {"Running"}, l1Head : {L1Head}, l2Head : enclave \cup {0}]
  BY <1>1 DEF NoReport
<1>. QED  BY <1>1, <1>2, <1>4, <1>5, MainStepPreserves

\* The switch on the status moves Main only.
LEMMA MainLoopPreserves ==
  ASSUME IInv, MainLoop
  PROVE  IInv'
<1> USE DEF sequencer, p2p, inFlightReq, repo
<1>1. UNCHANGED <<sequencer, p2p, handling, inFlightReq, repo, tracker, batch, report,
                  enclave, stream, failures, env>>
  BY DEF MainLoop
<1>2. Goto(Main, "catchup") \/ Goto(Main, "status")
  BY DEF MainLoop
<1>3. /\ tracker \in Tracker({NoHash, L1Head}) /\ tracker.enclaveL2Head \in enclave \cup {0}
      /\ report \in [code : {"Running"}, l1Head : {L1Head}, l2Head : enclave \cup {0}]
      /\ failures \in 0..MaxFailures
  BY DEF IInv, TypeOK, Founded
<1>. QED  BY <1>1, <1>2, <1>3, MainStepPreserves

\* Catching up takes the batch after a stored one.
LEMMA CatchupWithL2Preserves ==
  ASSUME IInv, CatchupWithL2
  PROVE  IInv'
<1> USE DEF sequencer, p2p, repo
<1> DEFINE next == tracker.enclaveL2Head + 1
<1>1. UNCHANGED <<sequencer, p2p, handling, requested, inFlight, repo, tracker, report, enclave,
                  stream, failures, env>>
  BY DEF CatchupWithL2
<1>2. /\ tracker \in Tracker({NoHash, L1Head}) /\ tracker.enclaveL2Head \in enclave \cup {0}
      /\ report \in [code : {"Running"}, l1Head : {L1Head}, l2Head : enclave \cup {0}]
      /\ failures \in 0..MaxFailures /\ db \subseteq Batches /\ enclave \subseteq db
      /\ latest \in db \cup {0} /\ asking \subseteq Batches
  BY DEF IInv, TypeOK, Founded
<1>3. CASE Goto(Main, "status") /\ UNCHANGED <<batch, asking>>
  BY <1>1, <1>2, <1>3, MainStepPreserves
<1>4. CASE Goto(Main, "status") /\ Missing(next) /\ UNCHANGED batch
  <2>1. tracker.enclaveL2Head \in Nat /\ latest \in Nat /\ (latest = 0 \/ latest \in db)
    BY <1>2, ThreadFacts DEF Tracker
  <2>2. CASE next < latest
    <3>1. latest \in db
      BY <2>1, <2>2
    <3>2. next \in Batches
      BY <1>2, <2>1, <2>2, <3>1, ThreadFacts DEF Batches
    <3>3. asking' \subseteq Batches /\ db # {}
      BY <1>2, <1>4, <3>1, <3>2 DEF Missing
    <3>. QED  BY <1>1, <1>2, <1>4, <3>3, MainStepPreserves
  <2>3. CASE ~(next < latest)
    <3>1. asking' = asking
      BY <1>4, <2>3 DEF Missing
    <3>. QED  BY <1>1, <1>2, <1>4, <3>1, MainStepPreserves
  <2>. QED  BY <2>2, <2>3
<1>5. CASE /\ next \in db
           /\ Goto(Main, "submit")
           /\ batch' = [batch EXCEPT ![Main] = next]
           /\ UNCHANGED asking
  <2>1. /\ pc' \in [Threads -> Places] /\ pc'[Main] = "submit"
        /\ \A t \in Threads \ {Main} : pc'[t] = pc[t]
    <3>1. "submit" \in Places
      BY DEF Places
    <3>. QED  BY <1>5, <3>1, GotoMoves, ThreadFacts DEF IInv, TypeOK
  <2>2. /\ batch' \in [Threads -> 0..MaxSeqNo] /\ batch'[Main] = next
        /\ \A t \in Threads \ {Main} : batch'[t] = batch[t]
    <3>1. batch \in [Threads -> 0..MaxSeqNo] /\ next \in 0..MaxSeqNo /\ Main \in Threads
      BY <1>2, <1>5, ThreadFacts DEF IInv, TypeOK
    <3>. QED  BY <1>5, <3>1
  <2>3. \A t \in Batches : pc'[t] = pc[t] /\ batch'[t] = batch[t]
    BY <2>1, <2>2, ThreadFacts
  <2>4. next \in db
    BY <1>5
  <2>5. next - 1 = tracker.enclaveL2Head
    BY <1>2 DEF Tracker
  <2>6. UNCHANGED asking
    BY <1>5
  <2> HIDE DEF next
  <2>7. TypeOK'
    BY <1>1, <2>1, <2>2, <2>6 DEF IInv, TypeOK
  <2>8. Founded'
    <3>1. \A t \in Threads : pc'[t] \in Busy => batch'[t] \in db'
      BY <1>1, <2>1, <2>2, <2>4 DEF IInv, Founded
    <3>2. \A t \in Threads : pc'[t] = "processed" => batch'[t] \in enclave'
      BY <1>1, <2>1, <2>2 DEF IInv, Founded
    <3>. QED  BY <1>1, <3>1, <3>2 DEF IInv, Founded
  <2>9. ASSUME Timely' PROVE InTurn' /\ HostHeadKnown' /\ NoHoles' /\ LiveAtHead'
    <3>1. InTurn /\ HostHeadKnown /\ NoHoles /\ LiveAtHead
      BY <1>1, <2>9 DEF IInv, Timely
    <3>2. NoHoles'
      BY <1>1, <1>2, <2>1, <2>2, <2>5, <3>1 DEF NoHoles
    <3>. QED  BY <1>1, <2>3, <2>6, <3>1, <3>2, KeepsTurn, KeepsHostHead, KeepsLiveAtHead
  <2>. QED  BY <2>7, <2>8, <2>9 DEF IInv
<1>. QED  BY <1>3, <1>4, <1>5 DEF CatchupWithL2

\* A batch received is the last one produced, one ahead of the host's head.
LEMMA HandleBatchPreserves ==
  ASSUME IInv, NEW t \in Batches, HandleBatch(t)
  PROVE  IInv'
<1> USE DEF sequencer, p2p, inFlightReq, repo
<1>1. /\ UNCHANGED <<sequencer, p2p, handling, inFlightReq, repo, batch, report, enclave, stream,
                     failures, env>>
      /\ pc[t] = "received" /\ tracker' = OnReceivedBatch(tracker, batch[t])
      /\ Goto(t, "check")
  BY DEF HandleBatch
<1>2. t \in Threads /\ batch[t] \in db /\ batch[t] \in Nat
  <2>1. t \in Threads /\ pc[t] \in Busy
    BY <1>1, ThreadFacts DEF Busy
  <2>2. batch[t] \in db /\ db \subseteq Batches
    BY <2>1 DEF IInv, TypeOK, Founded
  <2>. QED  BY <2>1, <2>2, ThreadFacts
<1>3. /\ pc' \in [Threads -> Places] /\ pc'[t] = "check"
      /\ \A u \in Threads \ {t} : pc'[u] = pc[u]
  <2>1. "check" \in Places
    BY DEF Places
  <2>. QED  BY <1>1, <1>2, <2>1, GotoMoves DEF IInv, TypeOK
<1>4. /\ tracker' \in Tracker({NoHash, L1Head}) /\ tracker'.status = tracker.status
      /\ tracker'.enclaveL2Head = tracker.enclaveL2Head
      /\ tracker'.hostL2Head = batch[t]
  BY <1>1, <1>2, OtherTrackerFacts DEF IInv, TypeOK
<1>5. TypeOK'
  BY <1>1, <1>3, <1>4 DEF IInv, TypeOK
<1>6. Founded'
  <2>1. \A u \in Threads : pc'[u] \in Busy => pc[u] \in Busy
    BY <1>1, <1>3 DEF Busy
  <2>2. \A u \in Threads : pc'[u] = "processed" => pc[u] = "processed"
    BY <1>3
  <2>. QED  BY <1>1, <1>2, <1>4, <2>1, <2>2 DEF IInv, Founded
<1>7. ASSUME Timely' PROVE InTurn' /\ HostHeadKnown' /\ NoHoles' /\ LiveAtHead'
  <2>1. InTurn /\ HostHeadKnown /\ NoHoles /\ LiveAtHead
    BY <1>1, <1>7 DEF IInv, Timely
  <2>2. t = produced /\ batch[t] = t
    BY <1>1, <2>1 DEF InTurn
  <2>3. tracker'.hostL2Head = produced /\ produced \in Nat /\ produced > 0
    BY <1>4, <2>2, ThreadFacts
  <2>4. InTurn'
    BY <1>1, <1>3, <2>1, ThreadFacts, KeepsTurn
  <2>5. HostHeadKnown'
    <3>1. /\ tracker'.hostL2Head # 0 /\ produced' = produced
          /\ tracker'.hostL2Head >= produced
      <4>1. produced' = produced
        BY <1>1
      <4>. QED  BY <2>3, <4>1
    <3>. QED  BY <3>1 DEF HostHeadKnown
  <2>6. NoHoles'
    BY <1>1, <1>3, <2>1, KeepsNoHoles
  <2>7. LiveAtHead'
    <3>1. SUFFICES ASSUME tracker.status = "Live" PROVE tracker.enclaveL2Head + 1 >= produced
      BY <1>1, <1>3, <1>4, <2>3 DEF LiveAtHead
    <3>2. \A u \in Batches : pc[u] \notin {"check", "submit", "processed"}
      BY <1>1, <2>1, <2>2 DEF InTurn
    <3>3. tracker.hostL2Head > 0 /\ tracker.hostL2Head <= tracker.enclaveL2Head
      BY <2>1, <3>1, <3>2 DEF LiveAtHead
    <3>4. tracker.hostL2Head \in Nat /\ tracker.enclaveL2Head \in Nat
      BY DEF IInv, TypeOK, Tracker
    <3>5. tracker.hostL2Head + 1 >= produced
      BY <2>1, <2>3, <3>3, <3>4 DEF HostHeadKnown
    <3>. QED  BY <2>3, <3>3, <3>4, <3>5
  <2>. QED  BY <2>4, <2>5, <2>6, <2>7
<1>. QED  BY <1>5, <1>6, <1>7 DEF IInv

\* A live batch that passes the check comes right after what the enclave has.
LEMMA CheckUpToDatePreserves ==
  ASSUME IInv, NEW t \in Batches, CheckUpToDate(t)
  PROVE  IInv'
<1> USE DEF sequencer, p2p, inFlightReq, repo
<1>1. /\ UNCHANGED <<sequencer, p2p, handling, inFlightReq, repo, tracker, report, enclave, stream,
                     failures, env>>
      /\ pc[t] = "check"
  BY DEF CheckUpToDate
<1>2. /\ t \in Threads /\ batch[t] \in db /\ pc \in [Threads -> Places]
      /\ batch \in [Threads -> 0..MaxSeqNo]
  BY <1>1, ThreadFacts DEF IInv, TypeOK, Founded, Busy
<1>3. CASE IsUpToDate(tracker)
  <2>1. Goto(t, "submit") /\ UNCHANGED batch
    BY <1>3 DEF CheckUpToDate
  <2>2. /\ pc' \in [Threads -> Places] /\ pc'[t] = "submit"
        /\ \A u \in Threads \ {t} : pc'[u] = pc[u]
    <3>1. "submit" \in Places
      BY DEF Places
    <3>. QED  BY <1>2, <2>1, <3>1, GotoMoves
  <2>3. TypeOK'
    BY <1>1, <2>1, <2>2 DEF IInv, TypeOK
  <2>4. Founded'
    <3>1. \A u \in Threads : pc'[u] \in Busy => pc[u] \in Busy
      BY <1>1, <2>2 DEF Busy
    <3>2. \A u \in Threads : pc'[u] = "processed" => pc[u] = "processed"
      BY <2>2
    <3>. QED  BY <1>1, <2>1, <3>1, <3>2 DEF IInv, Founded
  <2>5. ASSUME Timely' PROVE InTurn' /\ HostHeadKnown' /\ NoHoles' /\ LiveAtHead'
    <3>1. InTurn /\ HostHeadKnown /\ NoHoles /\ LiveAtHead
      BY <1>1, <2>5 DEF IInv, Timely
    <3>2. t = produced /\ batch[t] = t
      BY <1>1, <3>1 DEF InTurn
    <3>3. InTurn'
      BY <1>1, <2>1, <2>2, <3>1, ThreadFacts, KeepsTurn
    <3>4. HostHeadKnown'
      BY <1>1, <2>2, <3>1, ThreadFacts, KeepsHostHead
    <3>5. LiveAtHead'
      BY <1>1, <2>2, <3>1, ThreadFacts, KeepsLiveAtHead
    <3>6. t - 1 \in enclave \cup {0}
      <4>1. /\ tracker.hostL2Head \in Nat /\ tracker.enclaveL2Head \in Nat
            /\ tracker.enclaveL2Head \in enclave \cup {0}
        BY DEF IInv, TypeOK, Tracker, Founded
      <4>2. t \in Nat /\ t > 0
        BY ThreadFacts
      <4>3. ~Unannounced
        BY <1>1, <3>1, <3>2 DEF Unannounced, LiveUnderway, InTurn
      <4>4. tracker.enclaveL2Head + 1 >= t
        BY <1>3, <3>1, <3>2, <4>1, <4>2, <4>3 DEF LiveAtHead, HostHeadKnown, IsUpToDate
      <4>5. CASE t = 1
        BY <4>5
      <4>6. CASE t > 1
        <5>1. t - 1 \in 1..tracker.enclaveL2Head /\ tracker.enclaveL2Head # 0
          BY <4>1, <4>2, <4>4, <4>6
        <5>. QED  BY <3>1, <4>1, <5>1 DEF NoHoles
      <4>. QED  BY <4>2, <4>5, <4>6
    <3>7. NoHoles'
      BY <1>1, <2>1, <2>2, <3>1, <3>2, <3>6 DEF NoHoles
    <3>. QED  BY <3>3, <3>4, <3>5, <3>7
  <2>. QED  BY <2>3, <2>4, <2>5 DEF IInv
<1>4. CASE ~IsUpToDate(tracker)
  <2>1. Goto(t, "idle") /\ batch' = [batch EXCEPT ![t] = 0]
    BY <1>4 DEF CheckUpToDate
  <2>2. /\ pc' \in [Threads -> Places] /\ pc'[t] = "idle"
        /\ \A u \in Threads \ {t} : pc'[u] = pc[u]
    <3>1. "idle" \in Places
      BY DEF Places
    <3>. QED  BY <1>2, <2>1, <3>1, GotoMoves
  <2>3. /\ batch' \in [Threads -> 0..MaxSeqNo]
        /\ \A u \in Threads \ {t} : batch'[u] = batch[u]
    BY <1>2, <2>1, ThreadFacts
  <2>4. TypeOK'
    BY <1>1, <2>2, <2>3 DEF IInv, TypeOK
  <2>5. Founded'
    <3>1. \A u \in Threads : pc'[u] \in Busy => pc[u] \in Busy /\ batch'[u] = batch[u]
      BY <2>2, <2>3 DEF Busy
    <3>2. \A u \in Threads : pc'[u] = "processed" => pc[u] = "processed" /\ batch'[u] = batch[u]
      BY <2>2, <2>3
    <3>. QED  BY <1>1, <3>1, <3>2 DEF IInv, Founded
  <2>6. ASSUME Timely' PROVE InTurn' /\ HostHeadKnown' /\ NoHoles' /\ LiveAtHead'
    <3>1. InTurn /\ HostHeadKnown /\ NoHoles /\ LiveAtHead
      BY <1>1, <2>6 DEF IInv, Timely
    <3>2. InTurn'
      BY <1>1, <2>2, <2>3, <3>1, ThreadFacts, KeepsTurn
    <3>3. HostHeadKnown'
      BY <1>1, <2>2, <3>1, ThreadFacts, KeepsHostHead
    <3>4. NoHoles'
      BY <1>1, <2>2, <2>3, <3>1, KeepsNoHoles
    <3>5. LiveAtHead'
      BY <1>1, <1>4 DEF LiveAtHead, IsUpToDate
    <3>. QED  BY <3>2, <3>3, <3>4, <3>5
  <2>. QED  BY <2>4, <2>5, <2>6 DEF IInv
<1>. QED  BY <1>3, <1>4

(***************************************************************************)
(* The submission of a batch, on any goroutine.                            *)
(***************************************************************************)
\* A goroutine at "submit" stores the batch it has in hand, and goes on with or
\* without it.
LEMMA StorePreserves ==
  ASSUME IInv, NEW t \in Threads, NEW place \in Places, pc[t] = "submit",
         Store(batch[t]), Goto(t, place),
         UNCHANGED <<produced, peer, net, requests, handling, asking, requested, inFlight,
                     db, latest, tracker, report, env>>,
         failures' \in 0..MaxFailures,
         \/ place = "processed" /\ batch' = batch
         \/ place \in {"status", "idle"} /\ batch' = [batch EXCEPT ![t] = 0],
         Timely /\ t \in Batches => place = "processed"
  PROVE  IInv'
<1>1. /\ pc' \in [Threads -> Places] /\ pc'[t] = place
      /\ \A u \in Threads \ {t} : pc'[u] = pc[u]
  BY GotoMoves DEF IInv, TypeOK
<1>2. /\ batch' \in [Threads -> 0..MaxSeqNo]
      /\ \A u \in Threads : u # t \/ pc'[t] = "processed" => batch'[u] = batch[u]
  <2>1. batch \in [Threads -> 0..MaxSeqNo] /\ 0 \in 0..MaxSeqNo
    BY GoroutineFacts
  <2>. QED  BY <1>1, <2>1
<1>3. batch[t] \in db /\ batch[t] \in Batches
  BY DEF IInv, TypeOK, Founded, Busy
<1>4. /\ enclave' = enclave \cup {batch[t]} /\ enclave' \subseteq Batches
      /\ stream' \in Seq(Batches)
      /\ \A i \in 1..Len(stream') : stream'[i] \in enclave'
  <2>1. TypeOK /\ \A i \in 1..Len(stream) : stream[i] \in enclave
    BY DEF IInv, Founded
  <2>. QED  BY <1>3, <2>1, StoreFacts
<1>5. TypeOK'
  BY <1>1, <1>2, <1>4 DEF IInv, TypeOK
<1>6. Founded'
  <2>1. \A u \in Threads : pc'[u] \in Busy => batch'[u] \in db'
    <3>1. \A u \in Threads : pc'[u] \in Busy => pc[u] \in Busy /\ batch'[u] = batch[u]
      BY <1>1, <1>2 DEF Busy
    <3>. QED  BY <3>1 DEF IInv, Founded
  <2>2. \A u \in Threads : pc'[u] = "processed" => batch'[u] \in enclave'
    BY <1>1, <1>2, <1>4 DEF IInv, Founded
  <2>3. report' \in [code : {"Running"}, l1Head : {L1Head}, l2Head : enclave' \cup {0}]
    BY <1>4 DEF IInv, Founded
  <2>4. enclave' \subseteq db'
    BY <1>3, <1>4 DEF IInv, Founded
  <2>. QED  BY <1>4, <2>1, <2>2, <2>3, <2>4 DEF IInv, Founded
<1>7. ASSUME Timely' PROVE InTurn' /\ HostHeadKnown' /\ NoHoles' /\ LiveAtHead'
  <2>1. Timely /\ InTurn /\ HostHeadKnown /\ NoHoles /\ LiveAtHead
    BY <1>7 DEF IInv, Timely
  <2>2. t \in Batches => pc'[t] = "processed"
    BY <1>1, <2>1
  <2>3. \A u \in Batches : pc'[u] # "idle" => pc[u] # "idle" /\ batch'[u] = batch[u]
    BY <1>1, <1>2, <2>2, ThreadFacts
  <2>4. \A u \in Batches : pc'[u] = "received" <=> pc[u] = "received"
    BY <1>1, <2>2, ThreadFacts
  <2>5. \A u \in Batches : pc[u] \in {"check", "submit", "processed"} =>
                             pc'[u] \in {"check", "submit", "processed"}
    BY <1>1, <2>2, ThreadFacts
  <2>6. NoHoles'
    <3>1. batch[t] - 1 \in enclave \cup {0} /\ enclave \subseteq Batches
      BY <2>1 DEF NoHoles, IInv, TypeOK
    <3>2. \A u \in Threads : pc'[u] = "submit" => pc[u] = "submit" /\ batch'[u] = batch[u]
      BY <1>1, <1>2
    <3>. QED  BY <1>3, <1>4, <2>1, <3>1, <3>2, StoreKeepsNoHoles
  <2>. QED  BY <2>1, <2>3, <2>4, <2>5, <2>6, KeepsTurn, KeepsHostHead, KeepsLiveAtHead
<1>. QED  BY <1>5, <1>6, <1>7 DEF IInv

\* A submission that succeeds.
LEMMA SubmitBatchPreserves ==
  ASSUME IInv, NEW t \in Threads, SubmitBatch(t)
  PROVE  IInv'
<1>1. failures \in 0..MaxFailures /\ "processed" \in Places
  BY DEF IInv, TypeOK, Places
<1>. QED
  BY <1>1, StorePreserves DEF SubmitBatch, sequencer, p2p, inFlightReq, repo

\* A submission that fails, with the batch stored or not.
LEMMA SubmitBatchFailsPreserves ==
  ASSUME IInv, NEW t \in Threads, SubmitBatchFails(t)
  PROVE  IInv'
<1> USE DEF sequencer, p2p, inFlightReq, repo
<1> DEFINE place == IF t = Main THEN "status" ELSE "idle"
<1>1. /\ UNCHANGED <<sequencer, p2p, handling, inFlightReq, repo, tracker, report, env>>
      /\ pc[t] = "submit" /\ Goto(t, place) /\ batch' = [batch EXCEPT ![t] = 0]
      /\ Store(batch[t]) \/ UNCHANGED <<enclave, stream>>
  BY DEF SubmitBatchFails, Fails
<1>2. failures' \in 0..MaxFailures
  BY FailsFacts DEF SubmitBatchFails
<1>3. place \in Places /\ place \in {"status", "idle"}
  BY DEF Places
<1>4. Timely => t = Main
  BY DEF SubmitBatchFails, Fails, Timely
<1> HIDE DEF place
<1>5. CASE Store(batch[t])
  BY <1>1, <1>2, <1>3, <1>4, <1>5, ThreadFacts, StorePreserves
<1>6. CASE UNCHANGED <<enclave, stream>>
  <2>1. /\ pc' \in [Threads -> Places] /\ pc'[t] = place
        /\ \A u \in Threads \ {t} : pc'[u] = pc[u]
    BY <1>1, <1>3, GotoMoves DEF IInv, TypeOK
  <2>2. /\ batch' \in [Threads -> 0..MaxSeqNo]
        /\ \A u \in Threads \ {t} : batch'[u] = batch[u]
    <3>1. batch \in [Threads -> 0..MaxSeqNo] /\ 0 \in 0..MaxSeqNo
      BY GoroutineFacts
    <3>. QED  BY <1>1, <3>1
  <2>3. TypeOK'
    BY <1>1, <1>2, <1>6, <2>1, <2>2 DEF IInv, TypeOK
  <2>4. Founded'
    <3>1. \A u \in Threads : pc'[u] \in Busy =>
            pc[u] \in Busy /\ pc'[u] = pc[u] /\ batch'[u] = batch[u]
      BY <1>3, <2>1, <2>2 DEF Busy
    <3>2. \A u \in Threads : pc'[u] \in Busy => batch'[u] \in db'
      BY <1>1, <3>1, GoroutineFacts
    <3>3. \A u \in Threads : pc'[u] = "processed" => batch'[u] \in enclave'
      BY <1>6, <3>1, GoroutineFacts DEF Busy
    <3>. QED  BY <1>1, <1>6, <3>2, <3>3 DEF IInv, Founded
  <2>5. ASSUME Timely' PROVE InTurn' /\ HostHeadKnown' /\ NoHoles' /\ LiveAtHead'
    <3>1. t = Main /\ InTurn /\ HostHeadKnown /\ NoHoles /\ LiveAtHead
      BY <1>1, <1>4, <2>5 DEF IInv, Timely
    <3>2. \A u \in Batches : pc'[u] = pc[u] /\ batch'[u] = batch[u]
      BY <2>1, <2>2, <3>1, ThreadFacts
    <3>3. NoHoles'
      BY <1>3, <1>6, <2>1, <2>2, <3>1, KeepsNoHoles
    <3>. QED  BY <1>1, <3>1, <3>2, <3>3, KeepsTurn, KeepsHostHead, KeepsLiveAtHead
  <2>. QED  BY <2>3, <2>4, <2>5 DEF IInv
<1>. QED  BY <1>1, <1>5, <1>6

\* The host's head stays known when a batch of the database is processed.
LEMMA ProcessedKeepsHostHead ==
  ASSUME TypeOK, HostHeadKnown, NEW n \in db,
         UNCHANGED <<produced, net, handling, db, requests, asking>>,
         tracker'.hostL2Head = IF tracker.hostL2Head < n THEN n ELSE tracker.hostL2Head,
         \A t \in Batches : pc'[t] = "received" <=> pc[t] = "received"
  PROVE  HostHeadKnown'
<1>1. /\ tracker.hostL2Head \in Nat /\ n \in Nat /\ n > 0 /\ produced \in Nat
  BY ThreadFacts DEF TypeOK, Tracker
<1>2. Unannounced' <=> Unannounced
  BY DEF Unannounced, LiveUnderway
<1>3. CASE tracker.hostL2Head = 0
  <2>1. n = produced
    BY <1>3 DEF HostHeadKnown
  <2>2. tracker'.hostL2Head = produced /\ produced > 0
    BY <1>1, <1>3, <2>1
  <2>3. tracker'.hostL2Head # 0 /\ produced' = produced /\ tracker'.hostL2Head >= produced
    BY <1>1, <2>2
  <2>. QED  BY <2>3 DEF HostHeadKnown
<1>4. CASE tracker.hostL2Head > 0
  <2>1. tracker'.hostL2Head >= tracker.hostL2Head /\ tracker'.hostL2Head \in Nat
    BY <1>1
  <2>2. tracker.hostL2Head >= produced \/ (Unannounced /\ tracker.hostL2Head + 1 >= produced)
    BY <1>4 DEF HostHeadKnown
  <2>3. tracker'.hostL2Head >= produced \/ (Unannounced /\ tracker'.hostL2Head + 1 >= produced)
    BY <1>1, <2>1, <2>2
  <2>4. tracker'.hostL2Head # 0
    BY <1>1, <1>4, <2>1
  <2>. QED  BY <1>2, <2>3, <2>4 DEF HostHeadKnown
<1>. QED  BY <1>1, <1>3, <1>4

\* OnProcessedBatch is called with a batch that is stored.
LEMMA BatchProcessedPreserves ==
  ASSUME IInv, NEW t \in Threads, BatchProcessed(t)
  PROVE  IInv'
<1> USE DEF sequencer, p2p, inFlightReq, repo
<1> DEFINE place == IF t = Main THEN "catchup" ELSE "idle"
<1>1. /\ UNCHANGED <<sequencer, p2p, handling, inFlightReq, repo, report, enclave, stream,
                     failures, env>>
      /\ pc[t] = "processed" /\ Goto(t, place) /\ batch' = [batch EXCEPT ![t] = 0]
      /\ tracker' = OnProcessedBatch(tracker, batch[t])
  BY DEF BatchProcessed
<1>2. place \in Places /\ place \in {"catchup", "idle"}
  BY DEF Places
<1> HIDE DEF place
<1>3. batch[t] \in enclave /\ batch[t] \in db /\ batch[t] \in Nat
  <2>1. batch[t] \in enclave /\ enclave \subseteq db /\ enclave \subseteq Batches
    BY <1>1 DEF IInv, TypeOK, Founded
  <2>. QED  BY <2>1, ThreadFacts
<1>4. /\ tracker' \in Tracker({NoHash, L1Head}) /\ tracker'.enclaveL2Head = batch[t]
      /\ tracker'.hostL2Head =
           IF tracker.hostL2Head < batch[t] THEN batch[t] ELSE tracker.hostL2Head
      /\ tracker'.status = "Live" =>
           tracker'.hostL2Head > 0 /\ tracker'.hostL2Head <= tracker'.enclaveL2Head
  <2>1. tracker \in Tracker({NoHash, L1Head})
    BY DEF IInv, TypeOK
  <2>. QED  BY <1>1, <1>3, <2>1, ProcessedBatchFacts, ZenonT(30)
<1>5. /\ pc' \in [Threads -> Places] /\ pc'[t] = place
      /\ \A u \in Threads \ {t} : pc'[u] = pc[u]
  BY <1>1, <1>2, GotoMoves DEF IInv, TypeOK
<1>6. /\ batch' \in [Threads -> 0..MaxSeqNo]
      /\ \A u \in Threads \ {t} : batch'[u] = batch[u]
  <2>1. batch \in [Threads -> 0..MaxSeqNo] /\ 0 \in 0..MaxSeqNo
    BY GoroutineFacts
  <2>. QED  BY <1>1, <2>1
<1>7. TypeOK'
  BY <1>1, <1>4, <1>5, <1>6 DEF IInv, TypeOK
<1>8. Founded'
  <2>1. \A u \in Threads : pc'[u] \in Busy =>
          pc[u] \in Busy /\ pc'[u] = pc[u] /\ batch'[u] = batch[u]
    BY <1>2, <1>5, <1>6 DEF Busy
  <2>2. \A u \in Threads : pc'[u] \in Busy => batch'[u] \in db'
    BY <1>1, <2>1, GoroutineFacts
  <2>3. \A u \in Threads : pc'[u] = "processed" => batch'[u] \in enclave'
    BY <1>1, <2>1, GoroutineFacts DEF Busy
  <2>4. tracker'.hostL2Head \in db' \cup {0} /\ tracker'.enclaveL2Head \in enclave' \cup {0}
    BY <1>1, <1>3, <1>4 DEF IInv, Founded
  <2>. QED  BY <1>1, <2>2, <2>3, <2>4 DEF IInv, Founded
<1>9. ASSUME Timely' PROVE InTurn' /\ HostHeadKnown' /\ NoHoles' /\ LiveAtHead'
  <2>1. InTurn /\ HostHeadKnown /\ NoHoles
    BY <1>1, <1>9 DEF IInv, Timely
  <2>2. InTurn'
    <3>1. \A u \in Batches : pc'[u] # "idle" => pc[u] # "idle" /\ batch'[u] = batch[u]
      BY <1>5, <1>6, ThreadFacts DEF place
    <3>. QED  BY <1>1, <2>1, <3>1, KeepsTurn
  <2>3. HostHeadKnown'
    <3>1. \A u \in Batches : pc'[u] = "received" <=> pc[u] = "received"
      BY <1>1, <1>2, <1>5, ThreadFacts
    <3>. QED  BY <1>1, <1>3, <1>4, <2>1, <3>1, ProcessedKeepsHostHead DEF IInv
  <2>4. NoHoles'
    BY <1>1, <1>2, <1>5, <1>6, <2>1, KeepsNoHoles
  <2>5. LiveAtHead'
    BY <1>4 DEF LiveAtHead
  <2>. QED  BY <2>2, <2>3, <2>4, <2>5
<1>. QED  BY <1>7, <1>8, <1>9 DEF IInv

\* A streamed batch is stored in the enclave, and in the database already.
LEMMA StreamEnclaveDataPreserves ==
  ASSUME IInv, StreamEnclaveData
  PROVE  IInv'
<1> USE DEF sequencer, p2p, inFlightReq
<1> DEFINE n == Head(stream)
<1>1. /\ UNCHANGED <<sequencer, p2p, handling, inFlightReq, pc, batch, report, enclave,
                     failures, env>>
      /\ stream # <<>> /\ AddBatch(n) /\ stream' = Tail(stream)
      /\ tracker' = OnProcessedBatch(tracker, n)
  BY DEF StreamEnclaveData
<1>2. /\ stream \in Seq(Batches) /\ \A i \in 1..Len(stream) : stream[i] \in enclave
      /\ enclave \subseteq db /\ db \subseteq Batches
  BY DEF IInv, TypeOK, Founded
<1>3. n \in enclave /\ n \in db /\ n \in Nat
  <2>1. n = stream[1] /\ 1 \in 1..Len(stream)
    BY <1>1, <1>2
  <2>. QED  BY <1>2, <2>1, ThreadFacts
<1>4. /\ stream' \in Seq(Batches)
      /\ \A i \in 1..Len(stream') : stream'[i] \in enclave
  <2>1. stream \in Seq(enclave)
    BY <1>2
  <2>2. stream' \in Seq(enclave) /\ stream' \in Seq(Batches)
    BY <1>1, <1>2, <2>1
  <2>. QED  BY <2>2
<1> HIDE DEF n
<1>5. db' = db /\ latest' = latest
  BY <1>1, <1>3 DEF AddBatch
<1>6. /\ tracker' \in Tracker({NoHash, L1Head}) /\ tracker'.enclaveL2Head = n
      /\ tracker'.hostL2Head = IF tracker.hostL2Head < n THEN n ELSE tracker.hostL2Head
      /\ tracker'.status = "Live" =>
           tracker'.hostL2Head > 0 /\ tracker'.hostL2Head <= tracker'.enclaveL2Head
  <2>1. tracker \in Tracker({NoHash, L1Head})
    BY DEF IInv, TypeOK
  <2>. QED  BY <1>1, <1>3, <2>1, ProcessedBatchFacts, ZenonT(30)
<1>7. TypeOK'
  BY <1>1, <1>4, <1>5, <1>6 DEF IInv, TypeOK
<1>8. Founded'
  <2>1. tracker'.hostL2Head \in db' \cup {0} /\ tracker'.enclaveL2Head \in enclave' \cup {0}
    BY <1>1, <1>3, <1>5, <1>6 DEF IInv, Founded
  <2>. QED  BY <1>1, <1>4, <1>5, <2>1 DEF IInv, Founded
<1>9. ASSUME Timely' PROVE InTurn' /\ HostHeadKnown' /\ NoHoles' /\ LiveAtHead'
  <2>1. InTurn /\ HostHeadKnown /\ NoHoles
    BY <1>1, <1>9 DEF IInv, Timely
  <2>2. HostHeadKnown'
    BY <1>1, <1>3, <1>5, <1>6, <2>1, ProcessedKeepsHostHead DEF IInv
  <2>3. LiveAtHead'
    BY <1>6 DEF LiveAtHead
  <2>. QED  BY <1>1, <1>5, <2>1, <2>2, <2>3, KeepsTurn, KeepsNoHoles
<1>. QED  BY <1>7, <1>8, <1>9 DEF IInv

\* A restart forgets all beliefs.
LEMMA RestartPreserves ==
  ASSUME IInv, Restart
  PROVE  IInv'
<1> USE DEF sequencer, p2p
<1>1. /\ UNCHANGED <<sequencer, p2p, db, enclave, env>>
      /\ handling' = {} /\ asking' = {} /\ requested' = 0 /\ inFlight' = 0 /\ latest' = 0
      /\ tracker' = NewTracker /\ report' = NoReport /\ stream' = <<>>
      /\ pc' = [t \in Threads |-> IF t = Main THEN "status" ELSE "idle"]
      /\ batch' = [t \in Threads |-> 0]
      /\ failures' \in 0..MaxFailures
  BY FailsFacts DEF Restart
<1>2. ~Timely'
  BY FailsFacts DEF Restart, Timely
<1>3. TypeOK'
  <2>1. pc' \in [Threads -> Places] /\ batch' \in [Threads -> 0..MaxSeqNo] /\ 0 \in 0..MaxSeqNo
    BY <1>1, ThreadFacts DEF Places
  <2>2. tracker' \in Tracker({NoHash, L1Head}) /\ stream' \in Seq(Batches)
    BY <1>1, NewTrackerFacts
  <2>. QED  BY <1>1, <2>1, <2>2 DEF IInv, TypeOK
<1>4. Founded'
  <2>1. \A t \in Threads : pc'[t] \notin Busy
    BY <1>1 DEF Busy
  <2>2. \A t \in Threads : pc'[t] # "processed"
    BY <1>1
  <2>3. Len(stream') = 0
    BY <1>1
  <2>4. report' \in [code : {"Running"}, l1Head : {L1Head}, l2Head : enclave \cup {0}]
    BY <1>1 DEF NoReport
  <2>5. tracker'.enclaveL2Head = 0 /\ tracker'.hostL2Head = 0
    BY <1>1, NewTrackerFacts
  <2>6. enclave \subseteq db /\ \A m \in net : m.batches # <<>>
    BY DEF IInv, Founded
  <2>7. \A i \in 1..Len(stream') : FALSE
    BY <2>3
  <2>. QED  BY <1>1, <2>1, <2>2, <2>4, <2>5, <2>6, <2>7 DEF Founded
<1>. QED  BY <1>2, <1>3, <1>4 DEF IInv

(***************************************************************************)
(* The invariant, and what it means.                                       *)
(***************************************************************************)
\* Initially nothing is stored and nothing is under way.
LEMMA InitEstablishes == Init => IInv
<1> SUFFICES ASSUME Init PROVE IInv
  OBVIOUS
<1> USE DEF Init
<1>1. pc \in [Threads -> Places] /\ batch \in [Threads -> 0..MaxSeqNo] /\ 0 \in 0..MaxSeqNo
  BY ThreadFacts DEF Places
<1>2. TypeOK
  <2>1. produced \in 0..MaxSeqNo /\ peer \in BOOLEAN /\ failures \in 0..MaxFailures
    BY ThreadFacts, GuardianL2Assumption
  <2>2. tracker \in Tracker({NoHash, L1Head}) /\ stream \in Seq(Batches)
    BY NewTrackerFacts
  <2>. QED  BY <1>1, <2>1, <2>2 DEF TypeOK
<1>3. \A t \in Threads : pc[t] \in {"status", "idle"}
  OBVIOUS
<1>4. \A t \in Batches : pc[t] = "idle"
  <2>1. \A t \in Batches : t \in Threads /\ t # Main
    BY ThreadFacts
  <2>. QED  BY <2>1
<1>5. Founded
  <2>1. Len(stream) = 0
    OBVIOUS
  <2>2. report \in [code : {"Running"}, l1Head : {L1Head}, l2Head : enclave \cup {0}]
    BY DEF NoReport
  <2>3. tracker.enclaveL2Head = 0 /\ tracker.hostL2Head = 0
    BY NewTrackerFacts
  <2>4. \A t \in Threads : pc[t] \notin Busy /\ pc[t] # "processed"
    BY <1>3 DEF Busy
  <2>5. \A i \in 1..Len(stream) : FALSE
    BY <2>1
  <2>. QED  BY <2>2, <2>3, <2>4, <2>5 DEF Founded
<1>6. ~LiveUnderway
  BY DEF LiveUnderway
<1>7. InTurn
  BY <1>4, <1>6 DEF InTurn
<1>8. HostHeadKnown
  BY NewTrackerFacts DEF HostHeadKnown, NoResponses
<1>9. NoHoles
  BY <1>3 DEF NoHoles
<1>10. LiveAtHead
  BY NewTrackerFacts DEF LiveAtHead
<1>. QED  BY <1>2, <1>5, <1>7, <1>8, <1>9, <1>10 DEF IInv

\* Every step of the guardian, the repository, the sequencer and the network
\* keeps the invariant.
LEMMA NextPreserves == IInv /\ [Next]_vars => IInv'
<1> SUFFICES ASSUME IInv, [Next]_vars PROVE IInv'
  OBVIOUS
<1>1. CASE BroadcastBatch \/ RefreshPeerList \/ HandleBatchRequest \/ LoseMessage
  BY <1>1, BroadcastBatchPreserves, RefreshPeerListPreserves, HandleBatchRequestPreserves,
     LoseMessagePreserves
<1>2. CASE HandleBatches \/ HandleNextBatch \/ RequestMissingBatchesFromPeers \/ RequestTimeout
  BY <1>2, HandleBatchesPreserves, HandleNextBatchPreserves, RequestMissingBatchesPreserves,
     RequestTimeoutPreserves
<1>3. ASSUME NEW t \in Threads, Submission(t) PROVE IInv'
  BY <1>3, SubmitBatchPreserves, SubmitBatchFailsPreserves, BatchProcessedPreserves DEF Submission
<1>4. CASE MainStep
  BY <1>3, <1>4, ThreadFacts, CheckEnclaveStatusPreserves, RecordEnclaveStatusPreserves,
     MainLoopPreserves, CatchupWithL2Preserves DEF MainStep
<1>5. ASSUME NEW t \in Batches, HandlerStep(t) PROVE IInv'
  BY <1>3, <1>5, ThreadFacts, HandleBatchPreserves, CheckUpToDatePreserves DEF HandlerStep
<1>6. CASE StreamEnclaveData \/ Restart
  BY <1>6, StreamEnclaveDataPreserves, RestartPreserves
<1>7. CASE UNCHANGED vars
  <2> USE <1>7 DEF vars, sequencer, p2p, inFlightReq, repo, guardian
  <2>1. TypeOK' /\ Founded'
    BY DEF IInv, TypeOK, Founded
  <2>2. ASSUME Timely' PROVE InTurn' /\ HostHeadKnown' /\ NoHoles' /\ LiveAtHead'
    <3>1. InTurn /\ HostHeadKnown /\ NoHoles /\ LiveAtHead
      BY <2>2 DEF IInv, Timely
    <3>. QED  BY <3>1, KeepsTurn, KeepsHostHead, KeepsNoHoles, KeepsLiveAtHead
  <2>. QED  BY <2>1, <2>2 DEF IInv
<1>. QED  BY <1>1, <1>2, <1>4, <1>5, <1>6, <1>7 DEF Next

\* In every run the guardian's beliefs are founded, and where live batches are
\* handled in time the enclave has no holes.
THEOREM Invariance == Spec => []IInv
BY InitEstablishes, NextPreserves, PTL DEF Spec

\* What the guardian takes to be the enclave's L2 head (OnEnclaveStatus,
\* OnProcessedBatch) is a batch the enclave has stored, however the main loop,
\* the goroutines of HandleBatch, the stream and restarts interleave.
THEOREM TrackedBatchIsStoredHolds == Spec => []TrackedBatchIsStored
<1>1. IInv => TrackedBatchIsStored
  BY DEF IInv, Founded, TrackedBatchIsStored
<1>. QED  BY <1>1, Invariance, PTL

\* The status Live means what state.go says of it as long as live batches are
\* handled in time and their submissions succeed, for a node that joins at any
\* time and whatever requests, responses and calls of the main loop fail.
THEOREM LiveMeansFedIfTimelyHolds == Spec => []LiveMeansFedIfTimely
<1>1. IInv => LiveMeansFedIfTimely
  <2> SUFFICES ASSUME IInv, Timely, NEW n \in db, n <= tracker.enclaveL2Head PROVE n \in enclave
    BY DEF LiveMeansFedIfTimely, LiveMeansFed
  <2>1. /\ n \in Batches /\ tracker.enclaveL2Head \in enclave \cup {0}
        /\ tracker.enclaveL2Head \in Nat
    BY DEF IInv, TypeOK, Tracker, Founded
  <2>2. n \in Nat /\ n > 0
    BY <2>1, ThreadFacts
  <2>3. tracker.enclaveL2Head \in enclave /\ n \in 1..tracker.enclaveL2Head
    BY <2>1, <2>2
  <2>. QED  BY <2>3 DEF IInv, NoHoles
<1>. QED  BY <1>1, Invariance, PTL
===============================================================================
