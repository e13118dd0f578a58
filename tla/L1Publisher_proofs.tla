-------------------------- MODULE L1Publisher_proofs --------------------------
(***************************************************************************)
(* Proofs about the host's L1 publisher, for every set of calls, every     *)
(* number of attempts and every environment.                               *)
(***************************************************************************)
EXTENDS L1Publisher, TLAPS

\* The call of a transaction has taken a nonce, and keeps it.
Started(c) == pc[c] # "idle"

\* Every transaction in the pool carries the nonce of its call.
PoolCarriesNonces == \A t \in pool : Started(t.call) /\ t.nonce = nonce[t.call]

\* The transaction mined at an index carried the nonce of its call there.
MinedCarriesNonces ==
  \A i \in 1..Len(mined) : Started(mined[i].call) /\ nonce[mined[i].call] = i - 1

(***************************************************************************)
(* The inductive invariant.  MinedOnce alone is not inductive: Mine has to *)
(* know that no call is in the pool under two nonces, nor in the pool      *)
(* under another nonce than the one it was mined with.                     *)
(***************************************************************************)
IInv ==
  /\ TypeOK
  /\ \A c \in Calls : pc[c] = "send" => attempt[c] >= 1
  /\ PoolCarriesNonces
  /\ MinedCarriesNonces
  /\ SuccessIsMined

\* The invariant holds before the first call.
LEMMA InitIInv == Init => IInv
<1>1. SUFFICES ASSUME Init PROVE IInv
  OBVIOUS
<1>2. TypeOK
  <2>1. MaxAttempts \in Nat
    BY PublisherAssumption
  <2>2. mined \in Seq([call : Calls, attempt : 1..MaxAttempts, ok : BOOLEAN])
    BY <1>1 DEF Init
  <2>3. /\ nonce \in [Calls -> Nat] /\ attempt \in [Calls -> 0..MaxAttempts]
        /\ pc \in [Calls -> {"idle"}]
    BY <1>1, <2>1 DEF Init
  <2>. QED  BY <1>1, <2>2, <2>3 DEF Init, TypeOK
<1>3. PoolCarriesNonces /\ MinedCarriesNonces
  BY <1>1 DEF Init, PoolCarriesNonces, MinedCarriesNonces
<1>4. \A c \in Calls : pc[c] = "idle"
  BY <1>1 DEF Init
<1>. QED  BY <1>2, <1>3, <1>4 DEF IInv, SuccessIsMined

\* The transactions in the pool and on the chain are transactions of calls.
LEMMA TransactionsOfCalls ==
  ASSUME TypeOK
  PROVE  /\ \A t \in pool : t.call \in Calls
         /\ \A i \in 1..Len(mined) : mined[i].call \in Calls
<1>. DEFINE Mined == [call : Calls, attempt : 1..MaxAttempts, ok : BOOLEAN]
<1>1. \A i \in 1..Len(mined) : mined[i] \in Mined
  <2>1. mined \in Seq(Mined)
    BY DEF TypeOK
  <2>. HIDE DEF Mined
  <2>. QED  BY <2>1
<1>. QED  BY <1>1 DEF TypeOK

\* A step of a call that leaves the chain alone, leaves the pool alone or adds
\* the call's own transaction, and does not return success, keeps the invariant.
LEMMA CallStep ==
  ASSUME IInv, NEW c \in Calls, Started(c) \/ pool' = pool, Started(c)',
         NEW p \in Running \cup (Returned \ {"ok"}), pc' = [pc EXCEPT ![c] = p],
         p = "send" => attempt'[c] >= 1,
         wallet' \in Nat,
         attempt' \in [Calls -> 0..MaxAttempts],
         \A d \in Calls \ {c} : attempt'[d] = attempt[d],
         nonce' \in [Calls -> Nat],
         \A d \in Calls : Started(d) => nonce'[d] = nonce[d],
         \/ pool' = pool
         \/ attempt[c] >= 1 /\ pool' = pool \cup {Tx(c)},
         UNCHANGED <<mined, faults>>, stopping' \in BOOLEAN
  PROVE  IInv'
<1>1. TypeOK'
  <2>1. attempt[c] >= 1 => Tx(c) \in [call : Calls, attempt : 1..MaxAttempts, nonce : Nat]
    BY PublisherAssumption DEF IInv, TypeOK, Tx
  <2>. QED  BY <2>1 DEF IInv, TypeOK
<1>2. \A d \in Calls : pc'[d] = "send" => attempt'[d] >= 1
  BY DEF IInv, TypeOK
<1>3. \A d \in Calls : Started(d) => Started(d)'
  BY DEF IInv, TypeOK, Started, Running, Returned
<1>4. PoolCarriesNonces'
  BY <1>3 DEF IInv, TypeOK, PoolCarriesNonces, Tx
<1>5. MinedCarriesNonces'
  BY <1>3, TransactionsOfCalls DEF IInv, MinedCarriesNonces
<1>6. SuccessIsMined'
  BY DEF IInv, TypeOK, SuccessIsMined, Running, Returned
<1>. QED  BY <1>1, <1>2, <1>4, <1>5, <1>6 DEF IInv

\* Every step of a call keeps the invariant.
LEMMA StepPreserves ==
  ASSUME IInv, NEW c \in Calls, Step(c)
  PROVE  IInv'
<1>0. /\ wallet \in Nat /\ nonce \in [Calls -> Nat] /\ nonce[c] \in Nat
      /\ attempt \in [Calls -> 0..MaxAttempts] /\ stopping \in BOOLEAN
      /\ pc \in [Calls -> {"idle"} \cup Running \cup Returned]
  BY DEF IInv, TypeOK
<1>1. CASE PublishTransaction(c)
  <2>1. "check" \in Running
    BY DEF Running
  <2>2. Started(c)' /\ \A d \in Calls : Started(d) => nonce'[d] = nonce[d]
    BY <1>0, <1>1 DEF PublishTransaction, Started
  <2>3. wallet' \in Nat /\ nonce' \in [Calls -> Nat] /\ stopping' \in BOOLEAN
    BY <1>0, <1>1 DEF PublishTransaction
  <2>. QED  BY <1>0, <1>1, <2>1, <2>2, <2>3, CallStep DEF PublishTransaction
<1>2. CASE CheckNonce(c)
  <2>1. PICK p \in {"stopped", "aborted", "prepare"} : pc' = [pc EXCEPT ![c] = p]
    BY <1>2 DEF CheckNonce
  <2>2. p \in Running \cup (Returned \ {"ok"}) /\ p # "send"
    BY DEF Running, Returned
  <2>3. Started(c)'
    BY <1>0, <2>1 DEF Started
  <2>. QED  BY <1>0, <1>2, <2>1, <2>2, <2>3, CallStep DEF CheckNonce
<1>3. CASE PrepareTransaction(c)
  <2>1. "send" \in Running
    BY DEF Running
  <2>2. /\ Started(c)' /\ attempt'[c] >= 1
        /\ attempt' \in [Calls -> 0..MaxAttempts]
        /\ \A d \in Calls \ {c} : attempt'[d] = attempt[d]
    BY <1>0, <1>3, PublisherAssumption DEF PrepareTransaction, Started
  <2>. QED  BY <1>0, <1>3, <2>1, <2>2, CallStep DEF PrepareTransaction
<1>4. CASE PrepareFails(c)
  <2>1. "failed" \in Returned \ {"ok"} /\ Started(c)'
    BY <1>0, <1>4 DEF Returned, Started, PrepareFails, Fail
  <2>. QED  BY <1>0, <1>4, <2>1, CallStep DEF PrepareFails, Fail
<1>5. CASE SendTransaction(c)
  <2>1. "wait" \in Running /\ Started(c) /\ Started(c)'
    BY <1>0, <1>5 DEF Running, Started, SendTransaction
  <2>2. attempt[c] >= 1
    BY <1>5 DEF IInv, SendTransaction
  <2>. QED  BY <1>0, <1>5, <2>1, <2>2, CallStep DEF SendTransaction
<1>6. CASE SendFails(c)
  <2>1. "failed" \in Returned \ {"ok"} /\ Started(c) /\ Started(c)'
    BY <1>0, <1>6 DEF Returned, Started, SendFails, Fail
  <2>2. attempt[c] >= 1
    BY <1>6 DEF IInv, SendFails
  <2>3. pool' = pool \/ pool' = pool \cup {Tx(c)}
    BY <1>6 DEF SendFails, Rejected, Unreachable
  <2>. QED  BY <1>0, <1>6, <2>1, <2>2, <2>3, CallStep DEF SendFails, Fail
<1>7. CASE ReceiptFound(c)
  <2>1. PICK i \in 1..Len(mined) :
          /\ mined[i].call = c
          /\ pc' = [pc EXCEPT ![c] = IF mined[i].ok THEN "ok" ELSE "unsuccessful"]
    BY <1>7 DEF ReceiptFound
  <2>2. UNCHANGED <<wallet, nonce, attempt, pool, mined, stopping, faults>> /\ Started(c)
    BY <1>7 DEF ReceiptFound, Started
  <2>3. CASE mined[i].ok
    <3>1. pc' = [pc EXCEPT ![c] = "ok"] /\ "ok" \in Returned
      BY <2>1, <2>3 DEF Returned
    <3>2. \A d \in Calls : Started(d)' <=> Started(d)
      BY <1>0, <2>2, <3>1 DEF Started
    <3>3. SuccessIsMined'
      BY <1>0, <2>1, <2>2, <2>3, <3>1 DEF IInv, SuccessIsMined
    <3>4. TypeOK'
      BY <2>2, <3>1 DEF IInv, TypeOK
    <3>5. PoolCarriesNonces' /\ MinedCarriesNonces'
      BY <2>2, <3>2, TransactionsOfCalls DEF IInv, PoolCarriesNonces, MinedCarriesNonces
    <3>6. \A d \in Calls : pc'[d] = "send" => attempt'[d] >= 1
      BY <1>0, <2>2, <3>1 DEF IInv
    <3>. QED  BY <3>3, <3>4, <3>5, <3>6 DEF IInv
  <2>4. CASE ~mined[i].ok
    <3>1. pc' = [pc EXCEPT ![c] = "unsuccessful"] /\ "unsuccessful" \in Returned \ {"ok"}
      BY <2>1, <2>4 DEF Returned
    <3>2. Started(c)'
      BY <1>0, <3>1 DEF Started
    <3>. QED  BY <1>0, <2>2, <3>1, <3>2, CallStep
  <2>. QED  BY <2>3, <2>4
<1>8. CASE ReceiptTimeout(c)
  <2>1. "check" \in Running /\ Started(c)'
    BY <1>0, <1>8 DEF Running, Started, ReceiptTimeout
  <2>. QED  BY <1>0, <1>8, <2>1, CallStep DEF ReceiptTimeout
<1>. QED  BY <1>1, <1>2, <1>3, <1>4, <1>5, <1>6, <1>7, <1>8 DEF Step

\* Mining the transaction with the account's next nonce keeps the invariant.
LEMMA MinePreserves == IInv /\ Mine => IInv'
<1>1. SUFFICES ASSUME IInv, Mine PROVE IInv'
  OBVIOUS
<1>2. PICK t \in pool, ok \in BOOLEAN :
        /\ t.nonce = Len(mined)
        /\ mined' = Append(mined, [call |-> t.call, attempt |-> t.attempt, ok |-> ok])
        /\ pool' = {u \in pool : u.nonce # t.nonce}
        /\ UNCHANGED <<wallet, pc, nonce, attempt, stopping, faults>>
  BY <1>1 DEF Mine
<1>3. DEFINE tx == [call |-> t.call, attempt |-> t.attempt, ok |-> ok]
<1>4. /\ tx \in [call : Calls, attempt : 1..MaxAttempts, ok : BOOLEAN]
      /\ mined \in Seq([call : Calls, attempt : 1..MaxAttempts, ok : BOOLEAN])
  BY <1>1 DEF IInv, TypeOK
<1>5. /\ mined' \in Seq([call : Calls, attempt : 1..MaxAttempts, ok : BOOLEAN])
      /\ Len(mined') = Len(mined) + 1 /\ Len(mined) \in Nat
      /\ \A i \in 1..Len(mined) : mined'[i] = mined[i]
      /\ mined'[Len(mined) + 1] = tx
  <2>. HIDE DEF tx
  <2>. QED  BY <1>2, <1>4 DEF tx
<1>6. TypeOK'
  BY <1>1, <1>2, <1>5 DEF IInv, TypeOK
<1>7. PoolCarriesNonces'
  BY <1>1, <1>2 DEF IInv, PoolCarriesNonces, Started
<1>8. MinedCarriesNonces'
  <2>1. tx.call = t.call /\ Started(t.call) /\ nonce[t.call] = Len(mined)
    BY <1>1, <1>2 DEF IInv, PoolCarriesNonces
  <2>2. \A i \in 1..Len(mined) : Started(mined'[i].call) /\ nonce[mined'[i].call] = i - 1
    BY <1>1, <1>5 DEF IInv, MinedCarriesNonces
  <2>3. \A i \in 1..Len(mined') : Started(mined'[i].call) /\ nonce[mined'[i].call] = i - 1
    BY <1>5, <2>1, <2>2
  <2>. QED  BY <1>2, <2>3 DEF MinedCarriesNonces, Started
<1>9. SuccessIsMined'
  BY <1>1, <1>2, <1>5 DEF IInv, SuccessIsMined
<1>. QED  BY <1>1, <1>2, <1>6, <1>7, <1>8, <1>9 DEF IInv

\* Every step keeps the invariant.
LEMMA NextIInv == IInv /\ [Next]_vars => IInv'
<1>1. SUFFICES ASSUME IInv, [Next]_vars PROVE IInv'
  OBVIOUS
<1>2. ASSUME NEW c \in Calls, Step(c) PROVE IInv'
  BY <1>1, <1>2, StepPreserves
<1>3. CASE Mine
  BY <1>1, <1>3, MinePreserves
<1>4. CASE Stop \/ UNCHANGED vars
  <2>1. UNCHANGED <<wallet, pc, nonce, attempt, pool, mined, faults>> /\ stopping' \in BOOLEAN
    BY <1>1, <1>4 DEF Stop, vars, IInv, TypeOK
  <2>. QED  BY <1>1, <2>1 DEF IInv, TypeOK, PoolCarriesNonces, MinedCarriesNonces,
              SuccessIsMined, Started
<1>. QED  BY <1>1, <1>2, <1>3, <1>4 DEF Next

\* Whatever fails, and however publications overlap, the invariant holds.
THEOREM Invariance == Spec => []IInv
<1>1. Init => IInv
  BY InitIInv
<1>2. IInv /\ [Next]_vars => IInv'
  BY NextIInv
<1>. QED  BY <1>1, <1>2, PTL DEF Spec

\* No publication is mined twice, however often publishTransaction sends it:
\* its attempts share one nonce, and the L1 mines one transaction per nonce.
THEOREM MinedOnceHolds == Spec => []MinedOnce
<1>1. IInv => MinedOnce
  <2>1. SUFFICES ASSUME IInv, NEW i \in 1..Len(mined), NEW j \in 1..Len(mined),
                        mined[i].call = mined[j].call
                 PROVE  i = j
    BY DEF MinedOnce
  <2>2. nonce[mined[i].call] = i - 1 /\ nonce[mined[j].call] = j - 1
    BY <2>1 DEF IInv, MinedCarriesNonces
  <2>3. i \in Int /\ j \in Int
    BY <2>1 DEF IInv, TypeOK
  <2>. QED  BY <2>1, <2>2, <2>3
<1>. QED  BY <1>1, Invariance, PTL

\* publishTransaction returns success only for a transaction that is mined and
\* did not revert, whatever the environment does.
THEOREM SuccessIsMinedHolds == Spec => []SuccessIsMined
<1>1. IInv => SuccessIsMined
  BY DEF IInv
<1>. QED  BY <1>1, Invariance, PTL
===============================================================================
