-------------------------- MODULE NetworkSecret_proofs --------------------------
(***************************************************************************)
(* Proof that the exchange of the network secret implements Membership,    *)
(* for every set of nodes and every environment.                           *)
(***************************************************************************)
EXTENDS NetworkSecret, TLAPS

Kinds == {"init", "request", "respond"}
Transaction == [kind : Kinds, node : Nodes, try : Nat]
Block == [kind : Kinds, node : Nodes, try : Nat, ok : BOOLEAN]

\* The types the proof needs.
TypeInv ==
  /\ chain \in Seq(Block)
  /\ pending \in [Nodes -> Seq(Transaction)]
  /\ holders \subseteq Nodes
  /\ pos \in [Nodes -> Nat]
  /\ from \in [Nodes -> Nat]
  /\ tries \in [Nodes -> Nat]
  /\ tasks \in [Nodes -> Nat]
  /\ pc \in [Nodes -> {"idle", "generated", "sending", "await", "running"}]
  /\ env \in Environments

\* An announcement of the secret has succeeded in the first k blocks.
Founded(k) == \E j \in 1..k : chain[j].kind = "init" /\ chain[j].ok

\* A response is mined after a successful announcement, and so succeeds.
ResponsesSucceed ==
  \A i \in 1..Len(chain) :
    chain[i].kind = "respond" =>
      chain[i].ok /\ chain[i].node \in Verified /\ Founded(i - 1)

\* A response that waits to be mined will be: an announcement has succeeded, or
\* waits before it, to be mined with a lower nonce.
ResponsesWillSucceed ==
  \A i \in 1..Len(pending[Genesis]) :
    pending[Genesis][i].kind = "respond" =>
      /\ pending[Genesis][i].node \in Verified
      /\ Founded(Len(chain)) \/ \E j \in 1..(i - 1) : pending[Genesis][j].kind = "init"

\* Only the holder of the secret announces it.
AnnouncedByCreator ==
  /\ \A i \in 1..Len(chain) :
       chain[i].kind = "init" => chain[i].node = Genesis /\ Genesis \in holders
  /\ \A i \in 1..Len(pending[Genesis]) :
       pending[Genesis][i].kind = "init" =>
         pending[Genesis][i].node = Genesis /\ Genesis \in holders
  /\ pc[Genesis] = "generated" => Genesis \in holders

\* The other hosts send requests and nothing else.
OthersRequest ==
  \A s \in Nodes \ {Genesis} : \A i \in 1..Len(pending[s]) : pending[s][i].kind = "request"

\* Whoever a block attests is admitted, and the creator was first.
AdmissionsRecorded ==
  /\ \A i \in 1..Len(chain) :
       chain[i].ok /\ chain[i].kind # "request" => chain[i].node \in admitted
  /\ admitted # {} => Genesis \in admitted /\ Genesis \in holders
  /\ holders # {} => Genesis \in holders

(***************************************************************************)
(* The inductive invariant.  AwaitSecret takes the secret out of a         *)
(* response whatever its receipt says, so the refinement rests on          *)
(* responses never failing, reorgs included: the nonces keep a dropped     *)
(* announcement ahead of the responses that rely on it.                    *)
(***************************************************************************)
IInv ==
  /\ TypeInv
  /\ ResponsesSucceed
  /\ ResponsesWillSucceed
  /\ AnnouncedByCreator
  /\ OthersRequest
  /\ AdmissionsRecorded
  /\ \A n \in Nodes : tasks[n] > 0 => n \in Verified

-----------------------------------------------------------------------------
\* Steps that do not touch the L1.

\* The constants, as the proofs use them.
LEMMA Constants ==
  /\ Genesis \in Nodes
  /\ Genesis \in Verified
  /\ Verified \subseteq Nodes
  /\ \A e \in Environments : e.nodes \subseteq Nodes
BY NetworkSecretAssumption

\* The invariant holds before the first step.
LEMMA InitIInv == Init => IInv
<1>1. SUFFICES ASSUME Init PROVE IInv
  OBVIOUS
<1>2. chain \in Seq(Block) /\ Len(chain) = 0
  BY <1>1 DEF Init
<1>3. pending \in [Nodes -> Seq(Transaction)] /\ \A s \in Nodes : Len(pending[s]) = 0
  BY <1>1 DEF Init
<1>4. TypeInv
  BY <1>1, <1>2, <1>3 DEF Init, TypeInv
<1>5. pc[Genesis] = "idle" /\ \A n \in Nodes : tasks[n] = 0
  BY <1>1, Constants DEF Init
<1>6. admitted = {} /\ holders = {}
  BY <1>1 DEF Init
<1>. QED  BY <1>2, <1>3, <1>4, <1>5, <1>6, Constants DEF IInv, ResponsesSucceed,
            ResponsesWillSucceed, AnnouncedByCreator, OthersRequest, AdmissionsRecorded

\* A step that leaves the L1 alone keeps the invariant, when the secret reaches
\* nobody before its creator and only verified nodes are answered.
LEMMA OffChain ==
  ASSUME IInv, TypeInv', UNCHANGED <<chain, pending, admitted>>,
         holders \subseteq holders',
         holders' # {} => Genesis \in holders',
         pc'[Genesis] = "generated" => Genesis \in holders',
         \A n \in Nodes : tasks'[n] > 0 => n \in Verified
  PROVE  IInv'
<1>1. ResponsesSucceed' /\ ResponsesWillSucceed' /\ OthersRequest'
  BY DEF IInv, ResponsesSucceed, ResponsesWillSucceed, OthersRequest, Founded
<1>2. AnnouncedByCreator' /\ AdmissionsRecorded'
  BY DEF IInv, AnnouncedByCreator, AdmissionsRecorded
<1>. QED  BY <1>1, <1>2 DEF IInv

\* A block on the chain, with its kind and the node it is about.
LEMMA BlockOnChain ==
  ASSUME TypeInv, NEW i \in 1..Len(chain)
  PROVE  /\ chain[i] \in Block /\ chain[i].kind \in Kinds /\ chain[i].node \in Nodes
         /\ chain[i].try \in Nat /\ chain[i].ok \in BOOLEAN
<1>1. chain \in Seq(Block)
  BY DEF TypeInv
<1>2. chain[i] \in Block
  BY <1>1
<1>. QED  BY <1>2 DEF Block

\* A mined response: its node is admitted, and the creator holds the secret.
LEMMA ResponseMined ==
  ASSUME IInv, NEW i \in 1..Len(chain), chain[i].kind = "respond"
  PROVE  chain[i].node \in admitted /\ Genesis \in admitted /\ Genesis \in holders
<1>1. chain[i].ok
  BY DEF IInv, ResponsesSucceed
<1>2. chain[i].node \in admitted
  BY <1>1 DEF IInv, AdmissionsRecorded
<1>. QED  BY <1>2 DEF IInv, AdmissionsRecorded

\* CheckEnclaveStatus, GenerateSecret, Receipt, AwaitSecret and AwaitTimesOut.
LEMMA GuardianOffChain ==
  ASSUME IInv, NEW n \in Nodes,
         CheckEnclaveStatus(n) \/ GenerateSecret \/ Receipt(n) \/ AwaitSecret(n) \/ AwaitTimesOut(n)
  PROVE  IInv'
<1>0. /\ pc \in [Nodes -> {"idle", "generated", "sending", "await", "running"}]
      /\ from \in [Nodes -> Nat] /\ TypeInv
  BY DEF IInv, TypeInv
<1>1. CASE CheckEnclaveStatus(n)
  <2>1. TypeInv' /\ (pc'[Genesis] = "generated" => pc[Genesis] = "generated")
    BY <1>0, <1>1 DEF TypeInv, CheckEnclaveStatus, Goto, l1, p2p, enclaves, budget
  <2>. QED  BY <1>1, <2>1, OffChain DEF IInv, AnnouncedByCreator, AdmissionsRecorded,
                CheckEnclaveStatus, l1, enclaves
<1>2. CASE GenerateSecret
  <2>1. TypeInv' /\ holders' = holders \cup {Genesis}
    BY <1>0, <1>2, Constants DEF TypeInv, GenerateSecret, StoreSecret, Goto, l1, p2p, budget
  <2>. QED  BY <1>2, <2>1, OffChain DEF IInv, GenerateSecret, l1
<1>3. CASE Receipt(n)
  <2>1. PICK p \in {"idle", "running", "await"} : pc' = [pc EXCEPT ![n] = p]
    BY <1>3 DEF Receipt, Goto
  <2>2. TypeInv' /\ (pc'[Genesis] = "generated" => pc[Genesis] = "generated")
    BY <1>0, <1>3, <2>1 DEF TypeInv, Receipt, l1, p2p, enclaves, budget
  <2>. QED  BY <1>3, <2>2, OffChain DEF IInv, AnnouncedByCreator, AdmissionsRecorded,
                Receipt, l1, enclaves
<1>4. CASE AwaitSecret(n)
  <2>1. UNCHANGED <<chain, pending, admitted, tries, tasks, pos, env>>
    BY <1>4 DEF AwaitSecret, l1
  <2>2. from[n] + 1 \in 1..Len(chain)
    BY <1>0, <1>4 DEF AwaitSecret, TypeInv
  <2>3. CASE SecretResponse(chain[from[n] + 1], n) /\ StoreSecret(n) /\ Goto(n, "running") /\ UNCHANGED from
    <3>1. holders' = holders \cup {n} /\ pc' = [pc EXCEPT ![n] = "running"] /\ UNCHANGED from
      BY <2>3 DEF StoreSecret, Goto
    <3>2. TypeInv' /\ (pc'[Genesis] = "generated" => pc[Genesis] = "generated")
      BY <1>0, <2>1, <3>1 DEF TypeInv
    <3>3. Genesis \in holders
      BY <2>2, <2>3, ResponseMined DEF SecretResponse
    <3>. QED  BY <2>1, <3>1, <3>2, <3>3, OffChain DEF IInv
  <2>4. CASE from' = [from EXCEPT ![n] = @ + 1] /\ UNCHANGED <<holders, pc>>
    <3>1. TypeInv'
      BY <1>0, <2>1, <2>4 DEF TypeInv
    <3>. QED  BY <2>1, <2>4, <3>1, OffChain DEF IInv, AnnouncedByCreator, AdmissionsRecorded
  <2>. QED  BY <1>4, <2>3, <2>4 DEF AwaitSecret
<1>5. CASE AwaitTimesOut(n)
  <2>1. TypeInv' /\ (pc'[Genesis] = "generated" => pc[Genesis] = "generated")
    BY <1>0, <1>5 DEF TypeInv, AwaitTimesOut, Goto, l1, p2p, enclaves
  <2>. QED  BY <1>5, <2>1, OffChain DEF IInv, AnnouncedByCreator, AdmissionsRecorded,
                AwaitTimesOut, l1, enclaves
<1>. QED  BY <1>1, <1>2, <1>3, <1>4, <1>5

\* SubmitL1Block, which lets only verified nodes be answered, and the peers.
LEMMA HostOffChain ==
  ASSUME IInv, NEW n \in Nodes, SubmitL1Block(n) \/ P2P(n)
  PROVE  IInv'
<1>0. TypeInv /\ tasks \in [Nodes -> Nat] /\ pos \in [Nodes -> Nat]
  BY DEF IInv, TypeInv
<1>1. CASE SubmitL1Block(n)
  <2>1. UNCHANGED <<chain, pending, admitted, pc, from, tries, holders>>
    BY <1>1 DEF SubmitL1Block, l1
  <2>2. env' = env /\ pos' = [pos EXCEPT ![n] = @ + 1]
    BY <1>1 DEF SubmitL1Block, Fail
  <2>. DEFINE b == chain[pos[n] + 1]
  <2>3. b.node \in Nodes
    <3>1. pos[n] + 1 \in 1..Len(chain)
      BY <1>0, <1>1 DEF SubmitL1Block, TypeInv
    <3>. QED  BY <1>0, <3>1, BlockOnChain
  <2>4. \/ tasks' = tasks
        \/ tasks' = [tasks EXCEPT ![b.node] = @ + 1] /\ b.node \in Verified
    BY <1>1 DEF SubmitL1Block, Answers, AttestationVerifies
  <2>5. /\ tasks' \in [Nodes -> Nat]
        /\ \A m \in Nodes : tasks'[m] > 0 => m \in Verified
    <3>. HIDE DEF b
    <3>. QED  BY <1>0, <2>3, <2>4 DEF IInv
  <2>6. TypeInv'
    <3>1. pos' \in [Nodes -> Nat]
      BY <1>0, <2>2
    <3>. QED  BY <1>0, <2>1, <2>2, <2>5, <3>1 DEF TypeInv
  <2>. QED  BY <2>1, <2>5, <2>6, OffChain DEF IInv, AnnouncedByCreator, AdmissionsRecorded
<1>2. CASE P2P(n)
  <2>1. UNCHANGED <<chain, pending, admitted, pc, from, tries, tasks, holders, pos, env>>
    BY <1>2 DEF P2P, FetchLatestPeersList, UpdatePeers, Fail, l1, guardian, enclaves, budget
  <2>2. TypeInv'
    BY <1>0, <2>1 DEF TypeInv
  <2>. QED  BY <2>1, <2>2, OffChain DEF IInv, AnnouncedByCreator, AdmissionsRecorded
<1>. QED  BY <1>1, <1>2

-----------------------------------------------------------------------------
\* Steps that send a transaction.

\* Appending a transaction that will succeed to the sender's queue.
LEMMA BroadcastPreserves ==
  ASSUME IInv, NEW s \in Nodes, NEW tx \in Transaction, Broadcast(s, tx),
         UNCHANGED <<chain, admitted, holders, pos, env>>,
         from' \in [Nodes -> Nat], tries' \in [Nodes -> Nat], tasks' \in [Nodes -> Nat],
         pc' \in [Nodes -> {"idle", "generated", "sending", "await", "running"}],
         pc'[Genesis] = "generated" => pc[Genesis] = "generated",
         \A n \in Nodes : tasks'[n] > 0 => n \in Verified,
         s # Genesis => tx.kind = "request",
         tx.kind = "respond" => tx.node \in Verified /\ Founded(Len(chain)),
         tx.kind = "init" => tx.node = Genesis /\ Genesis \in holders
  PROVE  IInv'
<1>0. /\ pending \in [Nodes -> Seq(Transaction)] /\ Genesis \in Nodes
      /\ pending' = [pending EXCEPT ![s] = Append(@, tx)]
  BY Constants DEF IInv, TypeInv, Broadcast
<1>1. /\ pending'[s] \in Seq(Transaction)
      /\ Len(pending[s]) \in Nat
      /\ Len(pending'[s]) = Len(pending[s]) + 1
      /\ \A i \in 1..Len(pending[s]) : pending'[s][i] = pending[s][i]
      /\ pending'[s][Len(pending[s]) + 1] = tx
  <2>1. pending'[s] = Append(pending[s], tx) /\ pending[s] \in Seq(Transaction)
    BY <1>0
  <2>. QED  BY <2>1
<1>2. \A r \in Nodes \ {s} : pending'[r] = pending[r]
  BY <1>0
<1>3. TypeInv'
  <2>1. pending' \in [Nodes -> Seq(Transaction)]
    BY <1>0, <1>1
  <2>. QED  BY <2>1 DEF IInv, TypeInv
<1>4. ResponsesSucceed'
  BY DEF IInv, ResponsesSucceed, Founded
<1>5. ResponsesWillSucceed'
  <2>1. SUFFICES ASSUME NEW i \in 1..Len(pending'[Genesis]), pending'[Genesis][i].kind = "respond"
                 PROVE  /\ pending'[Genesis][i].node \in Verified
                        /\ \/ Founded(Len(chain))
                           \/ \E j \in 1..(i - 1) : pending'[Genesis][j].kind = "init"
    BY DEF ResponsesWillSucceed, Founded
  <2>2. CASE s # Genesis
    BY <1>0, <1>2, <2>1, <2>2 DEF IInv, ResponsesWillSucceed
  <2>3. CASE s = Genesis /\ i = Len(pending[s]) + 1
    BY <1>1, <2>1, <2>3
  <2>4. CASE s = Genesis /\ i \in 1..Len(pending[s])
    <3>1. pending[Genesis][i].kind = "respond"
      BY <1>1, <2>1, <2>4
    <3>2. /\ pending[Genesis][i].node \in Verified
          /\ Founded(Len(chain)) \/ \E j \in 1..(i - 1) : pending[Genesis][j].kind = "init"
      BY <2>4, <3>1 DEF IInv, ResponsesWillSucceed
    <3>3. ASSUME NEW j \in 1..(i - 1), pending[Genesis][j].kind = "init"
          PROVE  pending'[Genesis][j].kind = "init"
      <4>1. j \in 1..Len(pending[s])
        BY <1>1, <2>4
      <4>2. pending'[s][j] = pending[s][j]
        BY <1>1, <4>1
      <4>. QED  BY <2>4, <3>3, <4>2
    <3>. QED  BY <1>1, <2>4, <3>2, <3>3
  <2>. QED  BY <1>1, <2>1, <2>2, <2>3, <2>4
<1>6. AnnouncedByCreator'
  <2>1. \A i \in 1..Len(pending'[Genesis]) :
          pending'[Genesis][i].kind = "init" =>
            pending'[Genesis][i].node = Genesis /\ Genesis \in holders
    BY <1>0, <1>1, <1>2 DEF IInv, AnnouncedByCreator
  <2>. QED  BY <2>1 DEF IInv, AnnouncedByCreator
<1>7. OthersRequest'
  <2>1. SUFFICES ASSUME NEW r \in Nodes \ {Genesis}, NEW i \in 1..Len(pending'[r])
                 PROVE  pending'[r][i].kind = "request"
    BY DEF OthersRequest
  <2>2. CASE r # s
    <3>1. pending'[r] = pending[r]
      BY <1>2, <2>2
    <3>2. OthersRequest
      BY DEF IInv
    <3>. QED  BY <2>1, <3>1, <3>2 DEF OthersRequest
  <2>3. CASE r = s
    <3>1. i \in 1..Len(pending[s]) \/ i = Len(pending[s]) + 1
      BY <1>1, <2>1, <2>3
    <3>2. \A k \in 1..Len(pending[s]) : pending[s][k].kind = "request"
      BY <2>1, <2>3 DEF IInv, OthersRequest
    <3>. QED  BY <1>1, <2>1, <2>3, <3>1, <3>2
  <2>. QED  BY <2>2, <2>3
<1>8. AdmissionsRecorded'
  BY DEF IInv, AdmissionsRecorded
<1>. QED  BY <1>3, <1>4, <1>5, <1>6, <1>7, <1>8 DEF IInv

\* The creator is attested only if an announcement has succeeded.
LEMMA AttestedFounded ==
  ASSUME IInv
  PROVE  Genesis \in Attested <=> Founded(Len(chain))
<1>0. DOMAIN chain = 1..Len(chain) /\ Len(chain) \in Nat
  BY DEF IInv, TypeInv
<1>1. ASSUME Founded(Len(chain)) PROVE Genesis \in Attested
  <2>1. PICK j \in 1..Len(chain) : chain[j].kind = "init" /\ chain[j].ok
    BY <1>1 DEF Founded
  <2>2. chain[j].node = Genesis
    BY <2>1 DEF IInv, AnnouncedByCreator
  <2>. QED  BY <1>0, <2>1, <2>2 DEF Attested, Mined
<1>2. ASSUME Genesis \in Attested PROVE Founded(Len(chain))
  <2>1. PICK i \in 1..Len(chain) : chain[i].ok /\ chain[i].kind \in {"init", "respond"}
    BY <1>0, <1>2 DEF Attested, Mined
  <2>2. CASE chain[i].kind = "respond"
    <3>1. PICK j \in 1..(i - 1) : chain[j].kind = "init" /\ chain[j].ok
      BY <2>1, <2>2 DEF IInv, ResponsesSucceed, Founded
    <3>. QED  BY <1>0, <3>1 DEF Founded
  <2>. QED  BY <2>1, <2>2 DEF Founded
<1>. QED  BY <1>1, <1>2

\* InitializeSecret, RequestSecret and PublishSecretResponse.
LEMMA SendPreserves ==
  ASSUME IInv, NEW n \in Nodes, InitializeSecret \/ RequestSecret(n) \/ PublishSecretResponse(n)
  PROVE  IInv'
<1>0. /\ pc \in [Nodes -> {"idle", "generated", "sending", "await", "running"}]
      /\ from \in [Nodes -> Nat] /\ tries \in [Nodes -> Nat] /\ tasks \in [Nodes -> Nat]
      /\ TypeInv /\ Genesis \in Nodes /\ Len(chain) \in Nat
  <2>1. TypeInv /\ Genesis \in Nodes
    BY Constants DEF IInv
  <2>2. chain \in Seq(Block)
    BY <2>1 DEF TypeInv
  <2>3. Len(chain) \in Nat
    BY <2>2
  <2>. QED  BY <2>1, <2>3 DEF TypeInv
<1>1. CASE InitializeSecret
  <2>1. UNCHANGED <<chain, admitted, from, tries, tasks, holders, pos, env>>
    BY <1>1 DEF InitializeSecret, Fail, enclaves
  <2>2. CASE Broadcast(Genesis, Tx("init", Genesis, 0)) /\ Goto(Genesis, "sending")
    <3>1. Tx("init", Genesis, 0) \in Transaction
      BY <1>0 DEF Tx, Transaction, Kinds
    <3>2. /\ pc' \in [Nodes -> {"idle", "generated", "sending", "await", "running"}]
          /\ pc'[Genesis] = "sending"
      BY <1>0, <2>2 DEF Goto
    <3>3. Genesis \in holders
      BY <1>1 DEF InitializeSecret, IInv, AnnouncedByCreator
    <3>4. Tx("init", Genesis, 0).kind = "init" /\ Tx("init", Genesis, 0).node = Genesis
      BY DEF Tx
    <3>. QED  BY <1>0, <2>1, <2>2, <3>1, <3>2, <3>3, <3>4, BroadcastPreserves DEF IInv
  <2>3. CASE Goto(Genesis, "idle") /\ UNCHANGED pending
    <3>1. /\ pc' \in [Nodes -> {"idle", "generated", "sending", "await", "running"}]
          /\ pc'[Genesis] = "idle"
      BY <1>0, <2>3 DEF Goto
    <3>2. TypeInv'
      BY <1>0, <2>1, <2>3, <3>1 DEF TypeInv
    <3>. QED  BY <2>1, <2>3, <3>1, <3>2, OffChain DEF IInv, AdmissionsRecorded
  <2>. QED  BY <1>1, <2>2, <2>3 DEF InitializeSecret
<1>2. CASE RequestSecret(n)
  <2>1. UNCHANGED <<chain, admitted, tasks, holders, pos, env>> /\ n # Genesis
    BY <1>2 DEF RequestSecret, Fail, enclaves
  <2>2. CASE UNCHANGED <<pc, from, tries, pending>>
    <3>1. TypeInv'
      BY <1>0, <2>1, <2>2 DEF TypeInv
    <3>. QED  BY <2>1, <2>2, <3>1, OffChain DEF IInv, AnnouncedByCreator, AdmissionsRecorded
  <2>3. CASE /\ from' = [from EXCEPT ![n] = Len(chain)]
             /\ tries' = [tries EXCEPT ![n] = @ + 1]
             /\ Broadcast(n, Tx("request", n, tries[n] + 1))
             /\ Goto(n, "sending")
    <3>1. Tx("request", n, tries[n] + 1) \in Transaction
      BY <1>0 DEF Tx, Transaction, Kinds
    <3>2. Tx("request", n, tries[n] + 1).kind = "request"
      BY DEF Tx
    <3>3. from' \in [Nodes -> Nat]
      BY <1>0, <2>3
    <3>4. tries' \in [Nodes -> Nat]
      BY <1>0, <2>3
    <3>5. /\ pc' \in [Nodes -> {"idle", "generated", "sending", "await", "running"}]
          /\ pc'[Genesis] = pc[Genesis]
      BY <1>0, <2>1, <2>3 DEF Goto
    <3>. QED  BY <1>0, <2>1, <2>3, <3>1, <3>2, <3>3, <3>4, <3>5, BroadcastPreserves DEF IInv
  <2>. QED  BY <1>2, <2>2, <2>3 DEF RequestSecret
<1>3. CASE PublishSecretResponse(n)
  <2>1. UNCHANGED <<chain, admitted, pc, from, tries, holders, pos, env>>
    BY <1>3 DEF PublishSecretResponse, Fail, enclaves
  <2>2. tasks[n] > 0 /\ tasks' = [tasks EXCEPT ![n] = @ - 1]
    BY <1>3 DEF PublishSecretResponse
  <2>3. tasks' \in [Nodes -> Nat] /\ \A m \in Nodes : tasks'[m] > 0 => tasks[m] > 0
    BY <1>0, <2>2
  <2>4. CASE Accepts(Tx("respond", n, 0)) /\ Broadcast(Genesis, Tx("respond", n, 0))
    <3>1. Tx("respond", n, 0) \in Transaction
      BY <1>0 DEF Tx, Transaction, Kinds
    <3>2. Tx("respond", n, 0).kind = "respond" /\ Tx("respond", n, 0).node = n
      BY DEF Tx
    <3>3. Founded(Len(chain))
      BY <2>4, <3>2, AttestedFounded DEF Accepts
    <3>4. n \in Verified
      BY <2>2 DEF IInv
    <3>. QED  BY <1>0, <2>1, <2>3, <2>4, <3>1, <3>2, <3>3, <3>4, BroadcastPreserves DEF IInv
  <2>5. CASE UNCHANGED pending
    <3>1. TypeInv'
      BY <1>0, <2>1, <2>3, <2>5 DEF TypeInv
    <3>. QED  BY <2>1, <2>3, <2>5, <3>1, OffChain DEF IInv, AnnouncedByCreator, AdmissionsRecorded
  <2>. QED  BY <1>3, <2>4, <2>5 DEF PublishSecretResponse
<1>. QED  BY <1>1, <1>2, <1>3

-----------------------------------------------------------------------------
\* Mining.

\* What mining the next transaction of s does, tx being that transaction.
MinedAs(s, tx, ok) ==
  /\ tx \in Transaction
  /\ Len(pending[s]) > 0
  /\ tx = pending[s][1]
  /\ chain' \in Seq(Block)
  /\ Len(chain') = Len(chain) + 1
  /\ \A i \in 1..Len(chain) : chain'[i] = chain[i]
  /\ chain'[Len(chain) + 1].kind = tx.kind
  /\ chain'[Len(chain) + 1].node = tx.node
  /\ chain'[Len(chain) + 1].ok = ok
  /\ admitted' = IF ok /\ tx.kind # "request" THEN admitted \cup {tx.node} ELSE admitted
  /\ pending' \in [Nodes -> Seq(Transaction)]
  /\ Len(pending'[s]) = Len(pending[s]) - 1
  /\ \A i \in 1..Len(pending'[s]) : pending'[s][i] = pending[s][i + 1]
  /\ \A r \in Nodes \ {s} : pending'[r] = pending[r]
  /\ UNCHANGED <<holders, pos, from, tries, tasks, pc, env>>

\* Mine, in the terms of the sequences it changes.
LEMMA MineAsSequences ==
  ASSUME IInv, NEW s \in Nodes, Mine(s)
  PROVE  \E tx, ok : MinedAs(s, tx, ok) /\ ok = Accepts(tx) /\ ok \in BOOLEAN
<1>0. /\ chain \in Seq(Block) /\ Len(chain) \in Nat
      /\ pending \in [Nodes -> Seq(Transaction)] /\ pending[s] \in Seq(Transaction)
  BY DEF IInv, TypeInv
<1>. DEFINE tx == Head(pending[s])
            ok == Accepts(tx)
            block == [kind |-> tx.kind, node |-> tx.node, try |-> tx.try, ok |-> ok]
<1>1. tx \in Transaction /\ tx = pending[s][1] /\ Len(pending[s]) \in Nat /\ Len(pending[s]) > 0
  BY <1>0 DEF Mine
<1>2. tx.kind \in Kinds /\ tx.node \in Nodes /\ tx.try \in Nat
  BY <1>1 DEF Transaction
<1>3. ok \in BOOLEAN
  <2>1. CASE tx.kind = "init"
    BY <2>1, Zenon DEF Accepts
  <2>2. CASE tx.kind = "request"
    BY <2>2 DEF Accepts
  <2>3. CASE tx.kind = "respond"
    <3>1. CASE Genesis \in Attested
      BY <2>3, <3>1 DEF Accepts
    <3>2. CASE ~(Genesis \in Attested)
      <4>1. (Genesis \in Attested) = FALSE
        BY <3>2
      <4>2. ok = FALSE
        BY <2>3, <4>1 DEF Accepts
      <4>. QED  BY <4>2
    <3>. QED  BY <3>1, <3>2
  <2>. QED  BY <1>2, <2>1, <2>2, <2>3 DEF Kinds
<1>4. block \in Block /\ block.kind = tx.kind /\ block.node = tx.node /\ block.ok = ok
  <2>. HIDE DEF tx, ok
  <2>. QED  BY <1>2, <1>3 DEF Block
<1>5. /\ chain' = Append(chain, block)
      /\ admitted' = IF ok /\ tx.kind # "request" THEN admitted \cup {tx.node} ELSE admitted
      /\ pending' = [pending EXCEPT ![s] = Tail(@)]
      /\ UNCHANGED <<holders, pos, from, tries, tasks, pc, env>>
  BY DEF Mine, guardian, enclaves, budget
<1>6. /\ chain' \in Seq(Block) /\ Len(chain') = Len(chain) + 1
      /\ \A i \in 1..Len(chain) : chain'[i] = chain[i]
      /\ chain'[Len(chain) + 1] = block
  <2>. HIDE DEF block
  <2>. QED  BY <1>0, <1>4, <1>5
<1>7. /\ pending'[s] = Tail(pending[s]) /\ pending'[s] \in Seq(Transaction)
      /\ Len(pending'[s]) = Len(pending[s]) - 1
      /\ \A i \in 1..Len(pending'[s]) : pending'[s][i] = pending[s][i + 1]
  <2>1. pending'[s] = Tail(pending[s])
    BY <1>0, <1>5
  <2>2. pending[s] # << >>
    BY <1>1
  <2>. QED  BY <1>0, <2>1, <2>2
<1>8. pending' \in [Nodes -> Seq(Transaction)] /\ \A r \in Nodes \ {s} : pending'[r] = pending[r]
  BY <1>0, <1>5, <1>7
<1>9. MinedAs(s, tx, ok)
  <2>. HIDE DEF tx, ok, block
  <2>. QED  BY <1>1, <1>4, <1>5, <1>6, <1>7, <1>8 DEF MinedAs
<1>. QED  BY <1>3, <1>9

\* Founded only looks at the blocks it ranges over.
LEMMA FoundedKept ==
  ASSUME NEW k \in Nat, \A i \in 1..k : chain'[i] = chain[i]
  PROVE  Founded(k)' <=> Founded(k)
BY DEF Founded

\* Mining keeps the invariant, and admits nobody but the creator, who holds the
\* secret, or a verified node after the creator.
LEMMA MinePreserves ==
  ASSUME IInv, NEW s \in Nodes, Mine(s)
  PROVE  /\ IInv'
         /\ holders' = holders
         /\ \/ admitted' = admitted
            \/ admitted' = admitted \cup {Genesis} /\ Genesis \in holders
            \/ \E n \in Verified : admitted' = admitted \cup {n} /\ Genesis \in admitted
<1>0. /\ Len(chain) \in Nat /\ Genesis \in Nodes /\ Verified \subseteq Nodes
      /\ \A r \in Nodes : Len(pending[r]) \in Nat
  BY Constants DEF IInv, TypeInv
<1>1. PICK tx, ok : MinedAs(s, tx, ok) /\ ok = Accepts(tx) /\ ok \in BOOLEAN
  BY MineAsSequences
<1>2. tx \in Transaction /\ tx.kind \in Kinds /\ tx.node \in Nodes
  BY <1>1 DEF MinedAs, Transaction
<1>c. Len(chain') = Len(chain) + 1 /\ \A i \in 1..Len(chain) : chain'[i] = chain[i]
  BY <1>1 DEF MinedAs
<1>3. \A k \in 0..Len(chain) : Founded(k)' <=> Founded(k)
  <2>1. ASSUME NEW k \in 0..Len(chain) PROVE k \in Nat /\ 1..k \subseteq 1..Len(chain)
    BY <1>0
  <2>. QED  BY <1>c, <2>1, FoundedKept
<1>4. Founded(Len(chain)) => Founded(Len(chain))'
  <2>1. 1..Len(chain) \subseteq 1..Len(chain')
    BY <1>0, <1>c
  <2>. QED  BY <1>c, <2>1 DEF Founded
<1>5. s # Genesis => tx.kind = "request"
  <2>1. Len(pending[s]) > 0 /\ tx = pending[s][1]
    BY <1>1 DEF MinedAs
  <2>2. 1 \in 1..Len(pending[s])
    BY <1>0, <2>1
  <2>3. OthersRequest
    BY DEF IInv
  <2>. QED  BY <2>1, <2>2, <2>3 DEF OthersRequest
<1>6. tx.kind = "respond" => ok /\ tx.node \in Verified /\ Founded(Len(chain))
  <2>1. SUFFICES ASSUME tx.kind = "respond"
                 PROVE  ok /\ tx.node \in Verified /\ Founded(Len(chain))
    OBVIOUS
  <2>2. s = Genesis /\ 1 \in 1..Len(pending[Genesis]) /\ tx = pending[Genesis][1]
    BY <1>0, <1>1, <1>5, <2>1 DEF MinedAs
  <2>3. tx.node \in Verified /\ Founded(Len(chain))
    BY <2>1, <2>2 DEF IInv, ResponsesWillSucceed
  <2>. QED  BY <1>1, <2>1, <2>3, AttestedFounded DEF Accepts
<1>7. tx.kind = "init" => tx.node = Genesis /\ Genesis \in holders
  <2>1. SUFFICES ASSUME tx.kind = "init" PROVE tx.node = Genesis /\ Genesis \in holders
    OBVIOUS
  <2>2. s = Genesis /\ 1 \in 1..Len(pending[Genesis]) /\ tx = pending[Genesis][1]
    BY <1>0, <1>1, <1>5, <2>1 DEF MinedAs
  <2>. QED  BY <2>1, <2>2 DEF IInv, AnnouncedByCreator
<1>8. tx.kind = "init" => Founded(Len(chain))'
  <2>1. SUFFICES ASSUME tx.kind = "init", ~ok PROVE Founded(Len(chain))
    <3>1. ASSUME tx.kind = "init", ok PROVE Founded(Len(chain))'
      <4>1. Len(chain) + 1 \in 1..Len(chain')
        BY <1>0, <1>1 DEF MinedAs
      <4>. QED  BY <1>1, <3>1, <4>1 DEF Founded, MinedAs
    <3>. QED  BY <1>4, <3>1
  <2>2. DOMAIN chain = 1..Len(chain)
    BY DEF IInv, TypeInv
  <2>3. ~\A i \in Mined("init") : ~chain[i].ok
    BY <1>1, <2>1 DEF Accepts
  <2>. QED  BY <2>2, <2>3 DEF Mined, Founded
<1>9. TypeInv'
  BY <1>1 DEF IInv, TypeInv, MinedAs
<1>10. ResponsesSucceed'
  <2>1. SUFFICES ASSUME NEW i \in 1..Len(chain'), chain'[i].kind = "respond"
                 PROVE  chain'[i].ok /\ chain'[i].node \in Verified /\ Founded(i - 1)'
    BY DEF ResponsesSucceed, Founded
  <2>2. CASE i \in 1..Len(chain)
    <3>1. chain'[i] = chain[i] /\ i - 1 \in 0..Len(chain)
      BY <1>0, <1>1, <2>2 DEF MinedAs
    <3>. QED  BY <1>3, <2>1, <2>2, <3>1 DEF IInv, ResponsesSucceed
  <2>3. CASE i = Len(chain) + 1
    <3>1. i - 1 = Len(chain) /\ Len(chain) \in 0..Len(chain)
      BY <1>0, <2>3
    <3>. QED  BY <1>1, <1>3, <1>6, <2>1, <2>3, <3>1 DEF MinedAs
  <2>4. i \in 1..Len(chain) \/ i = Len(chain) + 1
    BY <1>0, <1>c, <2>1
  <2>. QED  BY <2>2, <2>3, <2>4
<1>11. ResponsesWillSucceed'
  <2>1. SUFFICES ASSUME NEW i \in 1..Len(pending'[Genesis]), pending'[Genesis][i].kind = "respond"
                 PROVE  /\ pending'[Genesis][i].node \in Verified
                        /\ \/ Founded(Len(chain))'
                           \/ \E j \in 1..(i - 1) : pending'[Genesis][j].kind = "init"
    BY DEF ResponsesWillSucceed, Founded
  <2>2. CASE s # Genesis
    <3>1. pending'[Genesis] = pending[Genesis]
      BY <1>0, <1>1, <2>2 DEF MinedAs
    <3>. QED  BY <1>4, <2>1, <3>1 DEF IInv, ResponsesWillSucceed
  <2>3. CASE s = Genesis
    <3>1. /\ i + 1 \in 1..Len(pending[Genesis])
          /\ pending'[Genesis][i] = pending[Genesis][i + 1]
      BY <1>0, <1>1, <2>1, <2>3 DEF MinedAs
    <3>2. /\ pending[Genesis][i + 1].node \in Verified
          /\ Founded(Len(chain)) \/ \E j \in 1..((i + 1) - 1) : pending[Genesis][j].kind = "init"
      BY <2>1, <3>1 DEF IInv, ResponsesWillSucceed
    <3>3. ASSUME NEW j \in 1..((i + 1) - 1), pending[Genesis][j].kind = "init"
          PROVE  \/ Founded(Len(chain))'
                 \/ \E k \in 1..(i - 1) : pending'[Genesis][k].kind = "init"
      <4>1. CASE j = 1
        BY <1>1, <1>8, <2>3, <3>3, <4>1 DEF MinedAs
      <4>2. CASE j # 1
        <5>1. j - 1 \in 1..(i - 1) /\ j - 1 \in 1..Len(pending'[Genesis]) /\ (j - 1) + 1 = j
          BY <1>0, <2>1, <3>3, <4>2
        <5>2. pending'[Genesis][j - 1] = pending[Genesis][(j - 1) + 1]
          BY <1>1, <2>3, <5>1 DEF MinedAs
        <5>. QED  BY <3>3, <5>1, <5>2
      <4>. QED  BY <4>1, <4>2
    <3>. QED  BY <1>4, <3>1, <3>2, <3>3
  <2>. QED  BY <2>2, <2>3
<1>12. AnnouncedByCreator'
  <2>1. \A i \in 1..Len(chain') :
          chain'[i].kind = "init" => chain'[i].node = Genesis /\ Genesis \in holders
    <3>1. \A i \in 1..Len(chain') : i \in 1..Len(chain) \/ i = Len(chain) + 1
      BY <1>0, <1>1 DEF MinedAs
    <3>. QED  BY <1>1, <1>7, <3>1 DEF MinedAs, IInv, AnnouncedByCreator
  <2>2. ASSUME NEW i \in 1..Len(pending'[Genesis]), pending'[Genesis][i].kind = "init"
        PROVE  pending'[Genesis][i].node = Genesis /\ Genesis \in holders
    <3>1. CASE s # Genesis
      <4>1. pending'[Genesis] = pending[Genesis]
        BY <1>0, <1>1, <3>1 DEF MinedAs
      <4>2. AnnouncedByCreator
        BY DEF IInv
      <4>. QED  BY <2>2, <4>1, <4>2 DEF AnnouncedByCreator
    <3>2. CASE s = Genesis
      <4>1. i + 1 \in 1..Len(pending[Genesis]) /\ pending'[Genesis][i] = pending[Genesis][i + 1]
        BY <1>0, <1>1, <2>2, <3>2 DEF MinedAs
      <4>. QED  BY <2>2, <4>1 DEF IInv, AnnouncedByCreator
    <3>. QED  BY <3>1, <3>2
  <2>. QED  BY <1>1, <2>1, <2>2 DEF MinedAs, IInv, AnnouncedByCreator
<1>13. OthersRequest'
  <2>1. SUFFICES ASSUME NEW r \in Nodes \ {Genesis}, NEW i \in 1..Len(pending'[r])
                 PROVE  pending'[r][i].kind = "request"
    BY DEF OthersRequest
  <2>2. CASE r # s
    BY <1>1, <2>1, <2>2 DEF MinedAs, IInv, OthersRequest
  <2>3. CASE r = s
    <3>1. i + 1 \in 1..Len(pending[r]) /\ pending'[r][i] = pending[r][i + 1]
      BY <1>0, <1>1, <2>1, <2>3 DEF MinedAs
    <3>. QED  BY <2>1, <3>1 DEF IInv, OthersRequest
  <2>. QED  BY <2>2, <2>3
<1>14. \/ admitted' = admitted
       \/ admitted' = admitted \cup {Genesis} /\ Genesis \in holders
       \/ \E n \in Verified : admitted' = admitted \cup {n} /\ Genesis \in admitted
  <2>1. CASE tx.kind = "respond"
    <3>1. PICK j \in 1..Len(chain) : chain[j].kind = "init" /\ chain[j].ok
      BY <1>6, <2>1 DEF Founded
    <3>2. Genesis \in admitted
      BY <3>1 DEF IInv, AdmissionsRecorded
    <3>. QED  BY <1>1, <1>6, <2>1, <3>2 DEF MinedAs
  <2>2. CASE tx.kind = "init"
    BY <1>1, <1>7, <2>2 DEF MinedAs
  <2>3. CASE tx.kind = "request"
    BY <1>1, <2>3 DEF MinedAs
  <2>. QED  BY <1>2, <2>1, <2>2, <2>3 DEF Kinds
<1>15. AdmissionsRecorded'
  <2>1. holders' = holders /\ admitted \subseteq admitted'
    BY <1>1 DEF MinedAs
  <2>2. \A i \in 1..Len(chain') :
          chain'[i].ok /\ chain'[i].kind # "request" => chain'[i].node \in admitted'
    <3>1. \A i \in 1..Len(chain') : i \in 1..Len(chain) \/ i = Len(chain) + 1
      BY <1>0, <1>1 DEF MinedAs
    <3>. QED  BY <1>1, <2>1, <3>1 DEF MinedAs, IInv, AdmissionsRecorded
  <2>3. admitted' # {} => Genesis \in admitted' /\ Genesis \in holders
    BY <1>14, <2>1 DEF IInv, AdmissionsRecorded
  <2>. QED  BY <2>1, <2>2, <2>3 DEF IInv, AdmissionsRecorded
<1>. QED  BY <1>1, <1>9, <1>10, <1>11, <1>12, <1>13, <1>14, <1>15 DEF IInv, MinedAs

-----------------------------------------------------------------------------
\* Reorganisation.

\* What a reorg does, tx being the transaction that goes back to s.
DroppedAs(s, tx) ==
  /\ Len(chain) > 0
  /\ s \in Nodes
  /\ tx \in Transaction
  /\ s # Genesis => tx.kind = "request"
  /\ tx.kind = chain[Len(chain)].kind
  /\ tx.node = chain[Len(chain)].node
  /\ chain' \in Seq(Block)
  /\ Len(chain') = Len(chain) - 1
  /\ \A i \in 1..Len(chain') : chain'[i] = chain[i]
  /\ pending' \in [Nodes -> Seq(Transaction)]
  /\ Len(pending'[s]) = Len(pending[s]) + 1
  /\ pending'[s][1] = tx
  /\ \A i \in 1..Len(pending[s]) : pending'[s][i + 1] = pending[s][i]
  /\ \A r \in Nodes \ {s} : pending'[r] = pending[r]
  /\ pos' \in [Nodes -> Nat]
  /\ from' \in [Nodes -> Nat]
  /\ UNCHANGED <<admitted, pc, tries, tasks, holders, env>>

\* Reorg, in the terms of the sequences it changes.
LEMMA ReorgAsSequences ==
  ASSUME IInv, Reorg
  PROVE  \E s, tx : DroppedAs(s, tx)
<1>0. /\ chain \in Seq(Block) /\ Len(chain) \in Nat
      /\ pending \in [Nodes -> Seq(Transaction)]
      /\ pos \in [Nodes -> Nat] /\ from \in [Nodes -> Nat] /\ Genesis \in Nodes
  BY Constants DEF IInv, TypeInv
<1>. DEFINE b == chain[Len(chain)]
            tx == Tx(b.kind, b.node, b.try)
            s == Sender(b)
<1>1. Len(chain) > 0 /\ Len(chain) \in 1..Len(chain)
  BY <1>0 DEF Reorg
<1>2. b.kind \in Kinds /\ b.node \in Nodes /\ b.try \in Nat
  BY <1>1, BlockOnChain DEF IInv
<1>3. tx \in Transaction /\ tx.kind = b.kind /\ tx.node = b.node
  <2>. HIDE DEF b
  <2>. QED  BY <1>2 DEF Tx, Transaction
<1>4. s \in Nodes /\ (s # Genesis => tx.kind = "request")
  BY <1>0, <1>2, <1>3 DEF Sender
<1>5. /\ pending' = [pending EXCEPT ![s] = <<tx>> \o @]
      /\ chain' = SubSeq(chain, 1, Len(chain) - 1)
      /\ UNCHANGED <<admitted, pc, tries, tasks, holders, env>>
  BY DEF Reorg
<1>6. pos' \in [Nodes -> Nat] /\ from' \in [Nodes -> Nat]
  <2>1. /\ pos' = [n \in Nodes |-> IF pos[n] = Len(chain) THEN pos[n] - 1 ELSE pos[n]]
        /\ from' = [n \in Nodes |-> IF from[n] = Len(chain) THEN from[n] - 1 ELSE from[n]]
    BY DEF Reorg
  <2>. QED  BY <1>0, <1>1, <2>1
<1>7. /\ chain' \in Seq(Block) /\ Len(chain') = Len(chain) - 1
      /\ \A i \in 1..Len(chain') : chain'[i] = chain[i]
  BY <1>0, <1>1, <1>5
<1>. HIDE DEF b, tx, s
<1>8. /\ pending'[s] = <<tx>> \o pending[s] /\ pending[s] \in Seq(Transaction)
      /\ \A r \in Nodes \ {s} : pending'[r] = pending[r]
  BY <1>0, <1>4, <1>5
<1>9. /\ pending'[s] \in Seq(Transaction)
      /\ Len(pending'[s]) = Len(pending[s]) + 1
      /\ pending'[s][1] = tx
      /\ \A i \in 1..Len(pending[s]) : pending'[s][i + 1] = pending[s][i]
  <2>1. <<tx>> \in Seq(Transaction) /\ Len(<<tx>>) = 1 /\ <<tx>>[1] = tx
    BY <1>3
  <2>. QED  BY <1>3, <1>8, <2>1
<1>10. pending' \in [Nodes -> Seq(Transaction)]
  BY <1>0, <1>4, <1>5, <1>9
<1>11. tx.kind = chain[Len(chain)].kind /\ tx.node = chain[Len(chain)].node
  BY <1>3 DEF b
<1>12. DroppedAs(s, tx)
  BY <1>1, <1>3, <1>4, <1>5, <1>6, <1>7, <1>8, <1>9, <1>10, <1>11 DEF DroppedAs
<1>. QED  BY <1>12

\* A reorg keeps the invariant: the announcement it drops is mined again before
\* any response.
LEMMA ReorgPreserves ==
  ASSUME IInv, Reorg
  PROVE  IInv'
<1>0. /\ Len(chain) \in Nat /\ Genesis \in Nodes
      /\ \A r \in Nodes : Len(pending[r]) \in Nat
  BY Constants DEF IInv, TypeInv
<1>1. PICK s, tx : DroppedAs(s, tx)
  BY ReorgAsSequences
<1>2. Len(chain) \in 1..Len(chain) /\ Len(chain') \in Nat
  BY <1>0, <1>1 DEF DroppedAs
<1>3. \A k \in 0..Len(chain') : Founded(k)' <=> Founded(k)
  <2>1. ASSUME NEW k \in 0..Len(chain') PROVE k \in Nat /\ \A i \in 1..k : chain'[i] = chain[i]
    <3>1. k \in Nat /\ 1..k \subseteq 1..Len(chain')
      BY <1>2
    <3>2. \A i \in 1..Len(chain') : chain'[i] = chain[i]
      BY <1>1 DEF DroppedAs
    <3>. QED  BY <3>1, <3>2
  <2>. QED  BY <2>1, FoundedKept
<1>4. TypeInv'
  BY <1>1 DEF IInv, TypeInv, DroppedAs
<1>5. ResponsesSucceed'
  <2>1. SUFFICES ASSUME NEW i \in 1..Len(chain'), chain'[i].kind = "respond"
                 PROVE  chain'[i].ok /\ chain'[i].node \in Verified /\ Founded(i - 1)'
    BY DEF ResponsesSucceed, Founded
  <2>2. chain'[i] = chain[i] /\ i \in 1..Len(chain) /\ i - 1 \in 0..Len(chain')
    BY <1>0, <1>1, <1>2, <2>1 DEF DroppedAs
  <2>. QED  BY <1>3, <2>1, <2>2 DEF IInv, ResponsesSucceed
<1>6. Founded(Len(chain)) => Founded(Len(chain))' \/ tx.kind = "init"
  <2>1. SUFFICES ASSUME NEW j \in 1..Len(chain), chain[j].kind = "init", chain[j].ok
                 PROVE  Founded(Len(chain))' \/ tx.kind = "init"
    BY DEF Founded
  <2>2. j \in 1..Len(chain') \/ j = Len(chain)
    BY <1>0, <1>1, <2>1 DEF DroppedAs
  <2>3. CASE j \in 1..Len(chain')
    <3>1. chain'[j] = chain[j]
      BY <1>1, <2>3 DEF DroppedAs
    <3>. QED  BY <2>1, <2>3, <3>1 DEF Founded
  <2>4. CASE j = Len(chain)
    BY <1>1, <2>1, <2>4 DEF DroppedAs
  <2>. QED  BY <2>2, <2>3, <2>4
<1>7. ResponsesWillSucceed'
  <2>1. SUFFICES ASSUME NEW i \in 1..Len(pending'[Genesis]), pending'[Genesis][i].kind = "respond"
                 PROVE  /\ pending'[Genesis][i].node \in Verified
                        /\ \/ Founded(Len(chain))'
                           \/ \E j \in 1..(i - 1) : pending'[Genesis][j].kind = "init"
    BY DEF ResponsesWillSucceed, Founded
  <2>2. CASE s # Genesis
    <3>1. pending'[Genesis] = pending[Genesis] /\ tx.kind # "init"
      BY <1>0, <1>1, <2>2 DEF DroppedAs
    <3>. QED  BY <1>6, <2>1, <3>1 DEF IInv, ResponsesWillSucceed
  <2>3. CASE s = Genesis /\ i = 1
    <3>1. tx.kind = "respond" /\ pending'[Genesis][i] = tx
      BY <1>1, <2>1, <2>3 DEF DroppedAs
    <3>2. chain[Len(chain)].node \in Verified /\ Founded(Len(chain) - 1)
      BY <1>1, <1>2, <3>1 DEF IInv, ResponsesSucceed, DroppedAs
    <3>3. Founded(Len(chain'))
      BY <1>1, <3>2 DEF DroppedAs
    <3>4. Founded(Len(chain))'
      BY <1>1, <3>3 DEF Founded, DroppedAs
    <3>. QED  BY <1>1, <3>1, <3>2, <3>4 DEF DroppedAs
  <2>4. CASE s = Genesis /\ i # 1
    <3>1. /\ i - 1 \in 1..Len(pending[Genesis]) /\ (i - 1) + 1 = i
      <4>1. Len(pending'[Genesis]) = Len(pending[Genesis]) + 1
        BY <1>1, <2>4 DEF DroppedAs
      <4>. QED  BY <1>0, <2>1, <2>4, <4>1
    <3>2. pending'[Genesis][i] = pending[Genesis][i - 1]
      BY <1>1, <2>4, <3>1 DEF DroppedAs
    <3>3. /\ pending[Genesis][i - 1].node \in Verified
          /\ \/ Founded(Len(chain))
             \/ \E j \in 1..((i - 1) - 1) : pending[Genesis][j].kind = "init"
      BY <2>1, <3>1, <3>2 DEF IInv, ResponsesWillSucceed
    <3>4. ASSUME NEW j \in 1..((i - 1) - 1), pending[Genesis][j].kind = "init"
          PROVE  \E k \in 1..(i - 1) : pending'[Genesis][k].kind = "init"
      <4>1. j \in 1..Len(pending[Genesis]) /\ j + 1 \in 1..(i - 1)
        BY <1>0, <3>1, <3>4
      <4>2. pending'[Genesis][j + 1] = pending[Genesis][j]
        BY <1>1, <2>4, <4>1 DEF DroppedAs
      <4>. QED  BY <3>4, <4>1, <4>2
    <3>5. ASSUME tx.kind = "init"
          PROVE  \E k \in 1..(i - 1) : pending'[Genesis][k].kind = "init"
      <4>1. 1 \in 1..(i - 1)
        BY <1>0, <3>1
      <4>. QED  BY <1>1, <2>4, <3>5, <4>1 DEF DroppedAs
    <3>. QED  BY <1>6, <3>2, <3>3, <3>4, <3>5
  <2>. QED  BY <2>2, <2>3, <2>4
<1>8. AnnouncedByCreator'
  <2>1. \A i \in 1..Len(chain') :
          chain'[i].kind = "init" => chain'[i].node = Genesis /\ Genesis \in holders
    <3>1. \A i \in 1..Len(chain') : i \in 1..Len(chain) /\ chain'[i] = chain[i]
      BY <1>0, <1>1 DEF DroppedAs
    <3>. QED  BY <3>1 DEF IInv, AnnouncedByCreator
  <2>2. ASSUME NEW i \in 1..Len(pending'[Genesis]), pending'[Genesis][i].kind = "init"
        PROVE  pending'[Genesis][i].node = Genesis /\ Genesis \in holders
    <3>1. CASE s # Genesis
      BY <1>0, <1>1, <2>2, <3>1 DEF DroppedAs, IInv, AnnouncedByCreator
    <3>2. CASE s = Genesis /\ i = 1
      BY <1>1, <1>2, <2>2, <3>2 DEF DroppedAs, IInv, AnnouncedByCreator
    <3>3. CASE s = Genesis /\ i # 1
      <4>1. i - 1 \in 1..Len(pending[Genesis]) /\ (i - 1) + 1 = i
        BY <1>0, <1>1, <2>2, <3>3 DEF DroppedAs
      <4>2. pending'[Genesis][i] = pending[Genesis][i - 1]
        BY <1>1, <3>3, <4>1 DEF DroppedAs
      <4>. QED  BY <2>2, <4>1, <4>2 DEF IInv, AnnouncedByCreator
    <3>. QED  BY <3>1, <3>2, <3>3
  <2>. QED  BY <1>1, <2>1, <2>2 DEF DroppedAs, IInv, AnnouncedByCreator
<1>9. OthersRequest'
  <2>1. SUFFICES ASSUME NEW r \in Nodes \ {Genesis}, NEW i \in 1..Len(pending'[r])
                 PROVE  pending'[r][i].kind = "request"
    BY DEF OthersRequest
  <2>2. CASE r # s
    <3>1. pending'[r] = pending[r]
      BY <1>1, <2>1, <2>2 DEF DroppedAs
    <3>. QED  BY <2>1, <3>1 DEF IInv, OthersRequest
  <2>3. CASE r = s /\ i = 1
    BY <1>1, <2>1, <2>3 DEF DroppedAs
  <2>4. CASE r = s /\ i # 1
    <3>1. i - 1 \in 1..Len(pending[r]) /\ (i - 1) + 1 = i
      BY <1>0, <1>1, <2>1, <2>4 DEF DroppedAs
    <3>2. pending'[r][i] = pending[r][i - 1]
      BY <1>1, <2>4, <3>1 DEF DroppedAs
    <3>. QED  BY <2>1, <3>1, <3>2 DEF IInv, OthersRequest
  <2>. QED  BY <2>2, <2>3, <2>4
<1>10. AdmissionsRecorded'
  <2>1. \A i \in 1..Len(chain') : i \in 1..Len(chain) /\ chain'[i] = chain[i]
    BY <1>0, <1>1 DEF DroppedAs
  <2>. QED  BY <1>1, <2>1 DEF DroppedAs, IInv, AdmissionsRecorded
<1>. QED  BY <1>1, <1>4, <1>5, <1>7, <1>8, <1>9, <1>10 DEF IInv, DroppedAs

-----------------------------------------------------------------------------
\* The invariant and the refinement.

\* Every step keeps the invariant.
LEMMA NextIInv == IInv /\ [Next]_vars => IInv'
<1>1. SUFFICES ASSUME IInv, [Next]_vars PROVE IInv'
  OBVIOUS
<1>2. env.nodes \subseteq Nodes /\ Genesis \in Nodes
  BY <1>1, Constants DEF IInv, TypeInv
<1>3. CASE Reorg
  BY <1>1, <1>3, ReorgPreserves
<1>4. CASE GenerateSecret
  BY <1>1, <1>2, <1>4, GuardianOffChain
<1>5. CASE InitializeSecret
  BY <1>1, <1>2, <1>5, SendPreserves
<1>6. ASSUME NEW n \in env.nodes,
             Mine(n) \/ GuardianStep(n) \/ AwaitTimesOut(n) \/ PublishSecretResponse(n) \/ P2P(n)
      PROVE  IInv'
  <2>1. n \in Nodes
    BY <1>2, <1>6
  <2>2. CASE Mine(n)
    BY <1>1, <2>1, <2>2, MinePreserves
  <2>3. CASE RequestSecret(n) \/ PublishSecretResponse(n)
    BY <1>1, <2>1, <2>3, SendPreserves
  <2>4. CASE CheckEnclaveStatus(n) \/ Receipt(n) \/ AwaitSecret(n) \/ AwaitTimesOut(n)
    BY <1>1, <2>1, <2>4, GuardianOffChain
  <2>5. CASE SubmitL1Block(n) \/ P2P(n)
    BY <1>1, <2>1, <2>5, HostOffChain
  <2>. QED  BY <1>6, <2>2, <2>3, <2>4, <2>5 DEF GuardianStep
<1>7. CASE UNCHANGED vars
  <2>1. UNCHANGED <<chain, pending, admitted, holders, pos, from, tries, tasks, pc, env>>
    BY <1>7 DEF vars, l1, guardian, enclaves, budget
  <2>2. TypeInv'
    BY <1>1, <2>1 DEF IInv, TypeInv
  <2>. QED  BY <1>1, <2>1, <2>2, OffChain DEF IInv, AnnouncedByCreator, AdmissionsRecorded
<1>. QED  BY <1>1, <1>3, <1>4, <1>5, <1>6, <1>7 DEF Next

\* Whatever is lost, late or reorganised, the invariant holds.
THEOREM Invariance == Spec => []IInv
<1>1. Init => IInv
  BY InitIInv
<1>2. IInv /\ [Next]_vars => IInv'
  BY NextIInv
<1>. QED  BY <1>1, <1>2, PTL DEF Spec

\* Every step of the exchange is a step of Membership or leaves it alone.
LEMMA NextRefines == IInv /\ [Next]_vars => [Members!MemberNext]_Members!memberVars
<1>1. SUFFICES ASSUME IInv, [Next]_vars
               PROVE  Members!MemberNext \/ UNCHANGED <<holders, admitted>>
  BY DEF Members!memberVars
<1>2. env.nodes \subseteq Nodes /\ Genesis \in Nodes /\ Verified \subseteq Nodes
  BY <1>1, Constants DEF IInv, TypeInv
<1>3. CASE Reorg \/ InitializeSecret
  BY <1>3 DEF Reorg, InitializeSecret, enclaves
<1>4. CASE GenerateSecret
  <2>1. holders = {} /\ holders' = {Genesis} /\ admitted' = admitted
    BY <1>1, <1>4 DEF GenerateSecret, StoreSecret, l1, IInv, AdmissionsRecorded
  <2>. QED  BY <2>1 DEF Members!MemberNext, Members!Create
<1>5. ASSUME NEW n \in env.nodes, Mine(n)
      PROVE  Members!MemberNext \/ UNCHANGED <<holders, admitted>>
  <2>0. n \in Nodes
    BY <1>2, <1>5
  <2>1. /\ holders' = holders
        /\ \/ admitted' = admitted
           \/ admitted' = admitted \cup {Genesis} /\ Genesis \in holders
           \/ \E m \in Verified : admitted' = admitted \cup {m} /\ Genesis \in admitted
    BY <1>1, <1>5, <2>0, MinePreserves
  <2>2. ASSUME admitted' = admitted \cup {Genesis}, Genesis \in holders
        PROVE  Members!MemberNext \/ UNCHANGED <<holders, admitted>>
    <3>1. CASE admitted = {}
      BY <2>1, <2>2, <3>1 DEF Members!MemberNext, Members!Found
    <3>2. CASE admitted # {}
      BY <1>1, <2>1, <2>2, <3>2 DEF IInv, AdmissionsRecorded
    <3>. QED  BY <3>1, <3>2
  <2>3. ASSUME NEW m \in Verified, admitted' = admitted \cup {m}, Genesis \in admitted
        PROVE  Members!MemberNext \/ UNCHANGED <<holders, admitted>>
    <3>1. CASE m \in admitted
      BY <2>1, <2>3, <3>1
    <3>2. CASE m \notin admitted
      BY <1>2, <2>1, <2>3, <3>2 DEF Members!MemberNext, Members!Admit
    <3>. QED  BY <3>1, <3>2
  <2>. QED  BY <2>1, <2>2, <2>3
<1>6. ASSUME NEW n \in env.nodes, AwaitSecret(n)
      PROVE  Members!MemberNext \/ UNCHANGED <<holders, admitted>>
  <2>1. n \in Nodes /\ admitted' = admitted
    BY <1>2, <1>6 DEF AwaitSecret, l1
  <2>2. CASE SecretResponse(chain[from[n] + 1], n) /\ StoreSecret(n)
    <3>1. from[n] + 1 \in 1..Len(chain)
      <4>1. from[n] < Len(chain)
        BY <1>6 DEF AwaitSecret
      <4>2. from[n] \in Nat /\ chain \in Seq(Block)
        BY <1>1, <2>1 DEF IInv, TypeInv
      <4>3. Len(chain) \in Nat
        BY <4>2
      <4>. QED  BY <4>1, <4>2, <4>3
    <3>2. n \in admitted
      BY <1>1, <2>2, <3>1, ResponseMined DEF SecretResponse
    <3>3. holders' = holders \cup {n}
      BY <2>2 DEF StoreSecret
    <3>4. CASE n \in holders
      BY <2>1, <3>3, <3>4
    <3>5. CASE n \notin holders
      BY <2>1, <3>2, <3>3, <3>5 DEF Members!MemberNext, Members!Join
    <3>. QED  BY <3>4, <3>5
  <2>3. CASE UNCHANGED holders
    BY <2>1, <2>3
  <2>. QED  BY <1>6, <2>2, <2>3 DEF AwaitSecret
<1>7. ASSUME NEW n \in env.nodes,
             \/ CheckEnclaveStatus(n) \/ RequestSecret(n) \/ Receipt(n) \/ SubmitL1Block(n)
             \/ AwaitTimesOut(n) \/ PublishSecretResponse(n) \/ P2P(n)
      PROVE  UNCHANGED <<holders, admitted>>
  BY <1>7 DEF CheckEnclaveStatus, RequestSecret, Receipt, SubmitL1Block, AwaitTimesOut,
       PublishSecretResponse, P2P, FetchLatestPeersList, UpdatePeers, l1, enclaves
<1>8. CASE UNCHANGED vars
  BY <1>8 DEF vars, l1, enclaves
<1>. QED  BY <1>1, <1>3, <1>4, <1>5, <1>6, <1>7, <1>8 DEF Next, GuardianStep

(***************************************************************************)
(* The exchange implements Membership: the secret is created once, only    *)
(* nodes whose report verifies are ever attested by the contract, and only *)
(* attested nodes obtain the secret, through lost answers, timeouts,       *)
(* repeated requests and reorganisations of the L1.                        *)
(***************************************************************************)
THEOREM Refinement == Spec => RefinesMembership
<1>1. Init => Members!MemberInit
  BY DEF Init, Members!MemberInit
<1>2. IInv /\ [Next]_vars => [Members!MemberNext]_Members!memberVars
  BY NextRefines
<1>. QED  BY <1>1, <1>2, Invariance, PTL DEF Spec, RefinesMembership, Members!MemberSpec
===============================================================================
