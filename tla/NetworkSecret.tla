---------------------------- MODULE NetworkSecret ----------------------------
(***************************************************************************)
(* How the nodes of the network come to share one secret.  The genesis     *)
(* host has its enclave generate it and announces this to the management   *)
(* contract; every other host publishes a request with the attestation     *)
(* report of its enclave, the enclaves answer the requests they meet in L1 *)
(* blocks, the genesis host publishes those answers, and the requester     *)
(* waits for its own (host/enclave/guardian.go, host/l1/publisher.go,      *)
(* enclave/components/shared_secret_process.go,                            *)
(* contracts/src/management/ManagementContract.sol).  With each answer the *)
(* hosts refresh their list of peers (host/p2p/p2p.go).                    *)
(*                                                                         *)
(* The L1 is a chain of blocks of one transaction that may drop its last   *)
(* block; a dropped transaction goes back to its sender's queue, and the   *)
(* transactions of one sender are mined in the order of their nonces.      *)
(* publishTransaction is what module L1Publisher shows of it: it fails     *)
(* before the broadcast, or returns once the transaction is mined.         *)
(***************************************************************************)
EXTENDS Naturals, Sequences, FiniteSets

CONSTANTS
  Nodes,         \* the hosts, each with its enclave
  Genesis,       \* the host configured with IsGenesis
  Verified,      \* the nodes whose attestation report verifies
  Environments   \* what may go wrong: faults and how often

ASSUME NetworkSecretAssumption ==
  /\ Genesis \in Verified
  /\ Verified \subseteq Nodes
  /\ \A e \in Environments :
       /\ Genesis \in e.nodes /\ e.nodes \subseteq Nodes  \* those that run
       /\ e.failures \in Nat  \* publications and lookups that fail
       /\ e.timeouts \in Nat  \* waits that end although an answer is coming
       /\ e.reorgs \in Nat    \* L1 blocks that are dropped
       /\ e.faults \subseteq
            {"init",     \* the announcement of the secret fails
             "lost",     \* an answer or a request is not published
             "enclave",  \* an enclave does not take the secret
             "refresh",  \* a refresh of the peers gives up
             "overlap"}  \* a refresh starts before the last one has ended

VARIABLES
  chain,     \* the canonical L1 chain, one transaction per block
  pending,   \* the transactions each sender has broadcast, by nonce
  holders,   \* the nodes whose enclave has stored the secret
  attKeys,   \* the attested keys each enclave has stored
  pos,       \* how many blocks each host has fed to its enclave
  pc, from,  \* where a guardian is, and awaitFromBlock
  tries,     \* how many requests each node has published
  tasks,     \* answers the genesis host has yet to publish, per requester
  due, got,  \* refreshes of the peers: not yet fetched, and fetched lists
  peers,     \* Service.peerAddresses
  admitted,  \* nodes attested by some block ever mined (history)
  failures, timeouts, reorgs,
  env        \* which of Environments this is

l1 == <<chain, pending, admitted>>
guardian == <<pc, from, tries, tasks>>
p2p == <<due, got, peers>>
enclaves == <<holders, attKeys, pos>>
budget == <<failures, timeouts, reorgs, env>>
vars == <<l1, guardian, p2p, enclaves, budget>>

Init ==
  /\ chain = << >>
  /\ pending = [n \in Nodes |-> << >>]
  /\ holders = {}
  /\ attKeys = [n \in Nodes |-> {}]
  /\ pos = [n \in Nodes |-> 0]
  /\ pc = [n \in Nodes |-> "idle"]
  /\ from = [n \in Nodes |-> 0]
  /\ tries = [n \in Nodes |-> 0]
  /\ tasks = [n \in Nodes |-> 0]
  /\ got = [n \in Nodes |-> {}]
  /\ peers = [n \in Nodes |-> {}]
  /\ admitted = {}
  /\ failures = 0 /\ timeouts = 0 /\ reorgs = 0
  /\ env \in Environments
  /\ due = [n \in Nodes |-> IF n \in env.nodes THEN 1 ELSE 0]

----------------------------------------------------------------------------
(* The management contract: the state after a chain, and what it reverts. *)

Mined(kind) == {i \in DOMAIN chain : chain[i].kind = kind}

\* attested, which is also what hostAddresses holds once duplicates are removed.
Attested == {chain[i].node : i \in {j \in Mined("init") \cup Mined("respond") : chain[j].ok}}

\* The requires of InitializeNetworkSecret, RequestNetworkSecret and
\* RespondNetworkSecret.
Accepts(tx) ==
  CASE tx.kind = "init" -> \A i \in Mined("init") : ~chain[i].ok
    [] tx.kind = "request" -> TRUE
    [] tx.kind = "respond" -> Genesis \in Attested

Tx(kind, n, try) == [kind |-> kind, node |-> n, try |-> try]

\* A miner includes the next transaction of a sender.
Mine(s) ==
  /\ pending[s] /= << >>
  /\ LET tx == Head(pending[s])
         ok == Accepts(tx)
     IN /\ chain' = Append(chain, [kind |-> tx.kind, node |-> tx.node, try |-> tx.try, ok |-> ok])
        /\ admitted' = IF ok /\ tx.kind /= "request" THEN admitted \cup {tx.node} ELSE admitted
  /\ pending' = [pending EXCEPT ![s] = Tail(@)]
  /\ UNCHANGED <<guardian, p2p, enclaves, budget>>

Sender(tx) == IF tx.kind = "request" THEN tx.node ELSE Genesis

\* The last block is orphaned.  A host or an enclave that had read it goes on
\* from the last block it shares with the canonical chain.
Reorg ==
  /\ reorgs < env.reorgs
  /\ chain /= << >>
  /\ LET b == chain[Len(chain)]
         Back(p) == [n \in Nodes |-> IF p[n] = Len(chain) THEN p[n] - 1 ELSE p[n]]
     IN /\ pending' = [pending EXCEPT ![Sender(b)] = <<Tx(b.kind, b.node, b.try)>> \o @]
        /\ pos' = Back(pos)
        /\ from' = Back(from)
  /\ chain' = SubSeq(chain, 1, Len(chain) - 1)
  /\ reorgs' = reorgs + 1
  /\ UNCHANGED <<admitted, pc, tries, tasks, p2p, holders, attKeys, failures, timeouts, env>>

Broadcast(s, tx) == pending' = [pending EXCEPT ![s] = Append(@, tx)]

\* A call returns an error: the L1, or the enclave, does not answer.
Fail(fault) ==
  /\ fault \in env.faults
  /\ failures < env.failures
  /\ failures' = failures + 1
  /\ UNCHANGED <<timeouts, reorgs, env>>

----------------------------------------------------------------------------
\* VerifyReport and VerifyIdentity, of the report that n's enclave makes.
AttestationVerifies(n) == n \in Verified

(* The main loop of the guardian while the enclave awaits its secret. *)

Goto(n, place) == pc' = [pc EXCEPT ![n] = place]

\* The status of the enclave is no longer AwaitingSecret.
CheckEnclaveStatus(n) ==
  /\ pc[n] = "idle"
  /\ n \in holders
  /\ Goto(n, "running")
  /\ UNCHANGED <<l1, from, tries, tasks, p2p, enclaves, budget>>

StoreSecret(n) == holders' = holders \cup {n}

\* generateAndBroadcastSecret up to the publication: the enclave stores it.
GenerateSecret ==
  /\ pc[Genesis] = "idle"
  /\ Genesis \notin holders
  /\ StoreSecret(Genesis)
  /\ Goto(Genesis, "generated")
  /\ UNCHANGED <<l1, from, tries, tasks, p2p, attKeys, pos, budget>>

InitializeSecret ==
  /\ pc[Genesis] = "generated"
  /\ \/ /\ Broadcast(Genesis, Tx("init", Genesis, 0))
        /\ Goto(Genesis, "sending")
        /\ UNCHANGED <<failures, timeouts, reorgs, env>>
     \/ /\ Fail("init")
        /\ Goto(Genesis, "idle")
        /\ UNCHANGED pending
  /\ UNCHANGED <<chain, admitted, from, tries, tasks, p2p, enclaves>>

\* How many requests of a node the faults of the environment can call for.
MaxRequests == 1 + env.timeouts + env.failures + env.reorgs

\* RequestSecret records the head of the L1 before it publishes the request.
RequestSecret(n) ==
  /\ n /= Genesis
  /\ pc[n] = "idle"
  /\ n \notin holders
  /\ tries[n] < MaxRequests
  /\ \/ /\ from' = [from EXCEPT ![n] = Len(chain)]
        /\ tries' = [tries EXCEPT ![n] = @ + 1]
        /\ Broadcast(n, Tx("request", n, tries[n] + 1))
        /\ Goto(n, "sending")
        /\ UNCHANGED <<failures, timeouts, reorgs, env>>
     \/ /\ Fail("lost")
        /\ UNCHANGED <<pc, from, tries, pending>>
  /\ UNCHANGED <<chain, admitted, tasks, p2p, enclaves>>

\* Mutant: the head to wait from is recorded once the request is mined, when
\* the answer may be there already.
ReceiptRecordsHead(n) ==
  /\ pc[n] = "sending"
  /\ \E i \in DOMAIN chain :
       /\ chain[i].node = n
       /\ chain[i].kind \in {"init", "request"}
       /\ chain[i].try = tries[n]
       /\ Goto(n, IF chain[i].kind = "init" THEN "running" ELSE "await")
  /\ from' = [from EXCEPT ![n] = Len(chain)]
  /\ UNCHANGED <<l1, tries, tasks, p2p, enclaves, budget>>

\* publishTransaction finds the receipt of the announcement or of the request.
Receipt(n) ==
  /\ pc[n] = "sending"
  /\ \E i \in DOMAIN chain :
       /\ chain[i].node = n
       /\ chain[i].kind \in {"init", "request"}
       /\ chain[i].try = tries[n]
       /\ Goto(n, CASE ~chain[i].ok -> "idle"
                    [] chain[i].kind = "init" -> "running"
                    [] OTHER -> "await")
  /\ UNCHANGED <<l1, from, tries, tasks, p2p, enclaves, budget>>

\* A refresh may start: in time, the one before has ended.
MayRefresh(n) == "overlap" \in env.faults \/ (due[n] = 0 /\ got[n] = {})

\* ExtractSecretResponses: the block holds a response to this host.
SecretResponse(b, n) == b.kind = "respond" /\ b.node = n

\* One attempt of the wait of provideSecret: the next block is searched for a
\* response to this host, whatever the receipt of that transaction says.  When
\* InitEnclave fails, the search goes on after the block.
AwaitSecret(n) ==
  /\ pc[n] = "await"
  /\ from[n] < Len(chain)
  /\ LET b == chain[from[n] + 1] IN
       \/ /\ SecretResponse(b, n)
          /\ MayRefresh(n)
          /\ StoreSecret(n)      \* InitEnclave
          /\ Goto(n, "running")
          /\ due' = [due EXCEPT ![n] = @ + 1]
          /\ UNCHANGED <<from, failures>>
       \/ /\ IF SecretResponse(b, n) THEN Fail("enclave") ELSE UNCHANGED failures
          /\ from' = [from EXCEPT ![n] = @ + 1]
          /\ UNCHANGED <<holders, pc, due>>
  /\ UNCHANGED <<l1, tries, tasks, got, peers, attKeys, pos, timeouts, reorgs, env>>

\* An answer to a request of n is on its way, or what it needs on the L1 is.
Coming(n) ==
  \/ tasks[n] > 0
  \/ pending[n] /= << >>
  \/ pending[Genesis] /= << >>
  \/ \E i \in DOMAIN chain :
       /\ chain[i].node = n
       /\ \/ chain[i].kind = "respond" /\ i > from[n]
          \/ chain[i].kind = "request" /\ i > pos[Genesis] /\ AttestationVerifies(n)

\* _maxWaitForSecretResponse has passed.
AwaitTimesOut(n) ==
  /\ pc[n] = "await"
  /\ IF Coming(n)
       THEN timeouts < env.timeouts /\ timeouts' = timeouts + 1
       ELSE UNCHANGED timeouts
  /\ Goto(n, "idle")
  /\ UNCHANGED <<l1, from, tries, tasks, p2p, enclaves, failures, reorgs, env>>

----------------------------------------------------------------------------
(* Blocks fed to an enclave that has the secret, and what the host does    *)
(* with what comes back.                                                   *)

\* ProcessNetworkSecretMsgs: whose attested key a block makes an enclave store.
StoresKeyOf(b) ==
  b.ok /\ (b.kind = "init" \/ (b.kind = "request" /\ AttestationVerifies(b.node)))

\* Mutant: a request is answered whatever its report says.
AnswersAnyone(b) == b.ok /\ b.kind = "request"

\* ... and whose request it answers.
Answers(b) == b.ok /\ b.kind = "request" /\ AttestationVerifies(b.node)

\* submitL1Block: the enclave processes the block, the host refreshes its
\* peers if the block holds a response, and the genesis host starts to publish
\* the answers (unless the block cannot be stored in the host's database).
SubmitL1Block(n) ==
  /\ pc[n] = "running"
  /\ pos[n] < Len(chain)
  /\ LET b == chain[pos[n] + 1] IN
       /\ attKeys' = IF StoresKeyOf(b) THEN [attKeys EXCEPT ![n] = @ \cup {b.node}] ELSE attKeys
       /\ b.kind = "respond" => MayRefresh(n)
       /\ due' = IF b.kind = "respond" THEN [due EXCEPT ![n] = @ + 1] ELSE due
       /\ \/ /\ tasks' = IF n = Genesis /\ Answers(b) THEN [tasks EXCEPT ![b.node] = @ + 1] ELSE tasks
             /\ UNCHANGED <<failures, timeouts, reorgs, env>>
          \/ /\ n = Genesis /\ Answers(b)
             /\ Fail("lost")
             /\ UNCHANGED tasks
  /\ pos' = [pos EXCEPT ![n] = @ + 1]
  /\ UNCHANGED <<l1, pc, from, tries, got, peers, holders>>

\* The goroutine of PublishSecretResponse.  A transaction that would revert is
\* not sent: its gas cannot be estimated.
PublishSecretResponse(m) ==
  /\ tasks[m] > 0
  /\ tasks' = [tasks EXCEPT ![m] = @ - 1]
  /\ \/ /\ Accepts(Tx("respond", m, 0))
        /\ Broadcast(Genesis, Tx("respond", m, 0))
        /\ UNCHANGED <<failures, timeouts, reorgs, env>>
     \/ /\ ~Accepts(Tx("respond", m, 0))
        /\ UNCHANGED <<pending, failures, timeouts, reorgs, env>>
     \/ /\ Fail("lost")
        /\ UNCHANGED pending
  /\ UNCHANGED <<chain, admitted, pc, from, tries, p2p, enclaves>>

\* RefreshPeerList: the list is fetched from the contract ...
FetchLatestPeersList(n) ==
  /\ due[n] > 0
  /\ due' = [due EXCEPT ![n] = @ - 1]
  /\ \/ /\ got' = [got EXCEPT ![n] = @ \cup {Attested \ {n}}]
        /\ UNCHANGED <<failures, timeouts, reorgs, env>>
     \/ /\ Fail("refresh")
        /\ UNCHANGED got
  /\ UNCHANGED <<l1, guardian, peers, enclaves>>

\* ... and assigned under the lock.
UpdatePeers(n) ==
  /\ \E list \in got[n] :
       /\ peers' = [peers EXCEPT ![n] = list]
       /\ got' = [got EXCEPT ![n] = @ \ {list}]
  /\ UNCHANGED <<l1, guardian, due, enclaves, budget>>

----------------------------------------------------------------------------
GuardianStep(n) ==
  \/ CheckEnclaveStatus(n)
  \/ RequestSecret(n)
  \/ Receipt(n)
  \/ AwaitSecret(n)
  \/ SubmitL1Block(n)

P2P(n) == FetchLatestPeersList(n) \/ UpdatePeers(n)

Next ==
  \/ Reorg
  \/ GenerateSecret
  \/ InitializeSecret
  \/ \E n \in env.nodes : Mine(n) \/ GuardianStep(n) \/ AwaitTimesOut(n) \/ PublishSecretResponse(n) \/ P2P(n)

Spec == Init /\ [][Next]_vars

\* Miners include what is broadcast; goroutines run; a wait that nothing can
\* end times out.
Fairness ==
  /\ WF_vars(GenerateSecret)
  /\ WF_vars(InitializeSecret)
  /\ \A n \in Nodes :
       /\ WF_vars(Mine(n))
       /\ WF_vars(n \in env.nodes /\ GuardianStep(n))
       /\ WF_vars(AwaitTimesOut(n))
       /\ WF_vars(PublishSecretResponse(n))
       /\ WF_vars(P2P(n))

FairSpec == Spec /\ Fairness

----------------------------------------------------------------------------
(* Correctness. *)

\* The exchange implements Membership: the secret reaches only enclaves that
\* were admitted on the L1, and only enclaves with a verified report are.
Members == INSTANCE Membership WITH holders <- holders, admitted <- admitted
RefinesMembership == Members!MemberSpec

\* Once the genesis node is attested, every verified node ends up with the
\* secret, attested on the canonical chain and able to verify the sequencer's
\* signature, whatever requests or answers were lost or late; and where
\* refreshes of the peers do not overlap or give up, it knows all its peers.
EveryoneJoins ==
  <>[](Genesis \in Attested =>
         \A n \in Verified \cap env.nodes :
           /\ n \in holders
           /\ n \in Attested
           /\ Genesis \in attKeys[n]
           /\ {"overlap", "refresh"} \cap env.faults = {} => peers[n] = Attested \ {n})
=============================================================================
