# TLA+ models of the Obscuro node

Obscuro is an Ethereum layer 2. A node is two processes: an **enclave**, which
keeps the L1 view, the batches and the L2 state, and a **host**, which feeds the
enclave with L1 blocks and batches, publishes its output to the L1 and talks to
the other nodes. One node is the *sequencer*; it orders transactions into
batches. The others are *validators*; they execute the same batches. From time to
time the sequencer publishes its batches to the L1 in a *rollup*.

Every batch names an L1 block, its *L1 proof*. A batch counts only while that
block is on the canonical L1 chain, so an L1 fork takes batches away, and the
sequencer produces them again on the new branch. Most of what is hard in this
code follows from that.

## 1. The parts of the system

For each part: its state, the operations that change it, who it interacts with,
and what is hard about it. Paths are below `src/go/` unless they say otherwise.

### Enclave

| part | state | operations | hard behaviours |
|---|---|---|---|
| L1 block ingestion (`enclave/components/block_processor.go`, `common/gethutil`) | table `block`, its `is_canonical` column | `Process`, `tryAndInsertBlock`, `ingestBlock`, `LCA` | forks; blocks out of order or with missing ancestors; flags are patched, never recomputed; messages stored in a later transaction |
| Storage (`enclave/storage`) | tables `block`, `batch`, `exec_tx`, `l1_msg`, `rollup`; caches | `StoreBlock`, `StoreBatch`, `StoreExecutedBatch`, head queries | batch before its block; queries without an order; two writes per executed batch |
| Sequencer (`enclave/nodetype/sequencer.go`) | mempool, head batch | `CreateBatch`, `initGenesis`, `createNewHeadBatch`, `OnL1Fork`, `CreateRollup` | duplicating orphaned batches; crash between writes; `Crit` assertions that end the process |
| Validator (`enclave/nodetype/validator.go`) | the same tables | `SubmitBatch`, `ExecuteStoredBatches`, `OnL1Block` | two executors at once: `OnL1Block` runs outside `mainMutex` |
| Batch executor (`enclave/components/batch_executor.go`) | L2 state | `ComputeBatch`, `ExecuteBatch`, `CreateGenesisState` | both batches' L1 proofs must be on one fork |
| Rollups (`enclave/components/rollup_*.go`) | table `rollup` | `CreateRollup`, `CreateExtRollup`, `ProcessExtRollup` | a rollup must decompress to the same headers on a node that has seen some of its batches, or a reorg |
| Mempool and limiters (`enclave/mempool`, `enclave/limiters`) | pending transactions | `AddMempoolTx`, `CurrentTxs`, `RemoveTxs` | nonce order; a full batch |
| Shared secret (`enclave/components/shared_secret_process.go`, attestation) | the secret, attested keys | `InitEnclave`, `GenerateSecret`, `ProcessNetworkSecretMsgs` | requests and responses travel through L1 blocks |
| Cross chain (`enclave/crosschain`) | table `l1_msg` | `StoreCrossChainMessages`, `RetrieveInboundMessages`, synthetic transactions | every message delivered once per batch chain, across forks |
| Event subscriptions (`enclave/events`, and the stream of updates in `enclave.go`, `rpc_server.go`) | subscriptions, the callback for executed batches, a channel per stream | `AddSubscription`, `RemoveSubscription`, `OnBatchExecuted`, `StreamL2Updates` | a bounded channel filled under a mutex; streams that break and are replaced |
| RPC (`enclave/enclave.go`, `enclave/rpc`, `enclave/l2chain`, `enclave/evm`) | none of its own | queries, calls, gas estimates | reads only |

### Host

| part | state | operations | hard behaviours |
|---|---|---|---|
| Guardian (`host/enclave/guardian.go`) | `submitDataLock`, running flag | `mainLoop`, catch up, live blocks and batches, periodic batches and rollups, stream | live data races catch up; a lock per submission; enclave restarts |
| State tracker (`host/enclave/state.go`) | L1 and L2 heads of host and enclave, status | `OnProcessedBlock`, `OnReceivedBlock`, `OnEnclaveStatus` ... | status is recalculated from four heads that arrive in any order |
| L1 block repository (`host/l1/blockrepository.go`) | head | `FetchNextBlock`, `streamLiveBlocks` | L1 reorg between two lookups |
| L1 publisher (`host/l1/publisher.go`) | the wallet's nonce | `publishTransaction` and its callers | concurrent publishers share one nonce; failures roll it back |
| L2 batch repository (`host/l2`, `host/db`) | batch database, high watermark, in-flight request | `HandleBatches`, `FetchBatchBySeqNo`, `HandleBatchRequest` | lost, duplicated and reordered p2p messages |
| P2P (`host/p2p`) | peer list | broadcast, request, response | no delivery guarantee |
| Log events, filter API (`host/events`, `host/rpc/clientapi`) | a channel per subscription | `Subscribe`, `Unsubscribe`, `SendLogsToSubscribers` | a send under a mutex that the receiver's end needs; known to enclave and host in two steps |
| Host services, RPC (`host/host.go`, `host/rpc`) | service registry | start and stop order | - |

### L1 contracts and the rest

`src/contracts` holds the management contract (network secret, attested nodes,
rollups), and a message bus, a messenger and a bridge for each of the chains.
Contracts are rolled back with the L1 blocks or the batches that called them, and
each message must be stored and relayed once. The wallet extension
(`src/tools/walletextension`) stands between wallets and a node: it keeps the
viewing keys of its users in a database and an encrypted client per account in
memory, and no lock spans the steps of a request. The other `src/tools` (faucet,
explorers), `src/testnet`, `src/integration` and `go/node`, `go/obsclient`,
`go/wallet`, `go/ethadapter`, `go/config` are clients, deployment, test simulation
and plumbing.

## 2. The modules

| module | models | state | actions |
|---|---|---|---|
| `L1Blocks` | `common/gethutil`, `IsAncestor` | none | none: blocks as paths from the genesis block, `LCA` in closed form |
| `EnclaveStorage` | `enclave/storage` | tables `block` and `batch` with their flags | `StoreBlock`, `StoreBatch`, `StoreExecutedBatch`, head queries |
| `L1BlockProcessor` | `block_processor.go` | the blocks whose messages are stored | `IngestBlock`, `Process`, `ProcessFails` |
| `L1View` | what a canonical flag promises (abstract) | the same tables | flags recomputed from nothing |
| `L1Ingestion` | ingestion under any client | as above | blocks and batches in any order |
| `LCAWalk` | `LCA`, `IsAncestor` as the code writes them, recursively | that of `L1Ingestion` | that of `L1Ingestion` |
| `Sequencer` | `sequencer.go`, `SubmitL1Block`, `CreateBatch` | tables, mempool, what the call that holds `mainMutex` has left to do | one per database transaction, crash, restart |
| `Validator` | `validator.go`, `SubmitBatch`, `SubmitL1Block`, rollup consumption | tables, committed L2 states, the calls in progress | one per transaction or lock step of a call |
| `Rollup` | `rollup_producer.go`, `rollup_compression.go` | the sequencer's | the sequencer's; rollups are a function of its state |
| `L1Publisher` | `publisher.go`, `wallet.go` | nonce, calls, L1 pool and chain | one per L1 call of `publishTransaction` |
| `StateTracker` | `state.go` | none | handlers as functions on the tracker's record |
| `GuardianL1` | `guardian.go` (L1 half), `blockrepository.go` | L1, header stream, tracker, lock, goroutines, enclave head | one per unlocked step of a goroutine |
| `GuardianL2` | `guardian.go` (L2 half), `batchrepository.go`, `p2p.go` | messages, batch database, in-flight request, tracker, goroutines, enclave batches | one per message, handler step and main loop step |
| `Membership` | what the exchange of the secret promises (abstract) | who holds the secret, who was admitted | create, found, admit, join |
| `NetworkSecret` | `guardian.go` (secret), `publisher.go` (what is published), `shared_secret_process.go`, `ManagementContract.sol`, `p2p.go` (peer list) | L1 chain, pending transactions, secrets, attested keys, guardians, peer lists | one per publication, receipt, block fed, refresh; L1 block mined or dropped |
| `RollupPublication` | `guardian.go` (rollup loop), `rollup_producer.go`, `rolluplimiter.go`, `ManagementContract.sol` | L1 chain, pool, batches, where the loop is, nonce | the question, the rollup, its transaction, the receipt; reorganisation with duplicates |
| `Bridge` | `MessageBus.sol`, `CrossChainMessenger.sol`, the two bridges, `enclave/crosschain`, message part of `ComputeBatch` | contract state of every L1 block and every batch | L1 transactions, batches, reorganisation |
| `Transactions` | `service.go`, `p2p.go` (to the sequencer), `enclave/mempool`, `batchlimiter.go`, batch production | network, mempool, the batch in production, account nonces | send, arrive, select, produce, remove; loss, restart |
| `Gateway` | wallet extension: `wallet_extension.go`, `sqlite.go`, the two account managers, the container | tables, managers and clients, pending keys, the requests in progress | one per database call, map write or dialling of a request; failures, restart |
| `GatewayConnection` | `user_conn.go`, `account_manager.go` (subscribing), `encrypted_client.go` | websocket, subscription with its channels, goroutines | one per channel operation or write; the node's end, the user leaving |
| `LogSubscriptions` | `subscription_manager.go`, `enclave.go` and `rpc_server.go` (stream), `enclave_client.go`, `guardian.go` (stream), `host/events/logs.go`, `client_api_filter.go` | streams with their channels, callback, subscriptions of both sides, readers | one per channel operation and per step between two mutexes; breaks, restart |

`MC…` modules, and `LCAWalk` for `L1Ingestion`, give constants their values and
define the symmetry sets.
`Sequencer`, `Validator` and `L1Ingestion` extend `L1BlockProcessor`, which
extends `EnclaveStorage`: they run the same ingestion on the same tables.
`Rollup` extends `Sequencer`, and `GatewayConnection` extends `Gateway`. The two guardian modules share `StateTracker`.
`NetworkSecret` is shown to implement `Membership`, and `L1Ingestion` `L1View`, by
`INSTANCE … WITH` and a property that is the abstract specification.

How the code is abstracted:

- **A block is its path.** A hash commits to all ancestors, so a block is a
  sequence of labels from the L1 genesis block `<< >>`. Height, parent and
  ancestry are what they are in the code, and two blocks are equal exactly when
  their hashes are.
- **A batch is its sequence number**, with its immutable columns in the table:
  parent, height, L1 proof, transactions. `StoreBatch` refuses a second hash for
  a number. A duplicate of an orphan is a new batch with a new number.
- **One database transaction, one step.** Where the code makes two writes there
  is a state between them, in which a crash may come or another call may run.
- **SQL queries without an order** (`HeadBlocks`, `HeadBatches`) return any of
  the rows that qualify.
- **`logger.Crit`** ends the process; the model records which assertion fired.
- **`Environments`** say what may happen around the program: each one is a set of
  faults, with bounds. A behaviour picks one of them at the start and keeps it, so
  that one run covers a rough environment with small bounds and a smooth one with
  larger bounds. A property that needs a smooth one says so (`Undisturbed`,
  `L1Answers`, `Timely`, `env.reliable`). Counters in an environment are the faults left. "overlap"
  lifts a timing assumption: without it a block or a batch is handled before the
  next one comes, as it is when L1 blocks come every 12 seconds and handling
  takes a fraction of one.
- **A contract's state is a value** that a transaction maps to the next one; a
  transaction that reverts leaves it alone. `Bridge` keeps one with every L1 block
  and every batch, so a reorganisation takes back exactly what it takes back in
  the chain.

Executing a batch is a function of parent, L1 proof and transactions, so it is
abstracted to whether its inputs are there. Signatures, encryption, encodings,
time stamps, gas and logs are left out.

## 3. What is checked

Twelve runs, each one question. In the models of the enclave and the guardian,
blocks differ by two labels, so each block has at most two children: forks,
forks of forks, and the return to an abandoned branch are all possible at height
2 and 3. `CHECK_DEADLOCK FALSE` is set where the bounds on blocks, batches,
transactions or publications make the system stop; the run of `GuardianL1`, whose
main loop never ends, checks for deadlock.

### L1 ingestion

`l1_ingestion` (height 3, five blocks, one batch): `CanonicalChain`,
`BatchFlagsAgree`, the inductive invariant `L1Inv`, and `FlagsRefineView`: patching
flags fork by fork implements `L1View`. Five blocks of height 3 allow a fork at
each height and a second fork that crosses the first. All of this is also proved,
without bounds. In each of the states, `WalksMatchClosedForms` compares the
recursive walks of `LCA` and `IsAncestor`, over whatever blocks are stored, with
the closed forms of `L1Blocks` that the other modules use.

### Sequencer and rollups

`sequencer` runs the sequencer in two environments.

- L1 forks on a chain of three, which neither revive a branch nor orphan the
  genesis batch, and nothing else (`Undisturbed`). `SoftFinality` (an executed
  transaction stays in the head's chain, in order), `OneCanonicalPerHeight`, and
  `ChecksPass`: none of the sequencer's own checks fails, neither those that end
  the process nor the one that turns a batch away. Five batches allow a chain of
  two to be duplicated, or one batch to be duplicated twice and built on. Of every
  state between two calls, `RollupPossible` and `RecreatesBatches`: a rollup can be
  made, and recreates exactly its batches on a node that has all the batches before
  it and any of those in it that were not reorged.
- Every fault at once on a chain of two, with one crash. `BatchesFormTree` (with
  the L1 proofs of a batch and its parent on one fork) and `ExecutedOnce` hold in
  this one too.

### Validator

`validator`: two calls in progress without a crash, or one with a crash.
`ExecutedOnParentState`, `ExecutedInOrder`, `NothingExecutableLeft` (when no
call is in progress no batch is left that could be executed), and
`FailsOnlyOnLostMessages`: the only thing a crash can spoil for good is a block
whose messages were not stored. The batches come from `Ledgers`, which are
assumed to be what the sequencer's runs check (`IsLedger`): a fork, a duplicate
and a batch that shares its L1 block.

### Host

- `l1_publisher`: three publications, two attempts each; three are needed for a
  nonce to be taken between two others. In every environment `MinedOnce` and
  `SuccessIsMined`; with an L1 that answers (`L1Answers`) `EveryPublicationMined`.
- `guardian_l1`: forks on a chain of three with blocks handled in time, and a chain
  of two on which handlers overlap and blocks come late; in both a lost header, a
  block that cannot be fetched, a failing call or an outage. `HeadKept`: the enclave
  is not led off the head it has reached. `EventuallyInSync`: once the L1 stops, and
  the guardian has been told of its head, the enclave gets there and the guardian
  knows. Both leave out receipts that cannot be fetched and forks together with late
  handlers (`Timely`; section 6). Of the last block of the L1, when it cannot be
  fetched, the guardian is not told: its status stays in sync without the block until
  the next one comes. Three levels let the enclave be led up an abandoned branch of
  two blocks. With receipts that cannot be fetched the run checks that the system
  does not stop.
- `guardian_l2`: a validator that joins late, with `Cap` 1 and four batches, so
  that catching up takes two responses; live batches side by side, whose
  submission may fail; lost messages, failing calls and a restart. In all of
  them `TrackedBatchIsStored`; in the first also `LiveMeansFedIfTimely` and
  `CatchesUp`.

### Joining the network

`network_secret`: the genesis node with one that joins, or with one whose
attestation report does not verify. `RefinesMembership`: whatever is lost, late or
dropped with its L1 block, the exchange implements `Membership` - the secret
reaches only enclaves that were admitted on the L1, and only verified ones are
admitted. `EveryoneJoins`: once the genesis node is attested, every verified node
gets the secret, is attested, knows the sequencer's key and, where refreshes of
the peers do not overlap or give up, all its peers. Answers are per requester and
requesters do not interact, so one at a time is enough; the environments combine
one lost publication, one `InitEnclave` that fails or one wait that ends early with
one dropped block, which may be the request's, the answer's or the announcement's. `MaxRequests` bounds the
requests by the faults that can call for another.

### Rollups on L1

`rollup_publication`: the rollup loop asks for the last batch on L1, has a rollup
made, and publishes it, while the L1 reorganises in between and the sequencer
duplicates batches. `NoBatchMissing`: the rollups of the canonical L1 chain leave
no batch out up to `lastBatchSeqNo`, though question and transaction are far
apart, transactions are sent again, and dropped rollups come back after later
ones. It says nothing of a behaviour that has met both a late receipt and a
reorganisation (`Late`, `Reorganised`): section 6 has what happens then.
`EveryBatchRolledUp`: every batch that is old enough is in a rollup in the
end, where no receipt was late. The environments: two reorganisations, with batches
that have messages; batches of which not all fit; transactions the L1 loses; late
receipts with resending; a late receipt and a reorganisation.
`MaxL1` bounds empty blocks only, so that a rollup can always be mined, and
`MaxGenesisRollups` the rollups of the genesis batch, which is rolled up at every
tick as long as it is alone. Four batches are a genesis batch, one that is rolled
up, its duplicate, and one more.

### Messages and assets

`bridge`: one asset with deposits and withdrawals of one unit, relayed by anybody
in any order, removed and listed again, over L1 blocks of one transaction and
batches of one. `Conservation`: what the L1 bridge holds is what the wrapped tokens
stand for and what is under way in either direction. `InboundExactlyOnce`: the L2
bus holds the messages of the canonical L1 chain up to the head batch's L1 proof,
each once, also after a reorganisation that computes batches again over other
blocks; a duplicate, like any other batch, fails when one of its inbound messages
does. Five blocks and three new batches are enough for a deposit, its mint, a
withdrawal, its rollup and its payment; four blocks and four new batches for two
batches to be computed again after a reorganisation; the last environment starts
before the asset is listed.

### Transactions

`transactions`: two accounts whose transactions do not all fit into one batch, one
of them replaced by another with its nonce; an account without funds; a restart and
a loss. `NoTransactionLost`: a transaction whose hash the user has, and that can be
executed, is on its way, in the mempool or in the chain, though batches fail and
others arrive while one is in production. `EveryTransactionExecuted`: none starves
behind a full batch or a gap in another account's nonces. Both are asked where no
process restarts and no message is lost (`env.reliable`): the mempool is in memory.

### Logs

`log_subscriptions`: two clients with different accounts and filters subscribe and
leave while up to three batches are executed, by one executor, as on a sequencer, or
by two whose callbacks overlap, as on a validator: `OnBatchExecuted` takes the
registry's mutex for reading only. `LogsComplete`: a client gets only logs that are
for it; with one executor it gets them in order and each once, and without a gap
while the stream is up. A batch executed for a rollup comes without receipts and
streams no logs (`rolledUp`), so it is no gap. With two executors logs may be
streamed out of the batches' order, and those of a batch that both execute twice.
`SendsToOpenChannels`: nothing is sent on a channel that `Unsubscribe` closed,
which would end the host. `UpdatesReachHost`: whoever leaves, the stream goes on.
`UnsubscribeCompletes`: leaving ends, also when the enclave cannot be told. Channel
sizes of one make every operation that can block do so; where the stream breaks
the channel has room for everything, since a stream that ends with a full channel
is a deadlock of its own (section 6).

### Wallet extension

`gateway`: users join, register accounts and revoke, two requests at a time; the
default user submits viewing keys, two at a time; statements fail, the node is out
of reach, and the process restarts in the middle of a request. SQLite's foreign
keys are switched on for one connection of its pool only, so each statement may or
may not enforce them (`ForeignKeys`). `RestartKeepsClients`: what a restart would
load is what the gateway has in memory, and with good signatures, whichever requests
failed half way. Authenticating with the id of a deleted user may store an account
without its user; then the user's manager has nil clients only, and a restart loads
none of them. It asks nothing of a user for whom a revocation and another request
overlapped, or two submissions did (`drifted`): those can leave a manager without
its row. `ProxyFindsClient`: a request that one of a user's clients can get an
answer to is answered, though other clients have the wrong signature or the EVM ends
the request with an error for them, which a client returns as its own. It leaves out
a call without a sender that names one of the accounts in its data: that account is
guessed to be the sender, and no other client is tried. It leaves out users with a
nil client too, on which a request panics. A last environment has a user who connects
by websocket, subscribes to logs and makes other requests. `LogsReachUser`: while the
user stays and the node does not fail, the logs are written, all and in order.
`SubscriptionEnds`: when the connection ends in EOF, the subscription is cancelled and
its goroutines end, whatever is under way, unless the handler that reads from the
connection has panicked before, on a request for a nil client. A close frame and a
reset are in the model as well; nobody notices them (section 6). Two accounts make the choice of a client matter, two
requests overlap in every pair of steps, and three logs come in messages of one,
two or three.

### Fairness

Weak fairness only, of steps the program or the network takes by itself:

- `L1Publisher`: each call goes on (polling a receipt is a loop with a pause),
  and the L1 mines the next transaction of its pool.
- `GuardianL1`: the main loop, which ticks on a timer, the handlers, the header
  stream, and the enclave coming back. The L1 growing, forking, losing a header
  or failing a call is never fair; the environment bounds the failures.
- `GuardianL2`: the same, and messages that are not lost are delivered. That the
  in-flight request expires is fair, because it is the passing of time.
- `NetworkSecret`: miners include what is broadcast, guardians and the goroutines
  of answers and refreshes go on, and a wait that nothing can end times out.
- `RollupPublication`: the rollup ticker goes on, and the L1 mines blocks and what
  is broadcast.
- `Transactions`: the batch ticker goes on, what is on the network arrives, and a
  user sends each transaction once.
- `LogSubscriptions`: goroutines go on, and one that waits for a mutex gets it once
  it stays free. Nobody need subscribe or leave, and no batch need be executed.
- `GatewayConnection`: the goroutines that serve a connection go on. Nobody need
  send a request, leave or restart anything.

Drops, failures, losses, restarts and reorganisations are never fair.

## 4. What is proved

Eight of the modules are proofs, each about the module it is named after and for
every value of its constants; `L1BlockProcessor_proofs` is about `L1Ingestion`, and
its lemmas about blocks, walks and flags serve `Validator_proofs` and
`Sequencer_proofs` too. Each defines an inductive invariant, shows that `Init`
establishes it and that every action keeps it (one lemma or step for each action,
one step under it for each conjunct it can disturb), and derives the properties
from it.

| module | theorem | says |
|---|---|---|
| `L1BlockProcessor_proofs` | `IngestionInvariance` | `L1Inv` is an invariant |
| | `IngestionTypeCorrect` | the tables are well typed |
| | `CanonicalChainHolds` | the canonical blocks are one chain with a unique head |
| | `BatchFlagsAgreeHolds` | a batch is canonical exactly when its L1 proof is |
| | `NoHolesHolds` | above the genesis block no branch has a hole |
| | `IngestionRefinesView` | `L1Spec` implements `L1View`'s specification |
| `Sequencer_proofs` | `SequencerInvariance` | `SInv` is an invariant |
| | `BatchesFormTreeHolds` | the batches form a tree grown in sequence order, each on its parent's L1 branch |
| | `ChainInvariance` | `Chained` is an invariant |
| | `ExecutedOnceHolds` | no transaction is executed twice on a chain of batches |
| `Rollup_proofs` | `UndisturbedInvariance` | `UInv` holds while L1 forks are all that disturbs the sequencer |
| | `ChecksPassHolds` | then none of its checks fails |
| | `OneCanonicalPerHeightHolds` | then a height has one canonical batch |
| | `SoftFinalityHolds` | then every chain of batches ever produced is executed, in the same order and batches, on the canonical branch |
| | `RollupPossibleHolds` | then a rollup can be created whenever a batch is old enough |
| | `RecreatesBatchesHolds` | then a node recreates the exact batches of the rollup |
| `Validator_proofs` | `Invariance` | `IInv` is an invariant |
| | `ExecutedOnParentStateHolds` | no execution is recorded without the state of the batch and of its parent |
| | `ExecutedInOrderHolds` | batches are recorded parents first |
| | `NothingExecutableLeftHolds` | overlapping executions leave nothing executable behind |
| | `FailsOnlyOnLostMessagesHolds` | one call at a time fails only on messages that a crash lost |
| `L1Publisher_proofs` | `Invariance` | `IInv` is an invariant |
| | `MinedOnceHolds` | no publication is mined twice |
| | `SuccessIsMinedHolds` | success is reported only of what is mined |
| `GuardianL2_proofs` | `Invariance` | `IInv` is an invariant |
| | `TrackedBatchIsStoredHolds` | the head the guardian believes in is stored in the enclave |
| | `LiveMeansFedIfTimelyHolds` | Live means fed where live batches are handled in time |
| `RollupPublication_proofs` | `PublicationInvariance` | `PInv` is an invariant |
| | `NoBatchMissingHolds` | no batch is missing before the last one on L1, unless a receipt was late and L1 has reorganised |
| `NetworkSecret_proofs` | `Invariance` | `IInv` is an invariant |
| | `Refinement` | the exchange implements `Membership`'s specification |

Assumptions on the constants: the named `ASSUME`s of the modules, which TLC
evaluates in the runs. Bounds are natural numbers (`MaxSeqNo` at least 1 in the
enclave, whose genesis batch has number 1), batches that may be stored are well
typed (`RowsAssumption`), ledgers are trees in sequence order (`IsLedger`, which
is what `BatchesFormTreeHolds` says of the sequencer), environments are made of
the faults listed. None restricts the number of blocks, batches, calls, nodes,
attempts or crashes.

**L1 ingestion.** `CanonicalChain` is not inductive: if a block could be accepted
below blocks that are stored, marking it canonical would leave the chain's head
elsewhere. `L1Inv` therefore adds that the head has no stored descendants, that
branches have no holes above genesis (`NoHoles`), and that either every branch
is stored from its first block or none is (`RootsAgree`). The last one is what
excludes the hard case: ingestion may start anywhere, and the genesis block may
be submitted late, below two branches that would then meet in it. The proof
splits an accepted block into the first block, the child of the head, a block
above genesis, and a fork (`FirstAccepted`, `ChildAccepted`,
`AboveGenesisAccepted`, `ForkAccepted`), and shows of each that the patched
flags are the ancestors of the new head. The refinement follows from the same
four facts, and so does `L1Inv` in the validator and the sequencer, whose L1 steps
are the same.

**Sequencer.** That a batch's L1 proof descends from its parent's is not inductive
either: `duplicateBatches` decides by walking the blocks between the two, from
another branch. `SInv` adds that those blocks are stored, and what the loop of
`duplicateBatches` may rely on between two of its turns (`HandlerOK`): an orphan's
parent is an orphan, or its L1 proof can be reached from the new head
(`OrphanFounded`). A crash may fall between any two of its steps.

`ExecutedOnce` is about `ChainOf`, a recursive function over the batch table. That
the table's recursion is well founded (a parent's number is smaller) and that a new
batch leaves the chains of the others alone is shown by induction over sets of
batch numbers (`ChainDefined`, `ChainsKept`). `Chained` adds what a duplicate needs:
the chain of the last duplicate is the chain of the orphan it stands for, so the
next one goes on a chain with the same transactions as its original's.

**The undisturbed sequencer.** `ChecksPass`, `OneCanonicalPerHeight`, `SoftFinality`
and the two about rollups have the premise `Undisturbed`: no crash, no branch that
comes back, no fork below the genesis batch. `UInv` says of these behaviours that
the canonical batches are one branch in which sequence numbers, heights, L1 proofs
and chains give the same order (`OneBranch`); that the orphans still to be
duplicated continue that branch without a gap (`OrphansOnTop`), which is why
`duplicateBatches` never meets orphans that are not consecutive; and that every
chain ever produced is canonical or is the chain of an orphan still to be
duplicated (`ChainsSurvive`), which is `SoftFinality` between two calls. A fork
cuts the branch into the batches at or below the common ancestor, which stay, and
those above it, which become the orphans.

**Rollups.** Given `OneBranch`, the heights of a rollup's canonical batches are
consecutive (`RollupPossible`), and the recreated headers agree one after the other:
the parent of a canonical batch is the last canonical one before it, a reorged
batch has its own header in the rollup, and the differences of L1 heights add up
again. The recreation is a recursive function over the batches, unfolded by
induction over the position in the rollup.

**Validator.** Two calls work through lists of batches that were fetched at
different times. `LeftIsListed` is the heart of `NothingExecutableLeft`: unless an
execution was cut short, some call has its `FetchUnexecuted` still before it, or
everything unexecuted but a set of blocked batches is on the list of one call. The
set is named by an existential, since which batches are blocked changes as the other
call goes on. `StatesRecorded` does the same for the order: without a crash a
state that is committed is recorded, or one call is about to. For one call at
a time, `OnlyCall` adds that its list holds nothing executed, which rules out
conflicts, and that a failed computation means lost messages.

**L1 publisher.** Whichever way a call retries, its transactions carry the one
nonce it was given, in the pool and on the chain; the L1 mines each nonce once.
`MinedOnce` follows. The wallet's nonce, which a late receipt can set back, has no
part in it.

**Guardian and batches.** `Founded` holds in every environment: reports, the stream
and the goroutines only carry batches that are stored where they say, so whichever
of them writes the tracker last, the head it writes is stored. Where live batches
are timely, the enclave has no holes at all (`NoHoles`), which is more than
`LiveMeansFed` asks. The reason is a chain of three facts: at most one live batch
is under way and nothing else knows of it (`InTurn`); the tracker has heard of all
the others (`HostHeadKnown`), since the first thing a host ever stores is a live
batch; and so a status of Live when the check is made means that the enclave has
the batch before (`LiveAtHead`).

**Rollup publication.** The contract does not look at a rollup's place in the
sequence, so `NoBatchMissing` rests on the guardian: what it has seen on L1 must
still be there, or come back, before what it sends next. Where receipts are in
time, a nonce carries one rollup for ever, and the batches the contract has when a
nonce is next are the same on every branch: `History(c)` names them `c[n]`, by
an existential, since the blocks they come from may be abandoned and mined again
in between. With that every transaction, mined, pooled or about to be sent, starts
at most one batch after what comes before it. Once a receipt was late a nonce can
have two rollups; as long as nothing is reorganised, what is on L1 stays there, and
`Stays` says the same of it. `PInv` has each of the two under its own condition
(`~Late`, `~Reorganised`), with the faults met so far kept in `env.met`, so both
environments may be one; after both faults neither is left.

**Network secret.** `AwaitSecret` takes the secret out of a response without
looking at its receipt, so the refinement rests on responses never failing. One
sent by the genesis node succeeds once an announcement has; a reorganisation can
drop the announcement, but then it waits with a lower nonce than the responses
(`ResponsesWillSucceed`).

Only model-checked:

- Liveness: it needs `ENABLED` and fairness.
- The walks of `LCAWalk`: they are `RECURSIVE` operators, as in the code, which
  takes the SMT solver from every module that reaches them. The closed forms they
  are compared with are what the proofs use.
- Token amounts in `Bridge` (`Conservation`, `InboundExactlyOnce`): sums over sets
  of messages, of states kept for each L1 block and each batch.
- `Transactions`, `Gateway` and `LogSubscriptions`: not proved yet.

Induction over data is done through sets: the numbers for which a claim holds are a
set, and a set with 0 and the successor of each of its numbers is `Nat`
(`NatSetInduction`, from the library's `WFMin`). The library's own induction
theorems take an operator, which the provers at hand cannot instantiate.

## 5. What is not modelled

`PROJECT.json` lists every part with its status. The reasons:

- **No protocol state.** The EVM, encryption, attestation hardware, RPC
  conversions, gas estimates, calls and queries, configuration, the launcher and
  the clients. Of the source about a quarter is generated (protobuf, contract
  bindings), and as much again is the simulation, test networks and tools.
- **Faucet, explorers.** Clients of the node with no part in its protocols.
- **In `Gateway`:** encryption, malformed requests and wrong signatures (they change
  nothing), requests without a viewing key, revoking the default user, the MariaDB backend, and more than one
  subscription on a connection.
- **Stored events (`enclavedb/events.go`, `GetLogs`).** The rows are written with
  the batch and never change. Who may see a row is decided by a rule of its own,
  from what was stored of an address before, which can differ from the rule of
  subscriptions; that comparison is worth a module.
- **Host database.** Headers, totals and listings that only the explorer reads.
- **In `Bridge`:** native currency (nothing on L2 takes it in: `receiveAssets`
  reverts for address zero, and `sendNative` asks for a mapping of it that no
  listing of a token makes, so a deposit could only stay under way), changes of
  administrators, the deployment of the bus in batch 2, and finality times, which the callers set to zero.
- **In `LogSubscriptions`:** a stream that ends while its channel is full
  (`LogSubscriptionsAssumption`); see section 6.
- **The sequencer's fallback to its enclave** in the batch repository: only
  `FetchBatchBySeqNo` uses it, and only `catchupWithL2` calls that, which the
  sequencer never gets through.

Simplifications to keep in mind: except in `Gateway`, database writes succeed or
the process stops; caches are never stale, since rows are immutable apart from
flags, which are not cached; a validator's ledger is fixed in advance; the
guardian's enclave is reduced to what its answers depend on, and each module has
the guardian's goroutines that its question is about.

## 6. Where code and documentation disagree

Each of these is a property that states what a line of the repository says, in a
configuration with which TLC finds it violated, in seconds, by
`tlc -continue -config <cfg> <module>` (`-continue` shows every property of the
configuration violated, and not only the first):

| cfg, module | property | what happens | what contradicts it |
|---|---|---|---|
| `SequencerClaims`, `MCRollup` | `SoftFinalityGuarantee` | The block of a fork is stored before `OnL1Fork` duplicates the orphans (`enclave/enclave.go:460`); after a crash in between the fork is not seen again, and the orphaned transactions are never executed on the new branch. | `src/design/finality_protocol/Soft_finality_guarantee.md:164`: "The sequencer guarantees that it will consistently execute L2 transactions in the same order and batches, even if there are reorgs on the L1." |
| `SequencerClaims`, `MCRollup` | `RecreatesAfterLiveBatches` | A stored batch becomes the parent of the next one even if it was reorged (`rollup_compression.go:368`): a node that got it live, and its duplicate only in the rollup, computes the duplicate on the wrong parent. `Validator` computes it on its own parent: the code then fails or stops the enclave, after which nothing it checks is at stake. | `rollup_compression.go:32`: "1. recreate the exact batch headers as the live ones" |
| `L1PublisherNonce`, `MCL1Publisher` | `NonceAccurate` | A transaction sent again after a late receipt is rejected by the L1, and the wallet is set back to a nonce that is used (`publisher.go:275`). | `publisher.go:243`: "It is responsible for keeping the nonce accurate, according to the following rules" |
| `GuardianL1Receipts`, `MCGuardianL1` | `CaughtUp` | `submitL1Block` returns without unlocking `submitDataLock` when receipts cannot be fetched (`guardian.go:390`); no block is submitted any more. | `guardian.go:385`: "we wil catch up with the block later" |
| `GuardianL2Fed`, `MCGuardianL2` | `LiveMeansFed` | The submission of a live batch fails and the next succeeds (`guardian.go:480`): the enclave has a hole that catching up starts after. | `state.go:29`: "Live - enclave is up-to-date with known external data." |
| `BridgeForks`, `MCBridge` | `MessagesOfCanonicalBatches` | A rollup brings the messages of all its batches, abandoned ones included, to the L1 bus; `AddRollup` does not compare the L1 block it was made for with the chain it is in. | `src/design/bridge/bridge_design.md:248`: "The rollup must be bound to a specific `blockhash` for `block.number`. This would mean that if it contains synthetic transactions which were caused by messages that no longer exist, then the rollup will be rejected" |
| `GatewayClaims`, `MCGateway` | `KeysSurviveRestart` | Without a user id all viewing keys belong to one default user, with one private key: submitting a second key replaces the row of `users`, which takes the accounts of the first with it (`sqlite.go:65`). | `src/docs/_docs/wallet-extension/wallet-extension.md:78`: "Once a viewing key is generated it will be persisted across restarts of the wallet extension" |
| `GatewayClaims`, `MCGateway` | `TerminatedWhenClosed` | `IsCloseError` is called without codes, so it is false, and the error of a close frame does not say EOF (`user_conn.go:150`): nobody notices that the user closed the connection. | `src/tools/walletextension/accountmanager/account_manager.go:323`: "We periodically check if the websocket is closed, and terminate the subscription." |
| `GatewayClaims`, `MCGateway` | `SubscribesAllAccounts` | The loop over the clients returns in its first iteration: one account, whichever comes first, is subscribed. | `src/tools/walletextension/accountmanager/account_manager.go:85`: "by default, if no client is identified as a candidate, then subscribe to all accounts" |

The following show up in TLC with the change named.

- `sequencer` with "revival" in the faults of its first environment, and
  `Undisturbed` allowing it, violates `OneCanonicalPerHeight`: an L1 branch that
  comes back makes its old batches canonical beside the new ones. With six blocks
  and six batches a further fork violates `ChecksPass` (orphans that are not
  consecutive), and the process exits.
- The same with "genesisReorg" violates `ChecksPass`: a fork below the genesis
  batch makes a second batch number 1.
- The same with one crash: between the two writes of `StoreExecutedBatch` it leaves
  a batch that is stored and never executed, and at the genesis batch the next
  `CreateBatch` conflicts with it (`ChecksPass`).
- `guardian_l1` with "fork" and "overlap" in one environment, and `Timely` allowing
  it, violates `HeadKept` and `EventuallyInSync`: the handler of a block that was
  abandoned submits it last and the enclave moves to it, or records it as the newest
  (`OnReceivedBlock`); catching up finds only blocks that were processed.
- `rollup_publication` without the premise of `NoBatchMissing` violates it: a receipt
  is late, the transaction is sent again and refused, and the nonce set back
  (`publisher.go:275`); the next rollup has the nonce of the first, which is mined,
  and after a reorganisation the later one may be mined in its place.
- `gateway` without `Guessed` violates `ProxyFindsClient`: the client of the account
  named in the data meets an EVM error that another would not.
  `account_manager.go:137` says that the guess can be wrong. Without
  `loop = "panicked"` it violates `SubscriptionEnds`: a request for a nil client has
  ended the handler. A reset, like a close frame, gives read errors that do not say
  EOF, and the handler reads on until the websocket panics.
- `log_subscriptions` with the second part of `LogsComplete` asked of two executors
  violates it.
- `network_secret` without its premise violates `EveryoneJoins`: when the
  announcement of the secret cannot be published, the enclave has it all the same,
  reports that it is running, and nobody announces it again.
- `rollup_publication` without `DuplicateMessages` violates `EveryBatchRolledUp`: a
  reorged batch and its duplicate carry the same message, the contract takes it
  once, and every rollup that holds both is refused.
- `log_subscriptions` without `Abandoned` violates `UpdatesReachHost`: when a
  client's id cannot be sent while logs for it are being sent, `Unsubscribe` waits
  for the mutex of a send that nobody receives.

These can be read off the models.

- At genesis height `LCA` returns the new block, which need not be a common
  ancestor (`LCA` in `L1Blocks`). The enclave does not suffer from it: the
  genesis block is canonical for good.
- `HandleBatchRequest` answers with one batch more than
  `_maxBatchesInP2PResponse` (`Response`), and only from the database: a batch the
  sequencer's host missed while its stream was down is not there, and the response
  ends before it.
- `p2pInFlightRequested` is never set, so a response never clears the request in
  flight, and the next one waits for the timeout (`HandleBatches`,
  `RequestMissingBatchesFromPeers`).
- A transaction too large for a batch, with its sender's next nonce, ends every
  selection at its place (`CurrentTxs`). Transactions after an unfunded one of
  their sender are removed with it, though no batch has them (`RemoveTxs`).
- A stream that ends while the enclave's channel is full: `OnBatchExecuted` waits
  for room with `callbackMutex`, and `UnsubscribeFromBatches`, which would end
  that, for the mutex (`EndStream`).
- The handler of a broken stream clears the callback of the stream that replaced
  it (`EndStream`). A stream that cannot be opened again leaves a nil channel, and
  the guardian never reads again (`ReconnectFails`). After an enclave restart the
  host keeps subscriptions the enclave does not know (`RestartEnclave`).

## 7. Plan

1. Proofs: `SendsToOpenChannels` and `LogsComplete` (`LogSubscriptions`),
   `Conservation` (`Bridge`), `NoTransactionLost` (`Transactions`).
2. Stored events and `GetLogs` beside `LogSubscriptions`: do the two rules of
   relevance agree?
3. Sequencer and validators composed: the ledger a validator is fed is what the
   sequencer produces.
