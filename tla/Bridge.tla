-------------------------------- MODULE Bridge --------------------------------
(* Messages and assets between the chains: the message buses, the messengers   *)
(* and the bridge contracts of both, with the enclave's part between them.     *)
(* What the L1 bus publishes is read from the receipts of each block, and      *)
(* stored on the L2 bus by the synthetic transactions of the first batch on    *)
(* top of it; what the L2 bus publishes goes into the header of the batch, and *)
(* with the rollup into the L1 bus.  A contract's state is kept with the block *)
(* or the batch it results from, so that reorganisations take it back.         *)
(* External accounts are one: it deposits, relays and withdraws.               *)
EXTENDS Integers, FiniteSets, Sequences, SequencesExt

CONSTANTS
    Assets,         \* ERC20 contracts of L1
    RollupDelay,    \* number of L1 blocks to exclude from a rollup
    Environments    \* records, see env

VARIABLES
    env,        \* listed: assets with a wrapped token at the start; bounds on the L1
                \* blocks, the batches, and the reorganisations left
    l1,         \* the canonical L1 blocks: [tx, state], one transaction each at most
    batches     \* by sequence number: [l1, tx, state, out, canonical]

vars == << env, l1, batches >>

NoTx == [ op |-> "none" ]

\* The message of whitelistToken for the assets listed at the start.
Created(assets) ==
    [ i \in 1..Cardinality(assets) |->
        [ sequence |-> i - 1, call |-> "create", asset |-> SetToSeq(assets)[i], amount |-> 0 ] ]

\* The management contract, the L1 bus, the L1 messenger and ObscuroBridge.
L1Genesis ==
    [ listed  |-> env.listed,               \* assets with ERC20_TOKEN_ROLE
      escrow  |-> [ a \in Assets |-> 0 ],   \* balances of the bridge
      sent    |-> Created(env.listed),      \* messages published
      bus     |-> {},                       \* messages stored
      paid    |-> {},                       \* messages consumed
      last    |-> 2 ]                       \* lastBatchSeqNo

\* The L2 bus, the L2 messenger and EthereumBridge.
L2Genesis(listed) ==
    [ bus      |-> ToSet(Created(listed)),
      consumed |-> ToSet(Created(listed)),
      tokens   |-> [ i \in 1..Cardinality(listed) |-> [ asset |-> SetToSeq(listed)[i], supply |-> 0 ] ],
      local    |-> [ a \in Assets |-> IF a \in listed THEN CHOOSE i \in 1..Cardinality(listed) : SetToSeq(listed)[i] = a
                                      ELSE 0 ],     \* remoteToLocalToken; 0 is none
      sent     |-> << >> ]

\* The genesis batch and the next, which are on L1; bridges are deployed.
Init ==
    /\ env \in Environments
    /\ l1 = << >>
    /\ batches = [ n \in 1..2 |-> [ l1 |-> 0, tx |-> NoTx, state |-> L2Genesis(env.listed), out |-> << >>,
                                    canonical |-> TRUE ] ]

L1At(height) == IF height = 0 THEN L1Genesis ELSE l1[height].state
L1State == L1At(Len(l1))

Canonical == { n \in DOMAIN batches : batches[n].canonical }
HeadBatch == CHOOSE n \in Canonical : \A k \in Canonical : k <= n
L2State == batches[HeadBatch].state

-------------------------------------------------------------------------------
\* queueMessage and publishMessage: the bus numbers a sender's messages.
Publish(s, call, asset, amount) ==
    [ s EXCEPT !.sent = Append(@, [ sequence |-> Len(@), call |-> call, asset |-> asset, amount |-> amount ]) ]

Repeated(messages) == Cardinality(ToSet(messages)) < Len(messages)

\* ObscuroBridge.whitelistToken, removeToken and sendERC20.
WhitelistToken(s, asset) == Publish([ s EXCEPT !.listed = @ \cup {asset} ], "create", asset, 0)

RemoveToken(s, asset) == [ s EXCEPT !.listed = @ \ {asset} ]

SendERC20(s, asset, amount) ==
    IF asset \notin s.listed THEN s
    ELSE Publish([ s EXCEPT !.escrow[asset] = @ + amount ], "receive", asset, amount)

(* AddRollup: storeCrossChainMessage takes each message once, or all reverts.  *)
AddRollup(s, rollup) ==
    IF Repeated(rollup.messages) \/ ToSet(rollup.messages) \cap s.bus # {} THEN s
    ELSE [ s EXCEPT !.bus = @ \cup ToSet(rollup.messages),
                    !.last = IF rollup.last > @ THEN rollup.last ELSE @ ]

\* Mutant: consumeMessage does not mark the message.
RelayAgainOnL1(s, m) ==
    IF m \notin s.bus \/ m.asset \notin s.listed \/ s.escrow[m.asset] < m.amount THEN s
    ELSE [ s EXCEPT !.escrow[m.asset] = @ - m.amount ]

(* relayMessage on L1, and receiveAssets: it reverts for a message that is not *)
(* stored or was consumed, and for an asset that is not listed any more.       *)
RelayOnL1(s, m) ==
    IF m \notin s.bus \ s.paid \/ m.asset \notin s.listed \/ s.escrow[m.asset] < m.amount THEN s
    ELSE [ s EXCEPT !.paid = @ \cup {m}, !.escrow[m.asset] = @ - m.amount ]

\* A transaction of L1 on a state; one that reverts leaves it alone.
L1Result(s, tx) ==
    CASE tx.op = "none"      -> s
      [] tx.op = "whitelist" -> WhitelistToken(s, tx.asset)
      [] tx.op = "remove"    -> RemoveToken(s, tx.asset)
      [] tx.op = "send"      -> SendERC20(s, tx.asset, tx.amount)
      [] tx.op = "rollup"    -> AddRollup(s, tx)
      [] tx.op = "relay"     -> RelayOnL1(s, tx.message)

-------------------------------------------------------------------------------
(* EthereumBridge.onCreateTokenCommand and receiveAssets, under relayMessage.  *)
(* A token that is listed again gets another wrapped token.                    *)
RelayOnL2(s, m) ==
    LET consume == [ s EXCEPT !.consumed = @ \cup {m} ]
    IN  CASE m \notin s.bus \ s.consumed -> s
          [] m \in s.bus \ s.consumed /\ m.call = "create" ->
                [ consume EXCEPT !.tokens = Append(@, [ asset |-> m.asset, supply |-> 0 ]),
                                 !.local[m.asset] = Len(s.tokens) + 1 ]
          [] m \in s.bus \ s.consumed /\ m.call = "receive" ->
                IF s.local[m.asset] = 0 THEN s
                ELSE [ consume EXCEPT !.tokens[s.local[m.asset]].supply = @ + m.amount ]

\* EthereumBridge.sendERC20: the wrapped tokens are burnt.
WithdrawERC20(s, token, amount) ==
    IF token \notin DOMAIN s.tokens \/ s.tokens[token].supply < amount THEN s
    ELSE Publish([ s EXCEPT !.tokens[token].supply = @ - amount ], "receive", s.tokens[token].asset, amount)

L2Result(s, tx) ==
    CASE tx.op = "none"     -> s
      [] tx.op = "relay"    -> RelayOnL2(s, tx.message)
      [] tx.op = "withdraw" -> WithdrawERC20(s, tx.token, tx.amount)

\* What the logs between two states say was published.
MessagesBetween(before, after) == SubSeq(after.sent, Len(before.sent) + 1, Len(after.sent))

\* Mutant: the messages of the parent's L1 proof are retrieved again.
InboundWithParents(chain, from, to) ==
    MessagesBetween(IF from <= 1 THEN L1Genesis ELSE chain[from - 1].state,
                    IF to = 0 THEN L1Genesis ELSE chain[to].state)

(* StoreCrossChainMessages and RetrieveInboundMessages: the messages published *)
(* in the blocks after the L1 proof of the parent, up to the batch's own.      *)
Inbound(chain, from, to) ==
    MessagesBetween(IF from = 0 THEN L1Genesis ELSE chain[from].state,
                    IF to = 0 THEN L1Genesis ELSE chain[to].state)

\* The synthetic transactions, each of which stores a message on the L2 bus.
SyntheticTransactions(s, messages) == [ s EXCEPT !.bus = @ \cup ToSet(messages) ]

\* verifyInboundCrossChainTransactions: a message the bus has fails the batch.
InboundSucceeds(s, messages) == ~Repeated(messages) /\ ToSet(messages) \cap s.bus = {}

(* ComputeBatch: the transactions, then the synthetic ones that store the      *)
(* messages; what the transactions published goes into the header.             *)
ComputeBatch(chain, parent, tx) ==
    LET messages == Inbound(chain, parent.l1, Len(chain))
        executed == L2Result(parent.state, tx)
    IN  [ l1        |-> Len(chain),
          tx        |-> tx,
          state     |-> SyntheticTransactions(executed, messages),
          out       |-> MessagesBetween(parent.state, executed),
          canonical |-> TRUE ]

-------------------------------------------------------------------------------
L1Block(s, tx) == [ tx |-> tx, state |-> L1Result(s, tx) ]

\* A block, with a transaction that does something.
MineBlock(tx) ==
    /\ Len(l1) < env.l1
    /\ tx = NoTx \/ L1Result(L1State, tx) # L1State
    /\ l1' = Append(l1, L1Block(L1State, tx))
    /\ UNCHANGED << env, batches >>

(* CreateRollup: the batches after lastBatchSeqNo whose L1 proof is old        *)
(* enough, abandoned or not, and the messages of all of them.                  *)
Rollups ==
    { [ op |-> "rollup", last |-> n,
        messages |-> FlattenSeq([ i \in 1..(n - L1State.last) |-> batches[L1State.last + i].out ]) ] :
      n \in { k \in (L1State.last + 1)..Len(batches) :
                \A j \in (L1State.last + 1)..k : batches[j].l1 <= Len(l1) - RollupDelay } }

(* A batch on the current head: with a transaction that does something, or,    *)
(* bounding the empty ones, with messages.                                     *)
CreateBatch(tx) ==
    /\ Len(batches) < env.batches
    /\ IF tx = NoTx THEN Inbound(l1, batches[HeadBatch].l1, Len(l1)) # << >> ELSE L2Result(L2State, tx) # L2State
    /\ InboundSucceeds(L2State, Inbound(l1, batches[HeadBatch].l1, Len(l1)))
    /\ batches' = Append(batches, ComputeBatch(l1, batches[HeadBatch], tx))
    /\ UNCHANGED << env, l1 >>

\* Blocks with these transactions on top of a chain.
Extend(chain, txs) ==
    LET with[n \in 0..Len(txs)] ==
            IF n = 0 THEN chain
            ELSE Append(with[n - 1],
                        L1Block(IF with[n - 1] = << >> THEN L1Genesis ELSE with[n - 1][Len(with[n - 1])].state, txs[n]))
    IN  with[Len(txs)]

(* The last k blocks are replaced by k + 1, with some of their transactions.   *)
(* duplicateBatches, at the first of the new blocks the enclave is given: the  *)
(* batches on abandoned blocks are computed again, each on the one before,     *)
(* with the parent of that block as their L1 proof.  The first retrieves the   *)
(* messages of the others too; if the bus has one, there is no duplicate.      *)
Reorg(k, again, at) ==
    LET kept      == SubSeq(l1, 1, Len(l1) - k)
        txs       == [ i \in 1..(k + 1) |-> IF i \in again THEN l1[Len(kept) + i].tx ELSE NoTx ]
        chain     == Extend(kept, txs)
        orphans   == SelectSeq([ i \in DOMAIN batches |-> i ],
                               LAMBDA n : batches[n].canonical /\ batches[n].l1 > Len(kept))
        parent    == CHOOSE n \in Canonical : /\ batches[n].l1 <= Len(kept)
                                              /\ \A j \in Canonical : batches[j].l1 <= Len(kept) => j <= n
        proven    == SubSeq(chain, 1, Len(kept) + at)
        duplicate[i \in 1..Len(orphans)] ==
            ComputeBatch(proven, IF i = 1 THEN batches[parent] ELSE duplicate[i - 1], batches[orphans[i]].tx)
    IN  /\ env.reorgs > 0
        /\ Len(l1) < env.l1
        /\ Len(batches) + Len(orphans) <= env.batches
        /\ l1' = chain
        /\ batches' = [ n \in DOMAIN batches |-> [ batches[n] EXCEPT !.canonical = @ /\ batches[n].l1 <= Len(kept) ] ]
                      \o (IF InboundSucceeds(batches[parent].state, Inbound(proven, batches[parent].l1, Len(proven)))
                          THEN [ i \in 1..Len(orphans) |-> duplicate[i] ] ELSE << >>)
        /\ env' = [ env EXCEPT !.reorgs = @ - 1 ]

Administer == \E asset \in Assets : \E op \in {"whitelist", "remove"} : MineBlock([ op |-> op, asset |-> asset ])
Deposit == \E asset \in Assets : MineBlock([ op |-> "send", asset |-> asset, amount |-> 1 ])
PublishRollup == \E tx \in Rollups : MineBlock(tx)
Pay == \E m \in L1State.bus : MineBlock([ op |-> "relay", message |-> m ])
Mint == \E m \in L2State.bus : CreateBatch([ op |-> "relay", message |-> m ])
Withdraw == \E token \in DOMAIN L2State.tokens : CreateBatch([ op |-> "withdraw", token |-> token, amount |-> 1 ])
Reorganise == \E k \in 1..RollupDelay : k <= Len(l1) /\ \E again \in SUBSET (1..k), at \in 0..k : Reorg(k, again, at)

Next ==
    \/ MineBlock(NoTx) \/ Administer \/ Deposit \/ PublishRollup \/ Pay
    \/ CreateBatch(NoTx) \/ Mint \/ Withdraw
    \/ Reorganise

Spec == Init /\ [][Next]_vars

-------------------------------------------------------------------------------
Amounts(messages) == FoldSeq(LAMBDA m, sum : sum + m.amount, 0, messages)

Supply(asset) ==
    FoldSeq(LAMBDA t, sum : sum + t.supply, 0, SelectSeq(L2State.tokens, LAMBDA t : t.asset = asset))

OnTheWay(sent, done, asset) ==
    Amounts(SelectSeq(sent, LAMBDA m : m.call = "receive" /\ m.asset = asset /\ m \notin done))

\* Some message of an abandoned batch is on L1, or will be.
ForkedMessages == \E n \in DOMAIN batches : ~batches[n].canonical /\ batches[n].out # << >>

(* No asset is lost and none appears: what the L1 bridge holds is what the     *)
(* wrapped tokens of the asset stand for, with the deposits not yet relayed on *)
(* L2 and the withdrawals not yet paid.  So it is when messages are relayed in *)
(* any order, an asset is removed and listed again, and reorganisations take   *)
(* deposits away; unless an abandoned batch has messages, as the rollup keeps  *)
(* those.                                                                      *)
Conservation ==
    ~ForkedMessages =>
        \A asset \in Assets :
            L1State.escrow[asset] = Supply(asset) + OnTheWay(L1State.sent, L2State.consumed, asset)
                                    + OnTheWay(L2State.sent, L1State.paid, asset)

(* Every message of the canonical L1 chain, up to the L1 proof of the head     *)
(* batch, is on the L2 bus, no other is, and none is delivered twice, which    *)
(* would stop the production of batches, though batches are computed again on  *)
(* the other side of a fork.                                                   *)
InboundExactlyOnce ==
    /\ L2State.bus = ToSet(L1At(batches[HeadBatch].l1).sent)
    /\ InboundSucceeds(L2State, Inbound(l1, batches[HeadBatch].l1, Len(l1)))

(* What the bridge design asks of a rollup that reaches the management         *)
(* contract: the messages it brings come from the chain of batches that goes   *)
(* with the L1 chain it is in.                                                 *)
MessagesOfCanonicalBatches == L1State.bus \subseteq ToSet(L2State.sent)
===============================================================================
