---------------------------- MODULE Validator_proofs ----------------------------
(* A validator executes every batch it can, each on the state of its parent    *)
(* and parents first, whatever calls race with one another and wherever a      *)
(* crash falls; proved for every number of calls and every ledger.             *)
EXTENDS Validator, L1BlockProcessor_proofs, WellFoundedInduction

\* The phases in which a call has a batch's state committed and is recording it.
Executing == {"read", "write", "rollupRead", "rollupWrite"}

\* The phases in which a call works through the list of FetchUnexecuted.
Listing == {"next", "read", "write"}

\* The phases in which a call works through the batches of a rollup.
Ingesting == {"messages", "rollup", "rollupRead", "rollupWrite"}

\* A call in one of these phases has its FetchUnexecuted still before it.
Fetching == Ingesting \cup {"fetch"}

\* The batch table holds batches of the sequencer, under their own numbers.
FromLedger == \A n \in Stored : n \in DOMAIN ledger /\ batch[n] = ledger[n]

\* With every block its ancestors are stored: blocks arrive after their parents.
AncestorsStored == \A b \in blocks : \A k \in 0..Len(b) : Upto(b, k) \in blocks

\* The states committed are states of stored batches, with their parents' states.
StatesFounded ==
    /\ executedBatches \subseteq states
    /\ \A n \in states \ {L2GenesisSeqNo} : ledger[n].parent \in states

\* What a call may rely on when it resumes.
CallOK(c) ==
    /\ calls[c].phase \in Executing => calls[c].todo # {} /\ Current(c) \in states
    /\ calls[c].phase \in Listing =>
         \A n \in calls[c].todo : n \in Stored /\ ledger[n].l1Proof \in blocks
    /\ calls[c].phase \in Ingesting => calls[c].todo \subseteq DOMAIN ledger
    /\ calls[c].phase \in {"read", "write"} =>
         Current(c) = L2GenesisSeqNo \/ ledger[Current(c)].parent \in executedBatches
    /\ calls[c].phase = "messages" => calls[c].block \in blocks
    /\ c \notin env.calls => calls[c] = Idle

\* Without a crash, a state that is committed is recorded, or about to be.
StatesRecorded ==
    crashes = 0 =>
        \A n \in states : \/ n \in executedBatches
                          \/ \E c \in Calls : calls[c].phase \in Executing /\ Current(c) = n

Unexecuted == canonicalBatches \ executedBatches

\* The batches of D have no executed parent, and their parents are in D or executed.
Blocked(D) ==
    \A m \in D : /\ m # L2GenesisSeqNo
                 /\ ledger[m].parent \notin CanonicalExecuted
                 /\ ledger[m].parent \in Unexecuted => ledger[m].parent \in D

(* Unless an execution was cut short, some call has its fetch before it, or    *)
(* what is left to execute is blocked but for batches on one call's list.      *)
LeftIsListed ==
    failed = "no" =>
        \/ \E c \in Calls : calls[c].phase \in Fetching
        \/ \E D \in SUBSET Unexecuted :
              /\ Blocked(D)
              /\ \/ Unexecuted \subseteq D
                 \/ \E c \in Calls : /\ calls[c].phase \in Listing
                                     /\ Unexecuted \ D \subseteq calls[c].todo

\* The messages of block b are about to be stored.
StoringMessages(b) == \E c \in Calls : calls[c].phase = "messages" /\ calls[c].block = b

\* Only a crash loses the cross chain messages of a block.
MessagesStored ==
    \A b \in blocks \ {L1Genesis} : b \in l1Messages \/ crashes > 0 \/ StoringMessages(b)

\* The messages of some block are lost for good.
MessagesLost == \E b \in blocks \ {L1Genesis} : b \notin l1Messages /\ ~StoringMessages(b)

\* What holds in addition when c is the only call the host makes.
OnlyCall(c) ==
    env.calls = {c} =>
        /\ calls[c].phase \in Listing => calls[c].todo \cap executedBatches = {}
        /\ failed # "conflict"
        /\ failed = "compute" => crashes > 0 /\ MessagesLost

\* The inductive invariant.
IInv ==
    /\ TypeOK
    /\ L1Inv
    /\ FromLedger
    /\ AncestorsStored
    /\ StatesFounded
    /\ \A c \in Calls : CallOK(c)
    /\ StatesRecorded
    /\ LeftIsListed
    /\ MessagesStored
    /\ \A c \in Calls : OnlyCall(c)

-------------------------------------------------------------------------------
\* Facts about numbers, ledgers and calls.

\* A set of natural numbers that is not empty has a least element, which is its Min.
LEMMA LeastIsMin ==
    ASSUME NEW S \in SUBSET Nat, S # {}
    PROVE  Min(S) \in S /\ \A y \in S : Min(S) <= y
<1> DEFINE R == { ss \in Nat \X Nat : ss[1] < ss[2] }
<1>1. OpToRel(<, Nat) = R
  BY Zenon DEF OpToRel
<1>2. \E x \in S : \A y \in S : ~(<< y, x >> \in OpToRel(<, Nat))
  BY NatLessThanWellFounded, WFMin, Zenon
<1>3. PICK x \in S : \A y \in S : ~(<< y, x >> \in R)
  BY <1>1, <1>2, Zenon
<1> HIDE DEF R
<1>4. ASSUME NEW y \in S PROVE x <= y
  <2>1. x \in Nat /\ y \in Nat /\ ~(<< y, x >> \in R)
    BY <1>3
  <2>2. ~(y < x)
    BY <2>1 DEF R
  <2>. QED  BY <2>1, <2>2
<1>. QED  BY <1>4 DEF Min

\* What is known of the ledger and of the environment.
LEMMA LedgerFacts ==
    ASSUME TypeOK
    PROVE  /\ L2GenesisSeqNo \in DOMAIN ledger
           /\ DOMAIN ledger \subseteq SeqNo
           /\ \A n \in DOMAIN ledger : ledger[n] \in Batch /\ ledger[n].l1Proof \in L1Block
           /\ \A n \in DOMAIN ledger \ {L2GenesisSeqNo} :
                 /\ ledger[n].parent \in DOMAIN ledger
                 /\ ledger[n].parent < n
                 /\ ledger[ledger[n].parent].l1Proof \preceq ledger[n].l1Proof
           /\ env.calls \subseteq Calls
           /\ env.crashes \in Nat
<1>1. IsLedger(ledger) /\ env.calls \subseteq Calls /\ env.crashes \in Nat
  BY ValidatorAssumption DEF TypeOK
<1>2. \A n \in DOMAIN ledger : ledger[n] \in Batch
  BY <1>1 DEF IsLedger
<1>3. \A n \in DOMAIN ledger : ledger[n].l1Proof \in L1Block
  BY <1>2 DEF Batch
<1>. QED  BY <1>1, <1>2, <1>3 DEF IsLedger

\* The batch a call is at is the least of its list.
LEMMA CurrentIsLeast ==
    ASSUME TypeOK, NEW c \in Calls, calls[c].todo # {}
    PROVE  Current(c) \in calls[c].todo /\ \A n \in calls[c].todo : Current(c) <= n
<1>1. calls[c].todo \subseteq SeqNo
  BY DEF TypeOK, Call
<1>2. calls[c].todo \in SUBSET Nat
  BY <1>1, MaxSeqNoAssumption DEF SeqNo
<1>. QED  BY <1>2, LeastIsMin DEF Current

Phases == { "idle", "messages", "rollup", "rollupRead", "rollupWrite",
            "fetch", "next", "read", "write" }

\* Call c, and only c, moves to the phase p with the list todo and the block b.
CallMoves(c, p, todo, b) ==
    /\ calls' \in [Calls -> Call]
    /\ calls'[c].phase = p
    /\ calls'[c].todo = todo
    /\ calls'[c].block = b
    /\ \A d \in Calls \ {c} : calls'[d] = calls[d]

\* A call that changes its phase and its list is a call.
LEMMA MoveMoves ==
    ASSUME calls \in [Calls -> Call], NEW c \in Calls, NEW p \in Phases, NEW todo \in SUBSET SeqNo,
           calls' = [ calls EXCEPT ![c].phase = p, ![c].todo = todo ]
    PROVE  CallMoves(c, p, todo, calls[c].block)
BY DEF CallMoves, Call, Phases

\* Goto moves the call to another phase.
LEMMA GotoMoves ==
    ASSUME calls \in [Calls -> Call], NEW c \in Calls, NEW p \in Phases, Goto(c, p)
    PROVE  CallMoves(c, p, calls[c].todo, calls[c].block)
BY DEF CallMoves, Call, Phases, Goto

\* Done moves it on to the next batch of its list.
LEMMA DoneMoves ==
    ASSUME calls \in [Calls -> Call], NEW c \in Calls, NEW p \in Phases, Done(c, p)
    PROVE  CallMoves(c, p, calls[c].todo \ {Current(c)}, calls[c].block)
<1>1. calls' = [ calls EXCEPT ![c].phase = p, ![c].todo = calls[c].todo \ {Current(c)} ]
  BY DEF Done
<1>2. calls[c].todo \ {Current(c)} \in SUBSET SeqNo
  BY DEF Call
<1>. QED  BY <1>1, <1>2, MoveMoves

\* A call that returns is idle.
LEMMA ReturnMoves ==
    ASSUME calls \in [Calls -> Call], NEW c \in Calls, Return(c)
    PROVE  CallMoves(c, "idle", {}, L1Genesis) /\ calls'[c] = Idle
<1>1. Idle \in Call
  BY GenesisHeight DEF Idle, Call
<1>. QED  BY <1>1 DEF CallMoves, Return, Idle

-------------------------------------------------------------------------------
\* What every step keeps of the parts of the invariant it does not aim at.

\* A call keeps its guarantees while the tables grow.
LEMMA OtherCallKept ==
    ASSUME NEW d \in Calls, CallOK(d), calls'[d] = calls[d], UNCHANGED << ledger, env >>,
           Stored \subseteq Stored', states \subseteq states',
           executedBatches \subseteq executedBatches', blocks \subseteq blocks'
    PROVE  CallOK(d)'
BY DEF CallOK, Current

\* A batch of the ledger that is stored.
LEMMA StoreLedgerBatch ==
    ASSUME IInv, NEW n \in DOMAIN ledger, n \notin Stored, StoreBatch(n, ledger[n]),
           UNCHANGED << l1Messages, ledger >>
    PROVE  /\ L1Inv' /\ FromLedger' /\ AncestorsStored'
           /\ Stored' = Stored \cup {n}
           /\ UNCHANGED << blocks, executedBatches >>
<1>1. TypeOK /\ L1Inv /\ FromLedger /\ AncestorsStored
  BY DEF IInv
<1>2. n \in SeqNo /\ ledger[n] \in Batch
  BY <1>1, LedgerFacts
<1>3. L1Inv'
  BY <1>1, <1>2, StoreBatchPreserves
<1>4. /\ UNCHANGED << blocks, executedBatches >>
      /\ batch' = [ m \in Stored \cup {n} |-> IF m = n THEN ledger[n] ELSE batch[m] ]
  BY DEF StoreBatch
<1>5. Stored' = Stored \cup {n}
  BY <1>4 DEF Stored
<1>6. FromLedger'
  BY <1>1, <1>4, <1>5 DEF FromLedger, Stored
<1>7. AncestorsStored'
  BY <1>1, <1>4 DEF AncestorsStored
<1>. QED  BY <1>3, <1>4, <1>5, <1>6, <1>7

\* The tables are left alone.
LEMMA SameTables ==
    ASSUME IInv, UNCHANGED storageVars, UNCHANGED ledger, l1Messages' \subseteq blocks
    PROVE  /\ L1Inv' /\ FromLedger' /\ AncestorsStored'
           /\ UNCHANGED << Stored, blocks, executedBatches, canonicalBatches >>
<1>1. UNCHANGED << blocks, canonicalBlocks, batch, canonicalBatches, executedBatches >>
  BY DEF storageVars
<1>2. L1Inv'
  BY StorageUnchanged DEF IInv
<1>3. Stored' = Stored
  BY <1>1 DEF Stored
<1>4. FromLedger' /\ AncestorsStored'
  BY <1>1, <1>3 DEF IInv, FromLedger, AncestorsStored
<1>. QED  BY <1>1, <1>2, <1>3, <1>4

\* A state stays recorded, or about to be, when call c moves on.
LEMMA StatesRecordedKept ==
    ASSUME StatesRecorded, NEW c \in Calls, NEW p, NEW todo, NEW b, CallMoves(c, p, todo, b),
           crashes' = crashes, executedBatches \subseteq executedBatches',
           \A n \in states' : n \in states \/ (p \in Executing /\ Min(todo) = n),
           calls[c].phase \in Executing =>
              Current(c) \in executedBatches' \/ (p \in Executing /\ todo = calls[c].todo)
    PROVE  StatesRecorded'
<1>1. SUFFICES ASSUME crashes = 0, NEW n \in states', n \notin executedBatches'
               PROVE  \E d \in Calls : calls'[d].phase \in Executing /\ Min(calls'[d].todo) = n
  BY DEF StatesRecorded, Current
<1>2. CASE p \in Executing /\ Min(todo) = n
  BY <1>2 DEF CallMoves
<1>3. CASE n \in states
  <2>1. PICK d \in Calls : calls[d].phase \in Executing /\ Min(calls[d].todo) = n
    BY <1>1, <1>3 DEF StatesRecorded, Current
  <2>2. CASE d = c
    BY <1>1, <2>1, <2>2 DEF CallMoves, Current
  <2>3. CASE d # c
    BY <2>1, <2>3 DEF CallMoves
  <2>. QED  BY <2>2, <2>3
<1>. QED  BY <1>1, <1>2, <1>3

\* No block's messages are lost while no block is stored and c is not storing any.
LEMMA MessagesStoredKept ==
    ASSUME MessagesStored, NEW c \in Calls, NEW p, NEW todo, NEW b, CallMoves(c, p, todo, b),
           UNCHANGED << blocks, l1Messages, crashes >>, calls[c].phase # "messages"
    PROVE  MessagesStored'
<1>1. ASSUME NEW x, StoringMessages(x) PROVE StoringMessages(x)'
  BY <1>1 DEF StoringMessages, CallMoves
<1>. QED  BY <1>1 DEF MessagesStored

\* Lost messages stay lost while c is not given a block to ingest.
LEMMA MessagesLostKept ==
    ASSUME MessagesLost, NEW c \in Calls, NEW p, NEW todo, NEW b, CallMoves(c, p, todo, b),
           UNCHANGED << blocks, l1Messages >>, p # "messages"
    PROVE  MessagesLost'
<1>1. PICK x \in blocks \ {L1Genesis} : x \notin l1Messages /\ ~StoringMessages(x)
  BY DEF MessagesLost
<1>2. ~StoringMessages(x)'
  BY <1>1 DEF StoringMessages, CallMoves
<1>. QED  BY <1>1, <1>2 DEF MessagesLost

\* The parent of a canonical batch, when it is stored, is canonical.
LEMMA ParentIsCanonical ==
    ASSUME IInv, NEW n \in canonicalBatches, n # L2GenesisSeqNo, ledger[n].parent \in Stored
    PROVE  ledger[n].parent \in canonicalBatches
<1> DEFINE m == ledger[n].parent
<1>1. TypeOK /\ L1Inv /\ FromLedger /\ AncestorsStored
  BY DEF IInv
<1>2. /\ blocks \subseteq L1Block /\ canonicalBatches \subseteq Stored /\ canonicalBlocks \subseteq blocks
  BY <1>1 DEF TypeOK, L1TypeOK, StorageTypeOK
<1>3. /\ n \in DOMAIN ledger /\ batch[n] = ledger[n]
      /\ m \in DOMAIN ledger /\ batch[m] = ledger[m]
  BY <1>1, <1>2 DEF FromLedger
<1>4. /\ ledger[n].l1Proof \in canonicalBlocks
      /\ m \in canonicalBatches <=> ledger[m].l1Proof \in canonicalBlocks
  BY <1>1, <1>2, <1>3 DEF L1Inv, BatchFlagsAgree
<1>5. /\ ledger[m].l1Proof \preceq ledger[n].l1Proof
      /\ ledger[m].l1Proof \in L1Block /\ ledger[n].l1Proof \in L1Block
  BY <1>1, <1>3, LedgerFacts
<1>6. PICK h \in blocks : IsTip(h)
  BY <1>2, <1>4 DEF IInv, L1Inv
<1>7. ledger[n].l1Proof \in blocks /\ ledger[n].l1Proof \preceq h
  BY <1>4, <1>6 DEF IsTip
<1>8. ledger[m].l1Proof \preceq h
  BY <1>2, <1>5, <1>7, PrecTransitive
<1>9. ledger[m].l1Proof \in blocks
  <2>1. Len(ledger[m].l1Proof) \in 0..Len(ledger[n].l1Proof)
    BY <1>5, BlockIsSeq DEF \preceq
  <2>. QED  BY <1>1, <1>5, <1>7, <2>1 DEF AncestorsStored, \preceq
<1>. QED  BY <1>4, <1>6, <1>8, <1>9 DEF IsTip

\* The other calls keep their guarantees when c moves, and c has its own.
LEMMA CallsKept ==
    ASSUME \A d \in Calls : CallOK(d), NEW c \in Calls, NEW p, NEW todo, NEW b,
           CallMoves(c, p, todo, b), CallOK(c)', UNCHANGED << ledger, env >>,
           Stored \subseteq Stored', states \subseteq states',
           executedBatches \subseteq executedBatches', blocks \subseteq blocks'
    PROVE  (\A d \in Calls : CallOK(d))'
<1>1. ASSUME NEW d \in Calls PROVE CallOK(d)'
  <2>1. CASE d = c
    BY <2>1
  <2>2. CASE d # c
    BY <2>2, OtherCallKept DEF CallMoves
  <2>. QED  BY <2>1, <2>2
<1>. QED  BY <1>1

\* What is left stays listed when c moves and keeps of its list what is left.
LEMMA LeftKept ==
    ASSUME LeftIsListed, NEW c \in Calls, NEW p, NEW todo, NEW b, CallMoves(c, p, todo, b),
           UNCHANGED << canonicalBatches, executedBatches, ledger >>,
           failed' = "no" => failed = "no",
           calls[c].phase \in Fetching => p \in Fetching,
           calls[c].phase \in Listing =>
              (p \in Listing \/ calls[c].todo = {}) /\ Unexecuted \cap calls[c].todo \subseteq todo
    PROVE  LeftIsListed'
<1>1. SUFFICES ASSUME failed = "no", failed' = "no" PROVE LeftIsListed'
  BY DEF LeftIsListed
<1>2. Unexecuted' = Unexecuted /\ \A D : Blocked(D)' <=> Blocked(D)
  BY DEF Unexecuted, Blocked, CanonicalExecuted
<1>3. CASE \E d \in Calls : calls[d].phase \in Fetching
  BY <1>3 DEF LeftIsListed, CallMoves
<1>4. CASE ~ \E d \in Calls : calls[d].phase \in Fetching
  <2>1. PICK D \in SUBSET Unexecuted :
              /\ Blocked(D)
              /\ \/ Unexecuted \subseteq D
                 \/ \E d \in Calls : calls[d].phase \in Listing /\ Unexecuted \ D \subseteq calls[d].todo
    BY <1>1, <1>4 DEF LeftIsListed
  <2>2. CASE Unexecuted \subseteq D
    BY <1>2, <2>1, <2>2 DEF LeftIsListed
  <2>3. ASSUME NEW d \in Calls, calls[d].phase \in Listing, Unexecuted \ D \subseteq calls[d].todo
        PROVE  LeftIsListed'
    <3>1. CASE d # c
      BY <1>2, <2>1, <2>3, <3>1 DEF LeftIsListed, CallMoves
    <3>2. CASE d = c /\ calls[c].todo = {}
      BY <1>2, <2>1, <2>3, <3>2 DEF LeftIsListed
    <3>3. CASE d = c /\ calls[c].todo # {}
      BY <1>2, <2>1, <2>3, <3>3 DEF LeftIsListed, CallMoves
    <3>. QED  BY <3>1, <3>2, <3>3
  <2>. QED  BY <2>1, <2>2, <2>3
<1>. QED  BY <1>3, <1>4

\* What holds of the only call is kept when c moves and takes up no list.
LEMMA OnlyCallKept ==
    ASSUME \A d \in Calls : OnlyCall(d), NEW c \in Calls, NEW p, NEW todo, NEW b,
           CallMoves(c, p, todo, b), p # "messages",
           UNCHANGED << blocks, l1Messages, executedBatches, failed, crashes, env >>,
           p \in Listing => calls[c].phase \in Listing /\ todo \subseteq calls[c].todo
    PROVE  (\A d \in Calls : OnlyCall(d))'
<1>1. MessagesLost => MessagesLost'
  BY MessagesLostKept
<1>2. ASSUME NEW d \in Calls PROVE OnlyCall(d)'
  <2>1. CASE d = c
    BY <1>1, <2>1 DEF OnlyCall, CallMoves
  <2>2. CASE d # c
    BY <1>1, <2>2 DEF OnlyCall, CallMoves
  <2>. QED  BY <2>1, <2>2
<1>. QED  BY <1>2

\* A step of call c that leaves the tables alone, and commits at most the state it is to record.
LEMMA CallStepPreserves ==
    ASSUME IInv, NEW c \in Calls, NEW p, NEW todo, NEW b, CallMoves(c, p, todo, b),
           UNCHANGED storageVars, UNCHANGED << l1Messages, ledger, crashes, env >>,
           calls[c].phase # "messages",
           failed' \in {failed, "no", "compute", "conflict"},
           \/ states' = states
           \/ /\ p \in Executing /\ Min(todo) \in Stored /\ states' = states \cup {Min(todo)}
              /\ Min(todo) = L2GenesisSeqNo \/ ledger[Min(todo)].parent \in states,
           calls[c].phase \in Executing =>
              Current(c) \in executedBatches \/ (p \in Executing /\ todo = calls[c].todo),
           CallOK(c)', LeftIsListed', (\A d \in Calls : OnlyCall(d))'
    PROVE  IInv'
<1>1. /\ TypeOK /\ L1Inv /\ StatesFounded /\ StatesRecorded /\ MessagesStored
      /\ \A d \in Calls : CallOK(d)
  BY DEF IInv
<1>2. /\ L1Inv' /\ FromLedger' /\ AncestorsStored'
      /\ UNCHANGED << Stored, blocks, executedBatches, canonicalBatches >>
  BY <1>1, SameTables DEF L1Inv, L1TypeOK
<1>3. TypeOK'
  BY <1>1, <1>2 DEF TypeOK, L1Inv, CallMoves
<1>4. StatesFounded'
  BY <1>1, <1>2 DEF StatesFounded
<1>5. (\A d \in Calls : CallOK(d))'
  <2>1. states \subseteq states'
    OBVIOUS
  <2>. QED  BY <1>1, <1>2, <2>1, CallsKept
<1>6. StatesRecorded'
  <2>1. \A n \in states' : n \in states \/ (p \in Executing /\ Min(todo) = n)
    OBVIOUS
  <2>. QED  BY <1>1, <1>2, <2>1, StatesRecordedKept
<1>7. MessagesStored'
  BY <1>1, <1>2, MessagesStoredKept
<1>. QED  BY <1>2, <1>3, <1>4, <1>5, <1>6, <1>7 DEF IInv

-------------------------------------------------------------------------------
\* The steps.

\* A call that has returned has nothing to do.
LEMMA IdleIsIdle == Idle.phase = "idle" /\ Idle.todo = {}
BY DEF Idle

\* A call that is not idle is one the host makes.
LEMMA NotIdle ==
    ASSUME IInv, NEW c \in Calls, calls[c].phase # "idle"
    PROVE  c \in env.calls
BY IdleIsIdle DEF IInv, CallOK

\* The list of a call is worked through.
LEMMA FinishPreserves ==
    ASSUME IInv, NEW c \in Calls, Finish(c)
    PROVE  IInv'
<1>1. /\ calls[c].phase = "next" /\ calls[c].todo = {} /\ Return(c)
      /\ UNCHANGED storageVars
      /\ UNCHANGED << l1Messages, ledger, states, failed, crashes, env >>
  BY DEF Finish, l1Vars
<1>2. TypeOK /\ L1Inv
  BY DEF IInv
<1>3. CallMoves(c, "idle", {}, L1Genesis) /\ calls'[c] = Idle
  BY <1>1, <1>2, ReturnMoves DEF TypeOK
<1>4. UNCHANGED << Stored, blocks, executedBatches, canonicalBatches >>
  BY <1>1 DEF storageVars, Stored
<1>5. CallOK(c)'
  BY <1>3, IdleIsIdle DEF CallOK, Executing, Listing, Ingesting
<1>6. LeftIsListed'
  BY <1>1, <1>3, <1>4, LeftKept DEF IInv, Fetching, Ingesting
<1>7. (\A d \in Calls : OnlyCall(d))'
  BY <1>1, <1>3, <1>4, OnlyCallKept DEF IInv, Listing
<1>. QED  BY <1>1, <1>3, <1>5, <1>6, <1>7, CallStepPreserves DEF Executing

\* The batches of a block's rollups are worked through.
LEMMA FinishIngestionPreserves ==
    ASSUME IInv, NEW c \in Calls, FinishIngestion(c)
    PROVE  IInv'
<1>1. /\ calls[c].phase = "rollup"
      /\ calls' = [ calls EXCEPT ![c] = [ Idle EXCEPT !.phase = "fetch" ] ]
      /\ UNCHANGED storageVars
      /\ UNCHANGED << l1Messages, ledger, states, failed, crashes, env >>
  BY DEF FinishIngestion, l1Vars
<1>2. TypeOK /\ L1Inv
  BY DEF IInv
<1>3. CallMoves(c, "fetch", {}, L1Genesis)
  <2>1. [ Idle EXCEPT !.phase = "fetch" ] \in Call
    BY GenesisHeight DEF Idle, Call
  <2>. QED  BY <1>1, <1>2, <2>1 DEF TypeOK, CallMoves, Idle
<1>4. UNCHANGED << Stored, blocks, executedBatches, canonicalBatches >>
  BY <1>1 DEF storageVars, Stored
<1>5. CallOK(c)'
  BY <1>1, <1>3, NotIdle DEF CallMoves, CallOK, Executing, Listing, Ingesting
<1>6. LeftIsListed'
  BY <1>3 DEF CallMoves, LeftIsListed, Fetching
<1>7. (\A d \in Calls : OnlyCall(d))'
  BY <1>1, <1>3, <1>4, OnlyCallKept DEF IInv, Listing
<1>. QED  BY <1>1, <1>3, <1>5, <1>6, <1>7, CallStepPreserves DEF Executing

\* A call reads what is canonical and not executed.
LEMMA FetchUnexecutedPreserves ==
    ASSUME IInv, NEW c \in Calls, FetchUnexecuted(c)
    PROVE  IInv'
<1>1. /\ calls[c].phase = "fetch" /\ failed' = "no"
      /\ calls' = [ calls EXCEPT ![c].phase = "next", ![c].todo = canonicalBatches \ executedBatches ]
      /\ UNCHANGED storageVars
      /\ UNCHANGED << l1Messages, ledger, states, crashes, env >>
  BY DEF FetchUnexecuted, l1Vars
<1>2. TypeOK /\ L1Inv
  BY DEF IInv
<1>3. CallMoves(c, "next", Unexecuted, calls[c].block)
  <2>1. Unexecuted \in SUBSET SeqNo
    BY <1>2 DEF Unexecuted, TypeOK, L1TypeOK, StorageTypeOK
  <2>2. "next" \in Phases
    BY DEF Phases
  <2>. QED  BY <1>1, <1>2, <2>1, <2>2, MoveMoves DEF TypeOK, Unexecuted
<1>4. UNCHANGED << Stored, blocks, executedBatches, canonicalBatches >>
  BY <1>1 DEF storageVars, Stored
<1>5. CallOK(c)'
  <2>1. ASSUME NEW n \in Unexecuted PROVE n \in Stored /\ ledger[n].l1Proof \in blocks
    <3>1. n \in Stored /\ n \in canonicalBatches /\ canonicalBlocks \subseteq blocks
      BY <1>2 DEF Unexecuted, TypeOK, L1TypeOK, StorageTypeOK
    <3>2. batch[n].l1Proof \in canonicalBlocks /\ batch[n] = ledger[n]
      BY <1>2, <3>1 DEF IInv, L1Inv, BatchFlagsAgree, FromLedger
    <3>. QED  BY <3>1, <3>2
  <2>. QED
    BY <1>1, <1>3, <1>4, <2>1, NotIdle DEF CallMoves, CallOK, Executing, Listing, Ingesting
<1>6. LeftIsListed'
  <2>1. Unexecuted' = Unexecuted /\ Blocked({})'
    BY <1>4 DEF Unexecuted, Blocked
  <2>2. calls'[c].phase \in Listing /\ Unexecuted' \ {} \subseteq calls'[c].todo
    BY <1>3, <2>1 DEF CallMoves, Listing
  <2>. QED  BY <2>1, <2>2 DEF LeftIsListed
<1>7. (\A d \in Calls : OnlyCall(d))'
  <2>1. ASSUME NEW d \in Calls, env.calls = {d} PROVE OnlyCall(d)'
    <3>1. d = c
      BY <1>1, <2>1, NotIdle
    <3>. QED  BY <1>1, <1>3, <1>4, <3>1 DEF OnlyCall, CallMoves, Unexecuted
  <2>. QED  BY <1>1, <2>1 DEF OnlyCall
<1>. QED  BY <1>1, <1>3, <1>5, <1>6, <1>7, CallStepPreserves DEF Executing

\* A call looks whether the batch it has executed is recorded already.
LEMMA ReadExecutedPreserves ==
    ASSUME IInv, NEW c \in Calls, ReadExecuted(c)
    PROVE  IInv'
<1> DEFINE n == Current(c)
<1>1. /\ calls[c].phase \in {"read", "rollupRead"}
      /\ UNCHANGED storageVars
      /\ UNCHANGED << l1Messages, ledger, states, failed, crashes, env >>
  BY DEF ReadExecuted, l1Vars
<1>2. TypeOK /\ L1Inv /\ CallOK(c) /\ calls \in [Calls -> Call]
  BY DEF IInv, TypeOK
<1>a. calls[c].todo # {} /\ n \in calls[c].todo /\ n \in states
  BY <1>1, <1>2, CurrentIsLeast DEF CallOK, Executing
<1>3. PICK p \in Phases, todo \in SUBSET SeqNo :
         /\ CallMoves(c, p, todo, calls[c].block)
         /\ calls[c].phase = "read" => p \in {"next", "write"}
         /\ calls[c].phase = "rollupRead" => p \in {"rollup", "rollupWrite"}
         /\ p \in {"write", "rollupWrite"} => todo = calls[c].todo
         /\ p \in {"next", "rollup"} => todo = calls[c].todo \ {n} /\ n \in CanonicalExecuted
  <2>0. calls[c].todo \in SUBSET SeqNo
    BY <1>2 DEF Call
  <2>1. CASE n \in CanonicalExecuted /\ calls[c].phase = "read"
    <3>1. Done(c, "next") /\ "next" \in Phases
      BY <2>1 DEF ReadExecuted, Phases
    <3>. QED  BY <1>2, <2>0, <2>1, <3>1, DoneMoves
  <2>2. CASE n \in CanonicalExecuted /\ calls[c].phase = "rollupRead"
    <3>1. Done(c, "rollup") /\ "rollup" \in Phases
      BY <2>2 DEF ReadExecuted, Phases
    <3>. QED  BY <1>2, <2>0, <2>2, <3>1, DoneMoves
  <2>3. CASE n \notin CanonicalExecuted /\ calls[c].phase = "read"
    <3>1. Goto(c, "write") /\ "write" \in Phases
      BY <2>3 DEF ReadExecuted, Phases
    <3>. QED  BY <1>2, <2>0, <2>3, <3>1, GotoMoves
  <2>4. CASE n \notin CanonicalExecuted /\ calls[c].phase = "rollupRead"
    <3>1. Goto(c, "rollupWrite") /\ "rollupWrite" \in Phases
      BY <2>4 DEF ReadExecuted, Phases
    <3>. QED  BY <1>2, <2>0, <2>4, <3>1, GotoMoves
  <2>. QED  BY <1>1, <2>1, <2>2, <2>3, <2>4
<1>4. UNCHANGED << Stored, blocks, executedBatches, canonicalBatches >>
  BY <1>1 DEF storageVars, Stored
<1>5. CallOK(c)'
  <2>1. c \in env.calls
    BY <1>1, NotIdle
  <2>2. p \in {"write", "rollupWrite"} => Current(c)' = n /\ calls'[c].todo = calls[c].todo
    BY <1>3 DEF Current, CallMoves
  <2>3. CASE p = "write"
    BY <1>1, <1>2, <1>3, <1>4, <1>a, <2>1, <2>2, <2>3
    DEF CallMoves, CallOK, Executing, Listing, Ingesting
  <2>4. CASE p = "rollupWrite"
    BY <1>1, <1>2, <1>3, <1>4, <1>a, <2>1, <2>2, <2>4
    DEF CallMoves, CallOK, Executing, Listing, Ingesting
  <2>5. CASE p = "next"
    BY <1>1, <1>2, <1>3, <1>4, <2>1, <2>5 DEF CallMoves, CallOK, Executing, Listing, Ingesting
  <2>6. CASE p = "rollup"
    BY <1>1, <1>2, <1>3, <1>4, <2>1, <2>6 DEF CallMoves, CallOK, Executing, Listing, Ingesting
  <2>. QED  BY <1>1, <1>3, <2>3, <2>4, <2>5, <2>6
<1>b. n \in executedBatches \/ (p \in Executing /\ todo = calls[c].todo)
  BY <1>1, <1>3 DEF Executing, CanonicalExecuted
<1>6. LeftIsListed'
  <2>1. calls[c].phase \in Fetching => p \in Fetching
    BY <1>1, <1>3 DEF Fetching, Ingesting
  <2>2. calls[c].phase \in Listing => p \in Listing /\ Unexecuted \cap calls[c].todo \subseteq todo
    BY <1>1, <1>3 DEF Listing, Unexecuted, CanonicalExecuted
  <2>. QED  BY <1>1, <1>3, <1>4, <2>1, <2>2, LeftKept DEF IInv
<1>7. (\A d \in Calls : OnlyCall(d))'
  <2>1. p \in Listing => calls[c].phase \in Listing /\ todo \subseteq calls[c].todo
    BY <1>1, <1>3 DEF Listing
  <2>. QED  BY <1>1, <1>3, <1>4, <2>1, OnlyCallKept DEF IInv
<1>. QED  BY <1>1, <1>3, <1>5, <1>b, <1>6, <1>7, CallStepPreserves

\* A batch whose parent is not executed is skipped, and is blocked from then on.
LEMMA SkipPreserves ==
    ASSUME IInv, NEW c \in Calls, calls[c].phase = "next", calls[c].todo # {},
           Current(c) # L2GenesisSeqNo, ledger[Current(c)].parent \notin CanonicalExecuted,
           Done(c, "next"), UNCHANGED << l1Vars, ledger, states, failed, crashes, env >>
    PROVE  IInv'
<1> DEFINE n == Current(c)
           todo == calls[c].todo \ {n}
<1>1. UNCHANGED storageVars /\ UNCHANGED << l1Messages, ledger, states, failed, crashes, env >>
  BY DEF l1Vars
<1>2. TypeOK /\ L1Inv /\ CallOK(c) /\ calls \in [Calls -> Call]
  BY DEF IInv, TypeOK
<1>a. n \in calls[c].todo /\ \A m \in calls[c].todo : n <= m
  BY <1>2, CurrentIsLeast
<1>b. n \in Stored
  BY <1>2, <1>a DEF CallOK, Listing
<1>3. CallMoves(c, "next", todo, calls[c].block)
  BY <1>2, DoneMoves DEF Phases
<1> HIDE DEF todo
<1>4. UNCHANGED << Stored, blocks, executedBatches, canonicalBatches >>
  BY <1>1 DEF storageVars, Stored
<1>5. CallOK(c)'
  BY <1>1, <1>2, <1>3, <1>4, NotIdle DEF CallMoves, CallOK, Executing, Listing, Ingesting, todo
<1>6. LeftIsListed'
  <2>1. Unexecuted' = Unexecuted /\ \A D : Blocked(D)' <=> Blocked(D)
    BY <1>1, <1>4 DEF Unexecuted, Blocked, CanonicalExecuted
  <2>2. CASE failed # "no" \/ \E d \in Calls : calls[d].phase \in Fetching
    <3>1. \A d \in Calls : calls[d].phase \in Fetching => calls'[d].phase \in Fetching
      BY <1>3 DEF CallMoves, Fetching, Ingesting
    <3>. QED  BY <1>1, <2>2, <3>1 DEF LeftIsListed
  <2>3. CASE failed = "no" /\ ~ \E d \in Calls : calls[d].phase \in Fetching
    <3>1. PICK D \in SUBSET Unexecuted :
              /\ Blocked(D)
              /\ \/ Unexecuted \subseteq D
                 \/ \E d \in Calls : calls[d].phase \in Listing /\ Unexecuted \ D \subseteq calls[d].todo
      BY <2>3 DEF IInv, LeftIsListed
    <3>2. CASE Unexecuted \subseteq D
      BY <2>1, <3>1, <3>2 DEF LeftIsListed
    <3>3. ASSUME NEW d \in Calls, d # c, calls[d].phase \in Listing, Unexecuted \ D \subseteq calls[d].todo
          PROVE  LeftIsListed'
      BY <1>3, <2>1, <3>1, <3>3 DEF LeftIsListed, CallMoves
    <3>4. CASE Unexecuted \ D \subseteq calls[c].todo
      <4> DEFINE E == D \cup ({n} \cap Unexecuted)
      <4>1. n \in DOMAIN ledger /\ n \in Nat /\ ledger[n].parent \in Nat /\ ledger[n].parent < n
        <5>1. n \in DOMAIN ledger
          BY <1>b DEF IInv, FromLedger
        <5>2. n \in SeqNo /\ ledger[n].parent \in SeqNo /\ ledger[n].parent < n
          BY <1>2, <5>1, LedgerFacts
        <5>. QED  BY <5>1, <5>2, MaxSeqNoAssumption DEF SeqNo
      <4>2. ledger[n].parent \notin calls[c].todo
        BY <1>a, <4>1
      <4>3. ledger[n].parent \in Unexecuted => ledger[n].parent \in D
        BY <3>4, <4>2
      <4>4. Blocked(E) /\ E \in SUBSET Unexecuted
        BY <3>1, <4>3 DEF Blocked
      <4>5. calls'[c].phase \in Listing /\ Unexecuted \ E \subseteq calls'[c].todo
        BY <1>3, <3>4 DEF CallMoves, Listing, todo
      <4> HIDE DEF E
      <4>. QED  BY <2>1, <4>4, <4>5 DEF LeftIsListed
    <3>. QED  BY <3>1, <3>2, <3>3, <3>4
  <2>. QED  BY <2>2, <2>3
<1>7. (\A d \in Calls : OnlyCall(d))'
  BY <1>1, <1>3, <1>4, OnlyCallKept DEF IInv, Listing, todo
<1>. QED  BY <1>1, <1>3, <1>5, <1>6, <1>7, CallStepPreserves DEF Executing

\* The state of the batch is committed.
LEMMA ExecutePreserves ==
    ASSUME IInv, NEW c \in Calls, calls[c].phase = "next", calls[c].todo # {},
           Current(c) = L2GenesisSeqNo \/ ledger[Current(c)].parent \in CanonicalExecuted,
           Goto(c, "read"), states' = states \cup {Current(c)},
           UNCHANGED << l1Vars, ledger, failed, crashes, env >>
    PROVE  IInv'
<1> DEFINE n == Current(c)
<1>1. UNCHANGED storageVars /\ UNCHANGED << l1Messages, ledger, failed, crashes, env >>
  BY DEF l1Vars
<1>2. TypeOK /\ L1Inv /\ CallOK(c) /\ calls \in [Calls -> Call]
  BY DEF IInv, TypeOK
<1>a. n \in calls[c].todo
  BY <1>2, CurrentIsLeast
<1>b. n \in Stored
  BY <1>2, <1>a DEF CallOK, Listing
<1>3. CallMoves(c, "read", calls[c].todo, calls[c].block) /\ Current(c)' = n
  BY <1>2, GotoMoves DEF Phases, CallMoves, Current
<1>4. UNCHANGED << Stored, blocks, executedBatches, canonicalBatches >>
  BY <1>1 DEF storageVars, Stored
<1>5. CallOK(c)'
  BY <1>1, <1>2, <1>3, <1>4, NotIdle
  DEF CallMoves, CallOK, Executing, Listing, Ingesting, CanonicalExecuted
<1>6. LeftIsListed'
  BY <1>1, <1>3, <1>4, LeftKept DEF IInv, Fetching, Ingesting, Listing
<1>7. (\A d \in Calls : OnlyCall(d))'
  BY <1>1, <1>3, <1>4, OnlyCallKept DEF IInv, Listing
<1>8. /\ Min(calls[c].todo) = n
      /\ n = L2GenesisSeqNo \/ ledger[n].parent \in states
  BY DEF Current, IInv, StatesFounded, CanonicalExecuted
<1>. QED  BY <1>1, <1>3, <1>b, <1>5, <1>6, <1>7, <1>8, CallStepPreserves DEF Executing

\* Without a crash and a second call, only lost messages make ComputeBatch fail.
LEMMA FailureIsLostMessages ==
    ASSUME IInv, NEW c \in Calls, env.calls = {c}, calls[c].phase = "next",
           NEW n \in calls[c].todo, n # L2GenesisSeqNo,
           ledger[n].parent \in CanonicalExecuted, ~Computes(n)
    PROVE  crashes > 0 /\ MessagesLost
<1> DEFINE m == ledger[n].parent
           x == ledger[n].l1Proof
           y == ledger[m].l1Proof
<1>1. TypeOK /\ CallOK(c) /\ FromLedger /\ AncestorsStored /\ MessagesStored
  BY DEF IInv
<1>2. n \in Stored /\ x \in blocks
  BY <1>1 DEF CallOK, Listing
<1>3. m \in Stored \cap states
  BY <1>1 DEF IInv, TypeOK, StatesFounded, CanonicalExecuted
<1>4. /\ n \in DOMAIN ledger /\ m \in DOMAIN ledger /\ batch[m] = ledger[m]
      /\ x \in L1Block /\ y \in L1Block /\ y \preceq x
  BY <1>1, <1>2, <1>3, LedgerFacts DEF FromLedger
<1>5. Len(y) \in Nat /\ Len(x) \in Nat /\ Len(y) <= Len(x) /\ y = Upto(x, Len(y))
  BY <1>4, BlockIsSeq DEF \preceq
<1>6. y \in blocks
  BY <1>1, <1>2, <1>5 DEF AncestorsStored
<1>7. ~(ForkPath(x, y) \subseteq l1Messages)
  BY <1>2, <1>3, <1>4, <1>6 DEF Computes
<1>8. PICK k \in (Len(y) + 1)..Len(x) : Upto(x, k) \notin l1Messages
  BY <1>7 DEF ForkPath
<1>9. Upto(x, k) \in blocks \ {L1Genesis}
  <2>1. k \in 0..Len(x) /\ k # 0
    BY <1>5
  <2>2. Len(Upto(x, k)) # Len(L1Genesis)
    BY <1>4, <2>1, UptoBlock, GenesisHeight
  <2>. QED  BY <1>1, <1>2, <2>1, <2>2 DEF AncestorsStored
<1>10. ~StoringMessages(Upto(x, k))
  BY NotIdle DEF StoringMessages
<1>11. MessagesLost
  BY <1>8, <1>9, <1>10 DEF MessagesLost
<1>. QED  BY <1>1, <1>8, <1>9, <1>10, <1>11 DEF MessagesStored

\* ComputeBatch fails, and the execution is cut short.
LEMMA FailPreserves ==
    ASSUME IInv, NEW c \in Calls, calls[c].phase = "next", calls[c].todo # {},
           Current(c) # L2GenesisSeqNo, ledger[Current(c)].parent \in CanonicalExecuted,
           ~Computes(Current(c)), Return(c), failed' = "compute",
           UNCHANGED << l1Vars, ledger, states, crashes, env >>
    PROVE  IInv'
<1>1. UNCHANGED storageVars /\ UNCHANGED << l1Messages, ledger, states, crashes, env >>
  BY DEF l1Vars
<1>2. TypeOK /\ L1Inv /\ calls \in [Calls -> Call]
  BY DEF IInv, TypeOK
<1>3. CallMoves(c, "idle", {}, L1Genesis) /\ calls'[c] = Idle
  BY <1>1, <1>2, ReturnMoves
<1>4. UNCHANGED << Stored, blocks, executedBatches, canonicalBatches >>
  BY <1>1 DEF storageVars, Stored
<1>5. CallOK(c)'
  BY <1>3, IdleIsIdle DEF CallOK, Executing, Listing, Ingesting
<1>6. LeftIsListed'
  BY DEF LeftIsListed
<1>7. (\A d \in Calls : OnlyCall(d))'
  <2>1. ASSUME NEW d \in Calls, env.calls = {d} PROVE OnlyCall(d)'
    <3>1. d = c
      BY <2>1, NotIdle
    <3>2. Current(c) \in calls[c].todo
      BY <1>2, CurrentIsLeast
    <3>3. crashes > 0 /\ MessagesLost
      BY <2>1, <3>1, <3>2, FailureIsLostMessages
    <3>4. MessagesLost'
      BY <1>1, <1>3, <1>4, <3>3, MessagesLostKept
    <3>. QED  BY <1>1, <1>3, <3>1, <3>3, <3>4, IdleIsIdle DEF OnlyCall, Listing
  <2>. QED  BY <1>1, <2>1 DEF OnlyCall
<1>. QED  BY <1>1, <1>3, <1>5, <1>6, <1>7, CallStepPreserves DEF Executing

\* A call is at the next batch of its list: it skips it, executes it or fails.
LEMMA ExecuteNextPreserves ==
    ASSUME IInv, NEW c \in Calls, ExecuteNext(c)
    PROVE  IInv'
<1> DEFINE n == Current(c)
<1>1. calls[c].phase = "next" /\ calls[c].todo # {} /\ UNCHANGED << l1Vars, ledger, crashes, env >>
  BY DEF ExecuteNext
<1>2. CASE n # L2GenesisSeqNo /\ ledger[n].parent \notin CanonicalExecuted
  BY <1>1, <1>2, SkipPreserves DEF ExecuteNext
<1>3. CASE /\ n = L2GenesisSeqNo \/ ledger[n].parent \in CanonicalExecuted
           /\ n = L2GenesisSeqNo \/ Computes(n)
  BY <1>1, <1>3, ExecutePreserves DEF ExecuteNext
<1>4. CASE n # L2GenesisSeqNo /\ ledger[n].parent \in CanonicalExecuted /\ ~Computes(n)
  BY <1>1, <1>4, FailPreserves DEF ExecuteNext
<1>. QED  BY <1>2, <1>3, <1>4

\* The receipts of the batch are already there: the call, or its rollup, ends.
LEMMA ConflictPreserves ==
    ASSUME IInv, NEW c \in Calls, calls[c].phase \in {"write", "rollupWrite"},
           Current(c) \in executedBatches,
           UNCHANGED storageVars, UNCHANGED << l1Messages, ledger, states, crashes, env >>,
           \/ /\ calls[c].phase = "rollupWrite" /\ failed' = failed
              /\ calls' = [ calls EXCEPT ![c].phase = "rollup", ![c].todo = {} ]
           \/ calls[c].phase = "write" /\ failed' = "conflict" /\ Return(c)
    PROVE  IInv'
<1>1. UNCHANGED storageVars /\ UNCHANGED << l1Messages, ledger, states, crashes, env >>
  OBVIOUS
<1>2. TypeOK /\ L1Inv /\ CallOK(c) /\ calls \in [Calls -> Call]
  BY DEF IInv, TypeOK
<1>3. PICK p \in {"rollup", "idle"}, b \in {calls[c].block, L1Genesis} :
         /\ CallMoves(c, p, {}, b)
         /\ p = "rollup" => calls[c].phase = "rollupWrite" /\ failed' = failed
         /\ p = "idle" => calls[c].phase = "write" /\ failed' = "conflict" /\ calls'[c] = Idle
  <2>1. CASE calls' = [ calls EXCEPT ![c].phase = "rollup", ![c].todo = {} ] /\ calls[c].phase = "rollupWrite"
    BY <1>2, <2>1, MoveMoves DEF Phases
  <2>2. CASE Return(c) /\ calls[c].phase = "write"
    BY <1>2, <2>2, ReturnMoves
  <2>. QED  BY <2>1, <2>2
<1>4. UNCHANGED << Stored, blocks, executedBatches, canonicalBatches >>
  BY <1>1 DEF storageVars, Stored
<1>5. CallOK(c)'
  BY <1>1, <1>3, NotIdle DEF CallMoves, CallOK, Executing, Listing, Ingesting
<1>6. LeftIsListed'
  BY <1>3 DEF CallMoves, LeftIsListed, Fetching, Ingesting
<1>7. (\A d \in Calls : OnlyCall(d))'
  <2>1. CASE p = "rollup"
    BY <1>1, <1>3, <1>4, <2>1, OnlyCallKept DEF IInv, Listing
  <2>2. CASE p = "idle"
    <3>1. env.calls # {c}
      BY <1>2, <1>3, <2>2, CurrentIsLeast DEF IInv, OnlyCall, CallOK, Executing, Listing
    <3>2. c \in env.calls
      BY NotIdle
    <3>. QED  BY <1>1, <3>1, <3>2 DEF OnlyCall
  <2>. QED  BY <2>1, <2>2
<1>. QED  BY <1>1, <1>3, <1>5, <1>6, <1>7, CallStepPreserves

\* The batch is recorded as executed.
LEMMA RecordPreserves ==
    ASSUME IInv, NEW c \in Calls, StoreExecutedBatch(Current(c)),
           \/ calls[c].phase = "write" /\ Done(c, "next")
           \/ calls[c].phase = "rollupWrite" /\ Done(c, "rollup"),
           UNCHANGED << l1Messages, ledger, states, failed, crashes, env >>
    PROVE  IInv'
<1> DEFINE n == Current(c)
           todo == calls[c].todo \ {n}
<1>2. TypeOK /\ L1Inv /\ CallOK(c) /\ calls \in [Calls -> Call]
  BY DEF IInv, TypeOK
<1>a. calls[c].todo # {} /\ n \in calls[c].todo /\ n \in states /\ n \in Stored
  BY <1>2, CurrentIsLeast DEF CallOK, Executing, TypeOK
<1>3. PICK p \in {"next", "rollup"} :
         /\ CallMoves(c, p, todo, calls[c].block)
         /\ p = "next" <=> calls[c].phase = "write"
         /\ p = "rollup" <=> calls[c].phase = "rollupWrite"
  BY <1>2, DoneMoves DEF Phases
<1> HIDE DEF todo
<1>4. L1Inv'
  BY <1>2, <1>a, StoreExecutedPreserves
<1>5. /\ executedBatches' = executedBatches \cup {n}
      /\ UNCHANGED << blocks, batch, canonicalBatches, Stored >>
  BY DEF StoreExecutedBatch, Stored
<1> HIDE DEF n
<1>6. FromLedger' /\ AncestorsStored'
  BY <1>5 DEF IInv, FromLedger, AncestorsStored
<1>7. TypeOK'
  BY <1>2, <1>3, <1>4, <1>5 DEF TypeOK, L1Inv, CallMoves
<1>8. StatesFounded'
  BY <1>5, <1>a DEF IInv, StatesFounded
<1>9. CallOK(c)'
  BY <1>2, <1>3, <1>5, NotIdle DEF CallMoves, CallOK, Executing, Listing, Ingesting, todo
<1>10. (\A d \in Calls : CallOK(d))'
  BY <1>3, <1>5, <1>9, CallsKept DEF IInv
<1>11. StatesRecorded'
  BY <1>3, <1>5, StatesRecordedKept DEF IInv, n
<1>12. LeftIsListed'
  <2>1. CASE p = "rollup"
    BY <1>3, <2>1 DEF CallMoves, LeftIsListed, Fetching, Ingesting
  <2>2. CASE failed # "no"
    BY <2>2 DEF LeftIsListed
  <2>3. CASE \E d \in Calls : calls[d].phase \in Fetching /\ d # c
    BY <1>3, <2>3 DEF CallMoves, LeftIsListed
  <2>4. CASE p = "next" /\ failed = "no" /\ ~ \E d \in Calls : calls[d].phase \in Fetching /\ d # c
    <3>1. calls[c].phase = "write" /\ calls[c].phase \notin Fetching
      BY <1>3, <2>4 DEF Fetching, Ingesting
    <3>2. PICK D \in SUBSET Unexecuted :
              /\ Blocked(D)
              /\ \/ Unexecuted \subseteq D
                 \/ \E d \in Calls : calls[d].phase \in Listing /\ Unexecuted \ D \subseteq calls[d].todo
      BY <2>4, <3>1 DEF IInv, LeftIsListed
    <3>3. n \notin D
      <4>1. CASE n \notin canonicalBatches \/ n = L2GenesisSeqNo
        BY <3>2, <4>1 DEF Unexecuted, Blocked
      <4>2. CASE n \in canonicalBatches /\ n # L2GenesisSeqNo
        <5>1. ledger[n].parent \in executedBatches
          BY <1>2, <3>1, <4>2 DEF CallOK, n
        <5>2. ledger[n].parent \in canonicalBatches
          BY <1>2, <4>2, <5>1, ParentIsCanonical DEF TypeOK, L1TypeOK, StorageTypeOK
        <5>. QED  BY <3>2, <5>1, <5>2 DEF Blocked, CanonicalExecuted
      <4>. QED  BY <4>1, <4>2
    <3>4. Unexecuted' = Unexecuted \ {n}
      BY <1>5 DEF Unexecuted
    <3>5. Blocked(D)' /\ D \in SUBSET Unexecuted'
      <4>1. \A m \in D : ledger[m].parent \notin CanonicalExecuted'
        BY <1>5, <3>2, <3>3 DEF Blocked, CanonicalExecuted, Unexecuted
      <4>. QED  BY <3>2, <3>3, <3>4, <4>1 DEF Blocked
    <3>6. CASE Unexecuted \subseteq D
      BY <3>4, <3>5, <3>6 DEF LeftIsListed
    <3>7. ASSUME NEW d \in Calls, calls[d].phase \in Listing, Unexecuted \ D \subseteq calls[d].todo
          PROVE  LeftIsListed'
      <4>1. calls'[d].phase \in Listing /\ Unexecuted' \ D \subseteq calls'[d].todo
        BY <1>3, <2>4, <3>4, <3>7 DEF CallMoves, Listing, todo
      <4>. QED  BY <3>5, <4>1 DEF LeftIsListed
    <3>. QED  BY <3>2, <3>6, <3>7
  <2>. QED  BY <2>1, <2>2, <2>3, <2>4
<1>13. MessagesStored'
  BY <1>3, <1>5, MessagesStoredKept DEF IInv
<1>14. (\A d \in Calls : OnlyCall(d))'
  <2>1. ASSUME NEW d \in Calls, env.calls = {d} PROVE OnlyCall(d)'
    <3>1. d = c
      BY <2>1, NotIdle
    <3>2. MessagesLost => MessagesLost'
      BY <1>3, <1>5, MessagesLostKept
    <3>3. calls[c].phase = "write" => calls[c].todo \cap executedBatches = {}
      BY <2>1, <3>1 DEF IInv, OnlyCall, Listing
    <3>4. calls'[c].phase \in Listing => calls'[c].todo \cap executedBatches' = {}
      BY <1>3, <1>5, <3>3 DEF CallMoves, Listing, todo
    <3>. QED  BY <2>1, <3>1, <3>2, <3>4 DEF IInv, OnlyCall
  <2>. QED  BY <2>1 DEF OnlyCall
<1>. QED  BY <1>4, <1>6, <1>7, <1>8, <1>10, <1>11, <1>12, <1>13, <1>14 DEF IInv

\* A call records the batch it has executed.
LEMMA WriteExecutedPreserves ==
    ASSUME IInv, NEW c \in Calls, WriteExecuted(c)
    PROVE  IInv'
<1>1. /\ calls[c].phase \in {"write", "rollupWrite"}
      /\ UNCHANGED << l1Messages, ledger, states, crashes, env >>
  BY DEF WriteExecuted
<1>2. CASE Current(c) \in executedBatches /\ batch[Current(c)].txs # {}
  <2>1. UNCHANGED storageVars
    BY <1>2 DEF WriteExecuted
  <2>2. CASE calls[c].phase = "write"
    BY <1>1, <1>2, <2>1, <2>2, ConflictPreserves DEF WriteExecuted
  <2>3. CASE calls[c].phase = "rollupWrite"
    BY <1>1, <1>2, <2>1, <2>3, ConflictPreserves DEF WriteExecuted
  <2>. QED  BY <1>1, <2>2, <2>3
<1>3. CASE ~(Current(c) \in executedBatches /\ batch[Current(c)].txs # {})
  <2>1. StoreExecutedBatch(Current(c)) /\ failed' = failed
    BY <1>3 DEF WriteExecuted
  <2>2. CASE calls[c].phase = "write"
    BY <1>1, <1>3, <2>1, <2>2, RecordPreserves DEF WriteExecuted
  <2>3. CASE calls[c].phase = "rollupWrite"
    BY <1>1, <1>3, <2>1, <2>3, RecordPreserves DEF WriteExecuted
  <2>. QED  BY <1>1, <2>2, <2>3
<1>. QED  BY <1>2, <1>3

\* The cross chain messages of a block are stored.
LEMMA StoreMessagesPreserves ==
    ASSUME IInv, NEW c \in Calls, StoreMessages(c)
    PROVE  IInv'
<1>1. /\ calls[c].phase = "messages"
      /\ UNCHANGED storageVars /\ UNCHANGED << ledger, states, failed, crashes, env >>
      /\ l1Messages' = IF blocks = {calls[c].block} THEN l1Messages ELSE l1Messages \cup {calls[c].block}
  BY DEF StoreMessages
<1>2. TypeOK /\ L1Inv /\ CallOK(c) /\ calls \in [Calls -> Call]
  BY DEF IInv, TypeOK
<1>3. PICK todo \in SUBSET SeqNo : /\ CallMoves(c, "rollup", todo, calls[c].block)
                                   /\ todo \subseteq calls[c].todo
  <2> DEFINE keep == \/ L2GenesisSeqNo \in calls[c].todo
                     \/ FirstCanonical(c) # {} /\ ledger[Min(FirstCanonical(c))].parent \in Stored
             todo == IF keep THEN calls[c].todo ELSE {}
  <2>1. calls' = [ calls EXCEPT ![c].phase = "rollup", ![c].todo = todo ]
    BY DEF StoreMessages
  <2> HIDE DEF keep
  <2>2. todo \in SUBSET SeqNo /\ todo \subseteq calls[c].todo
    BY <1>2 DEF Call
  <2>3. "rollup" \in Phases
    BY DEF Phases
  <2> HIDE DEF todo
  <2>. QED  BY <1>2, <2>1, <2>2, <2>3, MoveMoves
<1>4. /\ L1Inv' /\ FromLedger' /\ AncestorsStored'
      /\ UNCHANGED << Stored, blocks, executedBatches, canonicalBatches >>
  <2>1. l1Messages' \subseteq blocks
    BY <1>1, <1>2 DEF L1Inv, L1TypeOK, CallOK
  <2>. QED  BY <1>1, <2>1, SameTables
<1>5. TypeOK'
  BY <1>1, <1>2, <1>3, <1>4 DEF TypeOK, L1Inv, CallMoves
<1>6. StatesFounded'
  BY <1>1, <1>4 DEF IInv, StatesFounded
<1>7. CallOK(c)'
  BY <1>1, <1>2, <1>3, NotIdle DEF CallMoves, CallOK, Executing, Listing, Ingesting
<1>8. (\A d \in Calls : CallOK(d))'
  BY <1>1, <1>3, <1>4, <1>7, CallsKept DEF IInv
<1>9. StatesRecorded'
  BY <1>1, <1>3, <1>4, StatesRecordedKept DEF IInv, Executing
<1>10. LeftIsListed'
  BY <1>3 DEF CallMoves, LeftIsListed, Fetching, Ingesting
<1>11. MessagesStored'
  <2>1. SUFFICES ASSUME NEW x \in blocks \ {L1Genesis}
                 PROVE  x \in l1Messages' \/ crashes > 0 \/ StoringMessages(x)'
    BY <1>1, <1>4 DEF MessagesStored
  <2>2. CASE x \in l1Messages \/ crashes > 0
    BY <1>1, <2>2
  <2>3. CASE x = calls[c].block
    <3>1. L1Genesis \in blocks
      <4>1. x \in L1Block /\ Len(x) \in Nat
        BY <1>2, BlockIsSeq DEF TypeOK, L1TypeOK, StorageTypeOK
      <4>2. Upto(x, 0) = L1Genesis /\ 0 \in 0..Len(x)
        BY <4>1, UptoZero
      <4>. QED  BY <4>2 DEF IInv, AncestorsStored
    <3>. QED  BY <1>1, <2>3, <3>1
  <2>4. CASE StoringMessages(x) /\ x # calls[c].block
    BY <1>3, <2>4 DEF StoringMessages, CallMoves
  <2>. QED  BY <2>2, <2>3, <2>4 DEF IInv, MessagesStored
<1>12. (\A d \in Calls : OnlyCall(d))'
  <2>1. ASSUME MessagesLost PROVE MessagesLost'
    <3>1. PICK x \in blocks \ {L1Genesis} : x \notin l1Messages /\ ~StoringMessages(x)
      BY <2>1 DEF MessagesLost
    <3>2. x \notin l1Messages'
      BY <1>1, <3>1 DEF StoringMessages
    <3>3. ~StoringMessages(x)'
      BY <1>3, <3>1 DEF StoringMessages, CallMoves
    <3>. QED  BY <1>4, <3>1, <3>2, <3>3 DEF MessagesLost
  <2>2. ASSUME NEW d \in Calls PROVE OnlyCall(d)'
    <3>1. CASE d = c
      BY <1>1, <1>3, <2>1, <3>1 DEF IInv, OnlyCall, CallMoves, Listing
    <3>2. CASE d # c
      BY <1>1, <1>3, <1>4, <2>1, <3>2 DEF IInv, OnlyCall, CallMoves
    <3>. QED  BY <3>1, <3>2
  <2>. QED  BY <2>2
<1>. QED  BY <1>4, <1>5, <1>6, <1>8, <1>9, <1>10, <1>11, <1>12 DEF IInv

\* A call is at the next batch of a rollup.
LEMMA ProcessRollupBatchPreserves ==
    ASSUME IInv, NEW c \in Calls, ProcessRollupBatch(c)
    PROVE  IInv'
<1> DEFINE n == Current(c)
<1>1. /\ calls[c].phase = "rollup" /\ calls[c].todo # {}
      /\ UNCHANGED << l1Messages, ledger, failed, crashes, env >>
  BY DEF ProcessRollupBatch
<1>2. TypeOK /\ L1Inv /\ CallOK(c) /\ calls \in [Calls -> Call] /\ calls[c].todo \in SUBSET SeqNo
  BY DEF IInv, TypeOK, Call
<1>a. n \in calls[c].todo /\ n \in DOMAIN ledger
  BY <1>1, <1>2, CurrentIsLeast DEF CallOK, Ingesting
<1>b. {"rollup", "rollupRead"} \subseteq Phases /\ l1Messages \subseteq blocks
  BY <1>2 DEF Phases, L1Inv, L1TypeOK
<1> DEFINE Tables == /\ L1Inv' /\ FromLedger' /\ AncestorsStored' /\ Stored \subseteq Stored'
                     /\ UNCHANGED << blocks, executedBatches >>
           Moves(p, todo) == /\ CallMoves(c, p, todo, calls[c].block)
                             /\ todo \subseteq calls[c].todo
                             /\ p = "rollup" => states' = states
                             /\ p = "rollupRead" =>
                                  /\ n \in Stored' /\ states' = states \cup {n}
                                  /\ todo = calls[c].todo
                                  /\ n = L2GenesisSeqNo \/ ledger[n].parent \in states
<1>3. Tables /\ \E p \in {"rollup", "rollupRead"}, todo \in SUBSET SeqNo : Moves(p, todo)
  <2>1. CASE n \in Stored
    <3>1. Done(c, "rollup") /\ UNCHANGED storageVars /\ states' = states
      BY <2>1 DEF ProcessRollupBatch
    <3>2. Tables
      BY <1>1, <1>b, <3>1, SameTables
    <3>3. Moves("rollup", calls[c].todo \ {n})
      BY <1>2, <1>b, <3>1, DoneMoves
    <3>. QED  BY <1>2, <3>2, <3>3
  <2>2. CASE n \notin Stored /\ n # L2GenesisSeqNo /\ ~(ledger[n].l1Proof \preceq calls[c].l1Head)
    <3>1. Done(c, "rollup") /\ StoreBatch(n, ledger[n]) /\ states' = states
      BY <2>2 DEF ProcessRollupBatch
    <3>2. Tables
      BY <1>1, <1>a, <2>2, <3>1, StoreLedgerBatch
    <3>3. Moves("rollup", calls[c].todo \ {n})
      BY <1>2, <1>b, <3>1, DoneMoves
    <3>. QED  BY <1>2, <3>2, <3>3
  <2>3. CASE /\ n \notin Stored
             /\ ~(n # L2GenesisSeqNo /\ ~(ledger[n].l1Proof \preceq calls[c].l1Head))
             /\ n = L2GenesisSeqNo \/ Computes(n)
    <3>1. Goto(c, "rollupRead") /\ StoreBatch(n, ledger[n]) /\ states' = states \cup {n}
      BY <2>3 DEF ProcessRollupBatch
    <3>2. Tables /\ n \in Stored'
      BY <1>1, <1>a, <2>3, <3>1, StoreLedgerBatch
    <3>3. n = L2GenesisSeqNo \/ ledger[n].parent \in states
      BY <2>3 DEF Computes
    <3>4. Moves("rollupRead", calls[c].todo)
      BY <1>2, <1>b, <3>1, <3>2, <3>3, GotoMoves
    <3>. QED  BY <1>2, <3>2, <3>4
  <2>4. CASE /\ n \notin Stored
             /\ ~(n # L2GenesisSeqNo /\ ~(ledger[n].l1Proof \preceq calls[c].l1Head))
             /\ ~(n = L2GenesisSeqNo \/ Computes(n))
    <3>1. /\ calls' = [ calls EXCEPT ![c].todo = {} ]
          /\ UNCHANGED storageVars /\ states' = states
      BY <2>4 DEF ProcessRollupBatch
    <3>2. Tables
      BY <1>1, <1>b, <3>1, SameTables
    <3>3. calls' = [ calls EXCEPT ![c].phase = "rollup", ![c].todo = {} ]
      BY <1>1, <1>2, <3>1 DEF Call
    <3>4. Moves("rollup", {})
      BY <1>2, <1>b, <3>1, <3>3, MoveMoves
    <3>. QED  BY <1>2, <3>2, <3>4
  <2>. QED  BY <2>1, <2>2, <2>3, <2>4
<1>4. PICK p \in {"rollup", "rollupRead"}, todo \in SUBSET SeqNo : Moves(p, todo)
  BY <1>3
<1>5. TypeOK'
  BY <1>1, <1>2, <1>3, <1>4 DEF TypeOK, L1Inv, CallMoves
<1>6. StatesFounded'
  BY <1>1, <1>3, <1>4 DEF IInv, StatesFounded
<1>7. CallOK(c)'
  <2>1. c \in env.calls
    BY <1>1, NotIdle
  <2>2. p = "rollupRead" => Current(c)' = n
    BY <1>4 DEF CallMoves, Current
  <2>. QED
    BY <1>1, <1>2, <1>4, <2>1, <2>2 DEF CallMoves, CallOK, Executing, Listing, Ingesting
<1>8. (\A d \in Calls : CallOK(d))'
  BY <1>1, <1>3, <1>4, <1>7, CallsKept DEF IInv
<1>9. StatesRecorded'
  <2>1. \A m \in states' : m \in states \/ (p \in Executing /\ Min(todo) = m)
    BY <1>4 DEF Current, Executing
  <2>2. StatesRecorded
    BY DEF IInv
  <2>. QED  BY <1>1, <1>3, <1>4, <2>1, <2>2, StatesRecordedKept DEF Executing
<1>10. LeftIsListed'
  BY <1>4 DEF CallMoves, LeftIsListed, Fetching, Ingesting
<1>11. MessagesStored'
  BY <1>1, <1>3, <1>4, MessagesStoredKept DEF IInv
<1>12. (\A d \in Calls : OnlyCall(d))'
  BY <1>1, <1>3, <1>4, OnlyCallKept DEF IInv, Listing
<1>. QED  BY <1>3, <1>5, <1>6, <1>8, <1>9, <1>10, <1>11, <1>12 DEF IInv

\* The host submits a batch.
LEMMA SubmitBatchPreserves ==
    ASSUME IInv, NEW c \in env.calls, NEW n \in DOMAIN ledger, SubmitBatch(c, n)
    PROVE  IInv'
<1>1. /\ calls[c] = Idle
      /\ calls' = [ calls EXCEPT ![c].phase = "fetch", ![c].mutex = TRUE ]
      /\ UNCHANGED << l1Messages, ledger, states, failed, crashes, env >>
  BY DEF SubmitBatch
<1>2. TypeOK /\ L1Inv /\ calls \in [Calls -> Call] /\ c \in Calls
  BY LedgerFacts DEF IInv, TypeOK
<1>3. CallMoves(c, "fetch", {}, L1Genesis) /\ calls[c].phase = "idle"
  BY <1>1, <1>2 DEF CallMoves, Call, Idle
<1>4. /\ L1Inv' /\ FromLedger' /\ AncestorsStored' /\ Stored \subseteq Stored'
      /\ UNCHANGED << blocks, executedBatches >>
  <2>1. CASE n \in Stored
    BY <1>1, <1>2, <2>1, SameTables DEF SubmitBatch, L1Inv, L1TypeOK
  <2>2. CASE n \notin Stored
    BY <1>1, <2>2, StoreLedgerBatch DEF SubmitBatch
  <2>. QED  BY <2>1, <2>2
<1>5. TypeOK'
  BY <1>1, <1>2, <1>3, <1>4 DEF TypeOK, L1Inv, CallMoves
<1>6. StatesFounded'
  BY <1>1, <1>4 DEF IInv, StatesFounded
<1>7. CallOK(c)'
  BY <1>1, <1>3 DEF CallMoves, CallOK, Executing, Listing, Ingesting
<1>8. (\A d \in Calls : CallOK(d))'
  BY <1>1, <1>2, <1>3, <1>4, <1>7, CallsKept DEF IInv
<1>9. StatesRecorded'
  BY <1>1, <1>2, <1>3, <1>4, StatesRecordedKept DEF IInv, Executing
<1>10. LeftIsListed'
  BY <1>2, <1>3 DEF CallMoves, LeftIsListed, Fetching
<1>11. MessagesStored'
  BY <1>1, <1>2, <1>3, <1>4, MessagesStoredKept DEF IInv
<1>12. (\A d \in Calls : OnlyCall(d))'
  BY <1>1, <1>2, <1>3, <1>4, OnlyCallKept DEF IInv, Listing
<1>. QED  BY <1>4, <1>5, <1>6, <1>8, <1>9, <1>10, <1>11, <1>12 DEF IInv

\* The block a rollup names as its L1 head is a block.
LEMMA RollupHeadIsBlock ==
    ASSUME NEW b \in L1Block, NEW h \in {L1Genesis} \cup ForkPath(Parent(b), L1Genesis)
    PROVE  h \in L1Block
<1>1. CASE h = L1Genesis
  BY <1>1, GenesisHeight
<1>2. CASE h # L1Genesis
  <2>1. PICK k \in (Len(L1Genesis) + 1)..Len(Parent(b)) : h = Upto(Parent(b), k)
    BY <1>2 DEF ForkPath
  <2>2. Len(b) \in Nat /\ Len(L1Genesis) = 0
    BY BlockIsSeq, GenesisHeight
  <2>3. CASE Len(b) = 0
    <3>1. b = L1Genesis
      BY <2>3, GenesisHeight
    <3>2. Len(Parent(b)) = 0
      BY <3>1 DEF Parent, Upto, L1Genesis
    <3>. QED  BY <2>1, <2>2, <3>2
  <2>4. CASE Len(b) # 0
    <3>1. Parent(b) \in L1Block /\ Len(Parent(b)) \in Nat
      BY <2>2, <2>4, UptoBlock DEF Parent
    <3>2. k \in 0..Len(Parent(b))
      BY <2>1, <2>2, <3>1
    <3>. QED  BY <2>1, <3>1, <3>2, UptoBlock
  <2>. QED  BY <2>3, <2>4
<1>. QED  BY <1>1, <1>2

\* A block that arrives after its parent arrives after all its ancestors.
LEMMA AncestorsAreStored ==
    ASSUME AncestorsStored, NEW b \in L1Block,
           b = L1Genesis \/ (b # L1Genesis /\ Parent(b) \in blocks),
           blocks' = blocks \cup {b}
    PROVE  AncestorsStored'
<1>1. SUFFICES ASSUME NEW k \in 0..Len(b) PROVE Upto(b, k) \in blocks'
  BY DEF AncestorsStored
<1>2. Len(b) \in Nat /\ Upto(b, Len(b)) = b
  BY BlockIsSeq, UptoSelf
<1>3. CASE k = Len(b)
  BY <1>2, <1>3
<1>4. CASE k # Len(b)
  <2>1. Len(b) - 1 \in 0..Len(b) /\ k \in 0..(Len(b) - 1)
    BY <1>2, <1>4
  <2>2. Len(Parent(b)) = Len(b) - 1 /\ Upto(Parent(b), k) = Upto(b, k)
    BY <2>1, UptoBlock, UptoUpto DEF Parent
  <2>3. Parent(b) \in blocks
    BY <1>2, <2>1, GenesisHeight
  <2>. QED  BY <2>1, <2>2, <2>3 DEF AncestorsStored
<1>. QED  BY <1>3, <1>4

\* The host submits an L1 block.
LEMMA SubmitL1BlockPreserves ==
    ASSUME IInv, NEW c \in env.calls, NEW b \in L1Block, NEW fork,
           NEW h \in {L1Genesis} \cup ForkPath(Parent(b), L1Genesis), NEW r \in RollupRanges,
           SubmitL1Block(c, b, fork, h, r[1], r[2])
    PROVE  IInv'
<1> DEFINE todo == r[1]..r[2]
<1>1. /\ calls[c] = Idle /\ TryAndInsertBlock(b, fork)
      /\ b = L1Genesis \/ (b # L1Genesis /\ Parent(b) \in blocks)
      /\ calls' = [ calls EXCEPT ![c] = [ phase |-> "messages", mutex |-> TRUE, block |-> b,
                                          l1Head |-> h, todo |-> todo ] ]
      /\ UNCHANGED << l1Messages, ledger, states, failed, crashes, env >>
  BY DEF SubmitL1Block
<1>2. TypeOK /\ L1Inv /\ calls \in [Calls -> Call] /\ c \in Calls
  BY LedgerFacts DEF IInv, TypeOK
<1>3. todo \subseteq DOMAIN ledger /\ todo \subseteq SeqNo
  <2>1. r \in SeqNo \X SeqNo
    BY DEF RollupRanges
  <2>2. r[1] \in SeqNo /\ r[2] \in SeqNo
    BY <2>1
  <2>3. todo \subseteq DOMAIN ledger
    <3>1. CASE r[1] = 2 /\ r[2] = 1
      <4>1. 2..1 = {}
        OBVIOUS
      <4>. QED  BY <3>1, <4>1
    <3>2. CASE r[1]..r[2] \subseteq DOMAIN ledger
      BY <3>2
    <3>. QED  BY <3>1, <3>2 DEF RollupRanges
  <2>4. DOMAIN ledger \subseteq SeqNo
    BY <1>2, LedgerFacts
  <2>. QED  BY <2>3, <2>4
<1> HIDE DEF todo
<1>4. CallMoves(c, "messages", todo, b) /\ calls[c].phase = "idle"
  <2> DEFINE x == [ phase |-> "messages", mutex |-> TRUE, block |-> b, l1Head |-> h, todo |-> todo ]
  <2>1. x \in Call
    BY <1>3, RollupHeadIsBlock DEF Call
  <2>2. x.phase = "messages" /\ x.todo = todo /\ x.block = b
    OBVIOUS
  <2>3. calls' = [ calls EXCEPT ![c] = x ]
    BY <1>1
  <2> HIDE DEF x
  <2>. QED  BY <1>1, <1>2, <2>1, <2>2, <2>3, IdleIsIdle DEF CallMoves
<1>5. /\ b \notin blocks /\ blocks' = blocks \cup {b}
      /\ UNCHANGED << batch, executedBatches, Stored >>
  BY <1>1 DEF TryAndInsertBlock, StoreBlock, Stored
<1>6. L1Inv'
  BY <1>1, <1>2, <1>5, InsertPreserves DEF L1Inv, L1TypeOK
<1>7. FromLedger' /\ AncestorsStored'
  BY <1>1, <1>5, AncestorsAreStored DEF IInv, FromLedger
<1>8. TypeOK'
  BY <1>1, <1>2, <1>4, <1>5, <1>6 DEF TypeOK, L1Inv, CallMoves
<1>9. StatesFounded'
  BY <1>1, <1>5 DEF IInv, StatesFounded
<1>10. CallOK(c)'
  <2>1. calls'[c].phase = "messages" /\ calls'[c].todo = todo /\ calls'[c].block = b
    BY <1>4 DEF CallMoves
  <2>2. c \in env.calls /\ env' = env /\ ledger' = ledger /\ b \in blocks'
    BY <1>1, <1>5
  <2>. QED  BY <1>3, <2>1, <2>2 DEF CallOK, Executing, Listing, Ingesting
<1>11. (\A d \in Calls : CallOK(d))'
  BY <1>1, <1>2, <1>4, <1>5, <1>10, CallsKept DEF IInv
<1>12. StatesRecorded'
  BY <1>1, <1>2, <1>4, <1>5, StatesRecordedKept DEF IInv, Executing
<1>13. LeftIsListed'
  BY <1>2, <1>4 DEF CallMoves, LeftIsListed, Fetching, Ingesting
<1>14. MessagesStored'
  <2>1. ASSUME NEW x, StoringMessages(x) PROVE StoringMessages(x)'
    BY <1>4, <2>1 DEF StoringMessages, CallMoves
  <2>2. StoringMessages(b)'
    BY <1>2, <1>4 DEF StoringMessages, CallMoves
  <2>. QED  BY <1>1, <1>5, <2>1, <2>2 DEF IInv, MessagesStored
<1>15. (\A d \in Calls : OnlyCall(d))'
  <2>1. ASSUME MessagesLost PROVE MessagesLost'
    <3>1. PICK x \in blocks \ {L1Genesis} : x \notin l1Messages /\ ~StoringMessages(x)
      BY <2>1 DEF MessagesLost
    <3>2. ~StoringMessages(x)'
      BY <1>4, <1>5, <3>1 DEF StoringMessages, CallMoves
    <3>. QED  BY <1>1, <1>5, <3>1, <3>2 DEF MessagesLost
  <2>2. ASSUME NEW d \in Calls PROVE OnlyCall(d)'
    <3>1. CASE d = c
      BY <1>1, <1>4, <2>1, <3>1 DEF IInv, OnlyCall, CallMoves, Listing
    <3>2. CASE d # c
      BY <1>1, <1>4, <1>5, <2>1, <3>2 DEF IInv, OnlyCall, CallMoves
    <3>. QED  BY <3>1, <3>2
  <2>. QED  BY <2>2
<1>. QED  BY <1>6, <1>7, <1>8, <1>9, <1>11, <1>12, <1>13, <1>14, <1>15 DEF IInv

\* The enclave crashes: the tables and the states survive.
LEMMA CrashPreserves ==
    ASSUME IInv, Crash
    PROVE  IInv'
<1>1. /\ crashes < env.crashes /\ crashes' = crashes + 1
      /\ calls' = [ c \in Calls |-> Idle ] /\ failed' = "crash"
      /\ UNCHANGED storageVars /\ UNCHANGED << l1Messages, ledger, states, env >>
  BY DEF Crash, l1Vars
<1>2. TypeOK /\ L1Inv
  BY DEF IInv
<1>3. Idle \in Call /\ \A c \in Calls : calls'[c] = Idle
  BY <1>1, GenesisHeight DEF Idle, Call
<1>4. /\ L1Inv' /\ FromLedger' /\ AncestorsStored'
      /\ UNCHANGED << Stored, blocks, executedBatches, canonicalBatches >>
  BY <1>1, <1>2, SameTables DEF L1Inv, L1TypeOK
<1>5. crashes \in Nat /\ env.crashes \in Nat
  <2>1. env.crashes \in Nat
    BY <1>2, LedgerFacts
  <2>2. crashes \in 0..env.crashes
    BY <1>2 DEF TypeOK
  <2>. QED  BY <2>1, <2>2
<1>6. crashes' > 0 /\ crashes' \in 0..env.crashes
  BY <1>1, <1>5
<1>7. TypeOK'
  BY <1>1, <1>2, <1>3, <1>4, <1>6 DEF TypeOK, L1Inv
<1>8. StatesFounded'
  BY <1>1, <1>4 DEF IInv, StatesFounded
<1>9. (\A c \in Calls : CallOK(c))'
  <2>1. ASSUME NEW c \in Calls PROVE CallOK(c)'
    <3>1. calls'[c] = Idle
      BY <1>3
    <3>2. Idle.phase = "idle"
      BY DEF Idle
    <3>. QED  BY <3>1, <3>2 DEF CallOK, Executing, Listing, Ingesting
  <2>. QED  BY <2>1
<1>10. StatesRecorded' /\ LeftIsListed' /\ MessagesStored'
  <2>1. crashes' # 0
    BY <1>6
  <2>. QED  BY <1>1, <1>6, <2>1 DEF StatesRecorded, LeftIsListed, MessagesStored
<1>11. (\A c \in Calls : OnlyCall(c))'
  BY <1>1, <1>3 DEF OnlyCall, Idle, Listing
<1>. QED  BY <1>4, <1>7, <1>8, <1>9, <1>10, <1>11 DEF IInv

-------------------------------------------------------------------------------
\* The enclave starts with empty tables.
LEMMA InitIInv == Init => IInv
<1>1. SUFFICES ASSUME Init PROVE IInv
  OBVIOUS
<1>2. /\ blocks = {} /\ batch = << >> /\ canonicalBatches = {} /\ executedBatches = {}
      /\ states = {} /\ failed = "no" /\ crashes = 0
      /\ calls = [ c \in Calls |-> Idle ] /\ ledger \in Ledgers /\ env \in Environments
  BY <1>1 DEF Init, L1Init, StorageInit
<1>3. L1Inv
  BY <1>1, L1InitInv DEF Init
<1>4. Stored = {}
  BY <1>2 DEF Stored
<1>5. Idle \in Call /\ \A c \in Calls : calls[c] = Idle /\ calls[c].phase = "idle"
  BY <1>2, GenesisHeight DEF Idle, Call
<1>6. TypeOK
  <2>1. env.crashes \in Nat
    BY <1>2, ValidatorAssumption
  <2>. QED  BY <1>2, <1>3, <1>5, <2>1 DEF TypeOK, L1Inv
<1>7. FromLedger /\ AncestorsStored /\ StatesFounded /\ StatesRecorded /\ MessagesStored
  BY <1>2, <1>4 DEF FromLedger, AncestorsStored, StatesFounded, StatesRecorded, MessagesStored
<1>8. \A c \in Calls : CallOK(c) /\ OnlyCall(c)
  BY <1>2, <1>5 DEF CallOK, OnlyCall, Executing, Listing, Ingesting
<1>9. LeftIsListed
  <2>1. Unexecuted = {}
    BY <1>2 DEF Unexecuted
  <2>2. Blocked({})
    BY DEF Blocked
  <2>. QED  BY <2>1, <2>2 DEF LeftIsListed
<1>. QED  BY <1>3, <1>6, <1>7, <1>8, <1>9 DEF IInv

\* Every step keeps the invariant.
LEMMA NextIInv == IInv /\ [Next]_valVars => IInv'
<1>1. SUFFICES ASSUME IInv, [Next]_valVars PROVE IInv'
  OBVIOUS
<1>2. ASSUME NEW c \in env.calls, NEW n \in DOMAIN ledger, SubmitBatch(c, n) PROVE IInv'
  BY <1>1, <1>2, SubmitBatchPreserves
<1>3. ASSUME NEW c \in env.calls, NEW b \in L1Block, NEW fork \in IngestBlock(b),
             NEW h \in {L1Genesis} \cup ForkPath(Parent(b), L1Genesis), NEW r \in RollupRanges,
             SubmitL1Block(c, b, fork, h, r[1], r[2])
      PROVE  IInv'
  BY <1>1, <1>3, SubmitL1BlockPreserves
<1>4. ASSUME NEW c \in Calls, Proceed(c) PROVE IInv'
  <2>1. CASE StoreMessages(c)
    BY <1>1, <2>1, StoreMessagesPreserves
  <2>2. CASE ProcessRollupBatch(c)
    BY <1>1, <2>2, ProcessRollupBatchPreserves
  <2>3. CASE FinishIngestion(c)
    BY <1>1, <2>3, FinishIngestionPreserves
  <2>4. CASE FetchUnexecuted(c)
    BY <1>1, <2>4, FetchUnexecutedPreserves
  <2>5. CASE ExecuteNext(c)
    BY <1>1, <2>5, ExecuteNextPreserves
  <2>6. CASE ReadExecuted(c)
    BY <1>1, <2>6, ReadExecutedPreserves
  <2>7. CASE WriteExecuted(c)
    BY <1>1, <2>7, WriteExecutedPreserves
  <2>8. CASE Finish(c)
    BY <1>1, <2>8, FinishPreserves
  <2>. QED  BY <1>4, <2>1, <2>2, <2>3, <2>4, <2>5, <2>6, <2>7, <2>8 DEF Proceed
<1>5. CASE Crash
  BY <1>1, <1>5, CrashPreserves
<1>6. CASE UNCHANGED valVars
  <2>1. /\ UNCHANGED storageVars
        /\ UNCHANGED << l1Messages, ledger, states, calls, failed, crashes, env >>
    BY <1>6 DEF valVars, l1Vars
  <2>2. /\ L1Inv' /\ FromLedger' /\ AncestorsStored'
        /\ UNCHANGED << Stored, blocks, executedBatches, canonicalBatches >>
    BY <1>1, <2>1, SameTables DEF IInv, L1Inv, L1TypeOK
  <2>3. TypeOK' /\ StatesFounded'
    BY <1>1, <2>1, <2>2 DEF IInv, TypeOK, StatesFounded, L1Inv
  <2>4. (\A c \in Calls : CallOK(c))'
    BY <1>1, <2>1, <2>2, OtherCallKept DEF IInv
  <2>5. StatesRecorded'
    BY <1>1, <2>1, <2>2 DEF IInv, StatesRecorded, Current
  <2>6. LeftIsListed'
    <3>1. Unexecuted' = Unexecuted /\ CanonicalExecuted' = CanonicalExecuted
      BY <2>2 DEF Unexecuted, CanonicalExecuted
    <3>2. \A D : Blocked(D)' <=> Blocked(D)
      BY <2>1, <3>1 DEF Blocked
    <3>3. LeftIsListed
      BY <1>1 DEF IInv
    <3>. QED  BY <2>1, <3>1, <3>2, <3>3 DEF LeftIsListed
  <2>7. MessagesStored' /\ (\A c \in Calls : OnlyCall(c))'
    BY <1>1, <2>1, <2>2 DEF IInv, MessagesStored, OnlyCall, MessagesLost, StoringMessages
  <2>. QED  BY <2>2, <2>3, <2>4, <2>5, <2>6, <2>7 DEF IInv
<1>. QED  BY <1>1, <1>2, <1>3, <1>4, <1>5, <1>6 DEF Next

(* What a call may rely on when it resumes, and what the tables say of one     *)
(* another, holds in every reachable state of a validator.                     *)
THEOREM Invariance == Spec => []IInv
BY InitIInv, NextIInv, PTL DEF Spec

(* No batch is recorded as executed, and no state is committed, without the    *)
(* state of the parent batch, down to the genesis batch.                       *)
THEOREM ExecutedOnParentStateHolds == Spec => []ExecutedOnParentState
<1>1. IInv => ExecutedOnParentState
  <2>1. SUFFICES ASSUME IInv PROVE ExecutedOnParentState
    OBVIOUS
  <2>2. \A n \in states : batch[n] = ledger[n]
    BY <2>1 DEF IInv, TypeOK, FromLedger
  <2>. QED  BY <2>1, <2>2 DEF IInv, StatesFounded, ExecutedOnParentState
<1>. QED  BY <1>1, Invariance, PTL

(* With no call in progress and no crash so far, a batch that is recorded as   *)
(* executed has a parent that is.                                              *)
THEOREM ExecutedInOrderHolds == Spec => []ExecutedInOrder
<1>1. IInv => ExecutedInOrder
  <2>1. SUFFICES ASSUME IInv, Quiet, crashes = 0, NEW n \in executedBatches \ {L2GenesisSeqNo}
                 PROVE  batch[n].parent \in executedBatches
    BY DEF ExecutedInOrder
  <2>2. n \in states /\ n \in Stored /\ batch[n] = ledger[n] /\ ledger[n].parent \in states
    BY <2>1 DEF IInv, TypeOK, FromLedger, StatesFounded
  <2>3. \A c \in Calls : calls[c].phase = "idle"
    BY <2>1, IdleIsIdle DEF Quiet
  <2>. QED  BY <2>1, <2>2, <2>3 DEF IInv, StatesRecorded, Executing
<1>. QED  BY <1>1, Invariance, PTL

(* With no call in progress and no execution cut short, every canonical batch  *)
(* whose parent is canonical and executed is executed, however the calls of    *)
(* ExecuteStoredBatches overlapped.                                            *)
THEOREM NothingExecutableLeftHolds == Spec => []NothingExecutableLeft
<1>1. IInv => NothingExecutableLeft
  <2>1. SUFFICES ASSUME IInv, Quiet, failed = "no", NEW n \in Unexecuted
                 PROVE  n # L2GenesisSeqNo /\ batch[n].parent \notin CanonicalExecuted
    BY DEF NothingExecutableLeft, Unexecuted
  <2>2. \A c \in Calls : calls[c].phase = "idle"
    BY <2>1, IdleIsIdle DEF Quiet
  <2>3. PICK D \in SUBSET Unexecuted : Blocked(D) /\ Unexecuted \subseteq D
    BY <2>1, <2>2 DEF IInv, LeftIsListed, Fetching, Ingesting, Listing
  <2>4. batch[n] = ledger[n]
    BY <2>1 DEF IInv, TypeOK, L1TypeOK, StorageTypeOK, Unexecuted, FromLedger
  <2>. QED  BY <2>1, <2>3, <2>4 DEF Blocked
<1>. QED  BY <1>1, Invariance, PTL

(* When the host makes one call at a time, an execution never meets its own    *)
(* receipts, and ComputeBatch fails only after a crash that lost the cross     *)
(* chain messages of a stored block.                                           *)
THEOREM FailsOnlyOnLostMessagesHolds == Spec => []FailsOnlyOnLostMessages
<1>1. IInv => FailsOnlyOnLostMessages
  <2>1. SUFFICES ASSUME IInv, NEW c \in Calls, env.calls = {c}
                 PROVE  /\ failed # "conflict"
                        /\ failed = "compute" =>
                             crashes > 0 /\ ~(blocks \ {L1Genesis} \subseteq l1Messages)
    BY DEF FailsOnlyOnLostMessages
  <2>. QED  BY <2>1 DEF IInv, OnlyCall, MessagesLost
<1>. QED  BY <1>1, Invariance, PTL
===============================================================================
