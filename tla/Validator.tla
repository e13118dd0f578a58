------------------------------- MODULE Validator -------------------------------
(* A validator's enclave.  It is fed the batches of the sequencer, in any      *)
(* order and more than once, and L1 blocks, which may carry a rollup.          *)
(* SubmitBatch holds mainMutex to its end.  SubmitL1Block holds it while the   *)
(* block and its rollup are stored, and executes batches after giving it back. *)
(* The host does not wait for a call longer than EnclaveRPCTimeout, so calls   *)
(* overlap, and two of them may be executing the same batch.                   *)
EXTENDS L1BlockProcessor, FiniteSetsExt

CONSTANTS
    Calls,          \* the calls that may be in progress at the same time
    Ledgers,        \* what the sequencer may have produced
    Environments    \* how the enclave may be used: the calls the host makes at
                    \* the same time, and a bound on the number of crashes

(* What the Sequencer runs check of the sequencer's batch table, and that it   *)
(* stays one height above the parent, is all that is assumed of a ledger.      *)
IsLedger(l) ==
    /\ L2GenesisSeqNo \in DOMAIN l
    /\ DOMAIN l \subseteq SeqNo
    /\ l \in [DOMAIN l -> Batch]
    /\ \A n \in DOMAIN l \ {L2GenesisSeqNo} :
         /\ l[n].parent \in DOMAIN l
         /\ l[n].parent < n
         /\ l[n].height = l[l[n].parent].height + 1
         /\ l[l[n].parent].l1Proof \preceq l[n].l1Proof

ASSUME ValidatorAssumption ==
    /\ \A l \in Ledgers : IsLedger(l)
    /\ \A e \in Environments : e.calls \subseteq Calls /\ e.crashes \in Nat

VARIABLES
    ledger,     \* the sequencer's batches
    states,     \* the batches whose L2 state is committed
    calls,      \* what each call still has to do
    failed,     \* what cut an execution short, if none was begun since
    crashes,    \* the number of crashes so far
    env         \* which of Environments this is

valVars == << l1Vars, ledger, states, calls, failed, crashes, env >>

Call ==
    [ phase : { "idle",
                "messages",                     \* the block is stored, its messages are not
                "rollup", "rollupRead", "rollupWrite",
                "fetch", "next", "read", "write" },
      mutex : BOOLEAN,                          \* the call holds mainMutex
      block : L1Block,                          \* the block being ingested
      l1Head : L1Block,                         \* the rollup's CompressionL1Head
      todo  : SUBSET SeqNo ]                    \* the batches of the rollup, or to execute

Idle == [ phase |-> "idle", mutex |-> FALSE, block |-> L1Genesis, l1Head |-> L1Genesis, todo |-> {} ]

MutexFree == \A c \in Calls : ~calls[c].mutex

\* Mutant: the batches are not read in the order of the sequence.
CurrentUnordered(c) == Max(calls[c].todo)

Current(c) == Min(calls[c].todo)

Goto(c, phase) == calls' = [ calls EXCEPT ![c].phase = phase ]

\* The call is done with its batch, and goes on with the next one.
Done(c, phase) == calls' = [ calls EXCEPT ![c].phase = phase, ![c].todo = @ \ {Current(c)} ]

\* The call returns, with an error or without.
Return(c) == calls' = [ calls EXCEPT ![c] = Idle ]

-------------------------------------------------------------------------------
(* SubmitBatch: the batch is stored, unless it is already, and the mutex stays *)
(* taken for the execution of the stored batches.                              *)
SubmitBatch(c, n) ==
    /\ calls[c] = Idle
    /\ MutexFree
    /\ IF n \in Stored THEN UNCHANGED storageVars ELSE StoreBatch(n, ledger[n])
    /\ calls' = [ calls EXCEPT ![c].phase = "fetch", ![c].mutex = TRUE ]
    /\ UNCHANGED << l1Messages, ledger, states, failed, crashes, env >>

(* SubmitL1Block, up to the write of the block.  Blocks arrive after their     *)
(* parents.  The block may carry a rollup of the batches lo to hi, compressed  *)
(* relative to the block l1Head.                                               *)
SubmitL1Block(c, b, fork, l1Head, lo, hi) ==
    /\ calls[c] = Idle
    /\ MutexFree
    /\ IF blocks = {} THEN b = L1Genesis ELSE b # L1Genesis /\ Parent(b) \in blocks
    /\ TryAndInsertBlock(b, fork)
    /\ calls' = [ calls EXCEPT ![c] = [ phase |-> "messages", mutex |-> TRUE, block |-> b,
                                        l1Head |-> l1Head, todo |-> lo..hi ] ]
    /\ UNCHANGED << l1Messages, ledger, states, failed, crashes, env >>

FirstCanonical(c) ==
    { n \in calls[c].todo : ledger[n].l1Proof \preceq calls[c].l1Head }

\* Mutant: the messages are extracted and not stored.
StoreMessagesLost(c) ==
    /\ calls[c].phase = "messages"
    /\ calls' = [ calls EXCEPT ![c].phase = "rollup", ![c].todo = {} ]
    /\ UNCHANGED << l1Vars, ledger, states, failed, crashes, env >>

(* The write of the cross chain messages, which the first block has none of;   *)
(* then executeAndSaveIncompleteBatches' lookup of the parent of the first     *)
(* canonical batch, without which the rollup is dropped.                       *)
StoreMessages(c) ==
    /\ calls[c].phase = "messages"
    /\ l1Messages' = IF blocks = {calls[c].block} THEN l1Messages
                     ELSE l1Messages \cup {calls[c].block}
    /\ calls' = [ calls EXCEPT ![c].phase = "rollup",
                               ![c].todo =
                     IF \/ L2GenesisSeqNo \in @
                        \/ FirstCanonical(c) # {} /\ ledger[Min(FirstCanonical(c))].parent \in Stored
                     THEN @ ELSE {} ]
    /\ UNCHANGED << storageVars, ledger, states, failed, crashes, env >>

\* Mutant: any stored parent will do, executed or not.
ComputesOnAnyParent(n) ==
    LET parent == ledger[n].parent
    IN  /\ parent \in Stored
        /\ { ledger[n].l1Proof, batch[parent].l1Proof } \subseteq blocks
        /\ n > L2GenesisSeqNo + 1 =>
             ForkPath(ledger[n].l1Proof, batch[parent].l1Proof) \subseteq l1Messages

(* ComputeBatch succeeds, with the sequencer's result: the parent's state is   *)
(* there, and so are the cross chain messages since the parent.                *)
Computes(n) ==
    LET parent == ledger[n].parent
    IN  /\ parent \in Stored \cap states
        /\ { ledger[n].l1Proof, batch[parent].l1Proof } \subseteq blocks
        /\ n > L2GenesisSeqNo + 1 =>
             ForkPath(ledger[n].l1Proof, batch[parent].l1Proof) \subseteq l1Messages

(* One turn of executeAndSaveIncompleteBatches: a stored batch is skipped, a   *)
(* batch that was reorged comes with its header and is only stored, any other  *)
(* is computed and stored; an error ends the rollup.  The code takes the last  *)
(* of the batches it has skipped or computed for the parent; where that one    *)
(* was abandoned, and so is not the parent, it fails or stops the enclave.     *)
ProcessRollupBatch(c) ==
    LET n == Current(c)
    IN  /\ calls[c].phase = "rollup"
        /\ calls[c].todo # {}
        /\ IF n \in Stored
           THEN Done(c, "rollup") /\ UNCHANGED << storageVars, states >>
           ELSE IF n # L2GenesisSeqNo /\ ~(ledger[n].l1Proof \preceq calls[c].l1Head)
           THEN Done(c, "rollup") /\ StoreBatch(n, ledger[n]) /\ UNCHANGED states
           ELSE IF n = L2GenesisSeqNo \/ Computes(n)
           THEN Goto(c, "rollupRead") /\ StoreBatch(n, ledger[n]) /\ states' = states \cup {n}
           ELSE /\ calls' = [ calls EXCEPT ![c].todo = {} ]
                /\ UNCHANGED << storageVars, states >>
        /\ UNCHANGED << l1Messages, ledger, failed, crashes, env >>

\* The rollup is done with, mainMutex is given back and OnL1Block begins.
FinishIngestion(c) ==
    /\ calls[c].phase = "rollup"
    /\ calls[c].todo = {}
    /\ calls' = [ calls EXCEPT ![c] = [ Idle EXCEPT !.phase = "fetch" ] ]
    /\ UNCHANGED << l1Vars, ledger, states, failed, crashes, env >>

-------------------------------------------------------------------------------
\* ExecuteStoredBatches: FetchCanonicalUnexecutedBatches.
FetchUnexecuted(c) ==
    /\ calls[c].phase = "fetch"
    /\ calls' = [ calls EXCEPT ![c].phase = "next", ![c].todo = canonicalBatches \ executedBatches ]
    /\ failed' = "no"
    /\ UNCHANGED << l1Vars, ledger, states, crashes, env >>

\* Mutant: the state is not committed.
ExecuteNextUncommitted(c) ==
    LET n == Current(c)
    IN  /\ calls[c].phase = "next"
        /\ calls[c].todo # {}
        /\ IF n = L2GenesisSeqNo \/ Computes(n) THEN Goto(c, "read") ELSE Done(c, "next")
        /\ UNCHANGED << l1Vars, ledger, states, failed, crashes, env >>

(* One turn of its loop, in the order of the sequence numbers: handleGenesis,  *)
(* or executionPrerequisites and ExecuteBatch.                                 *)
ExecuteNext(c) ==
    LET n == Current(c)
    IN  /\ calls[c].phase = "next"
        /\ calls[c].todo # {}
        /\ IF n # L2GenesisSeqNo /\ ledger[n].parent \notin CanonicalExecuted
           THEN Done(c, "next") /\ UNCHANGED << states, failed >>
           ELSE IF n = L2GenesisSeqNo \/ Computes(n)
           THEN Goto(c, "read") /\ states' = states \cup {n} /\ UNCHANGED failed
           ELSE Return(c) /\ failed' = "compute" /\ UNCHANGED states
        /\ UNCHANGED << l1Vars, ledger, crashes, env >>

\* StoreExecutedBatch: BatchWasExecuted, which finds canonical batches only.
ReadExecuted(c) ==
    /\ calls[c].phase \in {"read", "rollupRead"}
    /\ LET rollup == calls[c].phase = "rollupRead"
       IN  IF Current(c) \in CanonicalExecuted
           THEN Done(c, IF rollup THEN "rollup" ELSE "next")
           ELSE Goto(c, IF rollup THEN "rollupWrite" ELSE "write")
    /\ UNCHANGED << l1Vars, ledger, states, failed, crashes, env >>

(* The write of StoreExecutedBatch, which fails when the receipts are already  *)
(* in exec_tx: the rollup, or the execution, ends there.                       *)
WriteExecuted(c) ==
    LET n        == Current(c)
        rollup   == calls[c].phase = "rollupWrite"
        conflict == n \in executedBatches /\ batch[n].txs # {}
    IN  /\ calls[c].phase \in {"write", "rollupWrite"}
        /\ IF conflict
           THEN /\ UNCHANGED storageVars
                /\ IF rollup
                   THEN calls' = [ calls EXCEPT ![c].phase = "rollup", ![c].todo = {} ]
                   ELSE Return(c)
           ELSE StoreExecutedBatch(n) /\ Done(c, IF rollup THEN "rollup" ELSE "next")
        /\ failed' = IF conflict /\ ~rollup THEN "conflict" ELSE failed
        /\ UNCHANGED << l1Messages, ledger, states, crashes, env >>

Finish(c) ==
    /\ calls[c].phase = "next"
    /\ calls[c].todo = {}
    /\ Return(c)
    /\ UNCHANGED << l1Vars, ledger, states, failed, crashes, env >>

\* The enclave is restarted; restoring its cache changes no table.
Crash ==
    /\ crashes < env.crashes
    /\ crashes' = crashes + 1
    /\ calls' = [ c \in Calls |-> Idle ]
    /\ failed' = "crash"
    /\ UNCHANGED << l1Vars, ledger, states, env >>

-------------------------------------------------------------------------------
Init ==
    /\ L1Init
    /\ ledger \in Ledgers
    /\ states = {}
    /\ calls = [ c \in Calls |-> Idle ]
    /\ failed = "no"
    /\ crashes = 0
    /\ env \in Environments

\* The steps a call takes once it is accepted.
Proceed(c) ==
    \/ StoreMessages(c)
    \/ ProcessRollupBatch(c)
    \/ FinishIngestion(c)
    \/ FetchUnexecuted(c)
    \/ ExecuteNext(c)
    \/ ReadExecuted(c)
    \/ WriteExecuted(c)
    \/ Finish(c)

\* The rollups a block may carry: none, or successive batches, abandoned or not.
RollupRanges ==
    { r \in SeqNo \X SeqNo :
        \/ r[1] = 2 /\ r[2] = 1
        \/ r[1] <= r[2] /\ r[1]..r[2] \subseteq DOMAIN ledger }

Next ==
    \/ \E c \in env.calls, n \in DOMAIN ledger : SubmitBatch(c, n)
    \/ \E c \in env.calls, b \in L1Block :
          \E fork \in IngestBlock(b), h \in {L1Genesis} \cup ForkPath(Parent(b), L1Genesis) :
          \E r \in RollupRanges : SubmitL1Block(c, b, fork, h, r[1], r[2])
    \/ \E c \in Calls : Proceed(c)
    \/ Crash

Spec == Init /\ [][Next]_valVars

-------------------------------------------------------------------------------
TypeOK ==
    /\ L1TypeOK
    /\ ledger \in Ledgers
    /\ states \subseteq Stored
    /\ calls \in [Calls -> Call]
    /\ failed \in { "no", "compute", "conflict", "crash" }
    /\ env \in Environments
    /\ crashes \in 0..env.crashes

Quiet == \A c \in Calls : calls[c] = Idle

(* ExecuteStoredBatches, run by overlapping calls each with its own list of    *)
(* batches, misses none: with no call in progress and no execution cut short,  *)
(* every canonical batch whose parent is canonical and executed is executed.   *)
NothingExecutableLeft ==
    Quiet /\ failed = "no" =>
        \A n \in canonicalBatches \ executedBatches :
            n # L2GenesisSeqNo /\ batch[n].parent \notin CanonicalExecuted

(* A batch is executed on the state of its parent, and so on down to the       *)
(* genesis batch, through races, forks and crashes: no execution is recorded   *)
(* whose own state or whose parent's state is not committed.                   *)
ExecutedOnParentState ==
    /\ executedBatches \subseteq states
    /\ \A n \in states \ {L2GenesisSeqNo} : batch[n].parent \in states

(* Batches are recorded as executed parents first, whether they came by        *)
(* SubmitBatch or in a rollup, once the calls racing on them are through.      *)
ExecutedInOrder ==
    Quiet /\ crashes = 0 =>
        \A n \in executedBatches \ {L2GenesisSeqNo} : batch[n].parent \in executedBatches

(* When the host makes one call at a time, no two executions write the same    *)
(* receipts, and ExecuteBatch fails only on a block whose cross chain messages *)
(* a crash has lost, for good, between the block's write and theirs.           *)
FailsOnlyOnLostMessages ==
    (\E c \in Calls : env.calls = {c}) =>
        /\ failed # "conflict"
        /\ failed = "compute" => crashes > 0 /\ ~(blocks \ {L1Genesis} \subseteq l1Messages)
===============================================================================
