----------------------------- MODULE GuardianL1 -----------------------------
(***************************************************************************)
(* How a host feeds L1 blocks to its enclave: the L1 block repository      *)
(* (host/l1/blockrepository.go), which streams new heads, and the guardian *)
(* (host/enclave/guardian.go), whose main loop catches up block by block   *)
(* while a goroutine per streamed block tries to submit it live.  All of   *)
(* them meet in submitL1Block, under submitDataLock, and in the state      *)
(* tracker.  The L1 node and the enclave are external: a growing chain     *)
(* that may reorganise, and the ingestion of module L1BlockProcessor       *)
(* reduced to which blocks it accepts.                                     *)
(***************************************************************************)
EXTENDS L1Blocks, StateTracker, FiniteSets

CONSTANTS
  L1StartHash,  \* HostConfig.L1StartHash: a block, or NoHash for the genesis
  Main,         \* the goroutine of mainLoop
  Environments  \* what may happen around the host: sets of faults, with bounds
                \* on their number and on the height of the L1

ASSUME GuardianL1Assumption ==
  /\ NoHash \notin L1Block
  /\ Main \notin L1Block
  /\ \A e \in Environments :
       /\ e.height \in 0..MaxHeight
       /\ e.failures \in Nat
       /\ e.faults \subseteq
            {"fork",      \* the L1 reorganises
             "drop",      \* a header is not streamed
             "fetch",     \* the block of a streamed header cannot be fetched
             "overlap",   \* blocks come before earlier ones are handled
             "receipts",  \* receipts cannot be fetched
             "rpc",       \* a call of the enclave fails
             "down"}      \* the enclave is away for a while

\* FetchNextBlock(L1StartHash), the first block to feed.
FirstFed == IF L1StartHash = NoHash THEN L1Genesis ELSE L1StartHash

\* One goroutine per streamed block.
Threads == {Main} \cup L1Block

VARIABLES
  l1,          \* the head of the L1 chain
  stream,      \* headers on their way to streamLiveBlocks
  head,        \* Repository.head
  tracker,     \* Guardian.state
  lock,        \* submitDataLock is held
  pc, block,   \* where each goroutine is, and the block it handles
  report,      \* the Status the main loop has been given
  processed,   \* the blocks the enclave has stored
  enclaveHead, \* the enclave's L1 head
  up,          \* the enclave answers
  failures,    \* how many calls have failed
  env          \* which of Environments this is

repo == <<stream, head>>
enclave == <<processed, enclaveHead, up>>
vars == <<l1, repo, tracker, lock, pc, block, report, enclave, failures, env>>

Places ==
  {"idle", "received", "check", "status", "report", "switch", "catchup", "lock",
   "receipts", "submit", "processed"}

\* A Status of an enclave that has its secret and no batches.
NoReport == [code |-> "Running", l1Head |-> NoHash, l2Head |-> 0]

TypeOK ==
  /\ l1 \in L1Block /\ head \in L1Block \cup {NoHash}
  /\ stream \in Seq(L1Block)
  /\ tracker \in Tracker(L1Block \cup {NoHash})
  /\ lock \in BOOLEAN /\ up \in BOOLEAN
  /\ pc \in [Threads -> Places]
  /\ block \in [Threads -> L1Block \cup {NoHash}]
  /\ processed \subseteq L1Block
  /\ enclaveHead \in processed \cup {NoHash}
  /\ failures \in 0..env.failures
  /\ env \in Environments

Init ==
  /\ l1 = L1Genesis /\ stream = <<>> /\ head = NoHash
  /\ tracker = NewStateTracker
  /\ lock = FALSE
  /\ pc = [t \in Threads |-> IF t = Main THEN "status" ELSE "idle"]
  /\ block = [t \in Threads |-> NoHash]
  /\ report = NoReport
  /\ processed = {} /\ enclaveHead = NoHash /\ up = TRUE
  /\ failures = 0
  /\ env \in Environments

Fails(fault) ==
  /\ fault \in env.faults
  /\ failures < env.failures
  /\ failures' = failures + 1
  /\ env' = env

Goto(t, place) == pc' = [pc EXCEPT ![t] = place]

(***************************************************************************)
(* The L1 and its stream of heads.                                         *)
(***************************************************************************)
\* Unless "overlap" the streamed blocks are handled when the next one comes,
\* as they are when the L1's block time is long.
Handled == stream = <<>> /\ \A t \in L1Block : pc[t] = "idle"

\* A new head is higher than every earlier one, on the same branch or not; no
\* reorganisation goes below the first block that is fed.
NewL1Block ==
  \E b \in L1Block :
    /\ "overlap" \in env.faults \/ Handled
    /\ Height(b) = Height(l1) + 1
    /\ Height(b) <= env.height
    /\ \/ Parent(b) = l1
       \/ "fork" \in env.faults /\ FirstFed \preceq b
    /\ l1' = b
    /\ stream' = Append(stream, b)
    /\ UNCHANGED <<head, tracker, lock, pc, block, report, enclave, failures, env>>

\* "no guarantee of perfect ordering or that there won't be gaps": a header
\* never arrives.
DropHeader ==
  /\ Fails("drop")
  /\ stream # <<>>
  /\ stream' = Tail(stream)
  /\ UNCHANGED <<l1, head, tracker, lock, pc, block, report, enclave>>

\* The goroutine of the new block is started and does its first step when it
\* is scheduled.
StreamLiveBlock ==
  /\ stream # <<>>
  /\ LET b == Head(stream) IN
       /\ stream' = Tail(stream)
       /\ head' = b
       /\ pc' = [pc EXCEPT ![b] = "received"]
       /\ block' = [block EXCEPT ![b] = b]
  /\ UNCHANGED <<l1, tracker, lock, report, enclave, failures, env>>

\* The block cannot be fetched: it is Repository.head by now, and no handler
\* is told of it.
StreamLiveBlockFails ==
  /\ stream # <<>>
  /\ Fails("fetch")
  /\ stream' = Tail(stream)
  /\ head' = Head(stream)
  /\ UNCHANGED <<l1, tracker, lock, pc, block, report, enclave>>

\* The canonical block at a height, as the L1 node answers.
Canonical(h) == IF h <= Height(l1) THEN {Upto(l1, h)} ELSE {}

\* The last ancestor of a block on the L1's canonical chain.
LatestCanonAncestor(b) ==
  Upto(b, CHOOSE h \in 0..Height(b) :
            /\ {Upto(b, h)} = Canonical(h)
            /\ \A k \in (h + 1)..Height(b) : {Upto(b, k)} # Canonical(k))

\* As FetchNextBlock, without going back to the canonical chain.
FetchNextByHeight(prev) ==
  IF prev = head THEN {}
  ELSE IF prev = NoHash THEN {L1Genesis}
  ELSE Canonical(Height(prev) + 1)

\* The block after prev, or none: ErrNoNextBlock.
FetchNextBlock(prev) ==
  IF prev = head THEN {}
  ELSE IF prev = NoHash THEN {L1Genesis}
  ELSE Canonical(Height(LatestCanonAncestor(prev)) + 1)

(***************************************************************************)
(* The main loop.                                                          *)
(***************************************************************************)
\* checkEnclaveStatus: the call, then what it returned is recorded.
CheckEnclaveStatus ==
  /\ pc[Main] = "status"
  /\ IF up
     THEN /\ report' = [NoReport EXCEPT !.l1Head = enclaveHead]
          /\ Goto(Main, "report")
          /\ UNCHANGED tracker
     ELSE /\ tracker' = OnDisconnected(tracker)
          /\ Goto(Main, "switch")
          /\ UNCHANGED report
  /\ UNCHANGED <<l1, repo, lock, block, enclave, failures, env>>

RecordEnclaveStatus ==
  /\ pc[Main] = "report"
  /\ tracker' = OnEnclaveStatus(tracker, report)
  /\ report' = NoReport
  /\ Goto(Main, "switch")
  /\ UNCHANGED <<l1, repo, lock, block, enclave, failures, env>>

\* Only L1Catchup has something to do here.
MainLoop ==
  /\ pc[Main] = "switch"
  /\ Goto(Main, IF tracker.status = "L1Catchup" THEN "catchup" ELSE "status")
  /\ UNCHANGED <<l1, repo, tracker, lock, block, report, enclave, failures, env>>

CatchupWithL1 ==
  /\ pc[Main] = "catchup"
  /\ LET prev == IF tracker.enclaveL1Head = NoHash THEN L1StartHash
                 ELSE tracker.enclaveL1Head
         next == FetchNextBlock(prev)
     IN IF tracker.status = "L1Catchup" /\ next # {}
        THEN /\ block' = [block EXCEPT ![Main] = CHOOSE b \in next : TRUE]
             /\ Goto(Main, "lock")
        ELSE Goto(Main, "status") /\ UNCHANGED block
  /\ UNCHANGED <<l1, repo, tracker, lock, report, enclave, failures, env>>

\* catchupWithL1 goes on after a submission without an error, and leaves
\* after one; HandleBlock is done either way.
Return(t) ==
  /\ Goto(t, IF t = Main THEN "catchup" ELSE "idle")
  /\ block' = [block EXCEPT ![t] = NoHash]

ReturnError(t) ==
  /\ Goto(t, IF t = Main THEN "status" ELSE "idle")
  /\ block' = [block EXCEPT ![t] = NoHash]

(***************************************************************************)
(* HandleBlock.                                                            *)
(***************************************************************************)
\* OnReceivedBlock and InSyncWithL1 lock the tracker one after the other.
HandleBlock(t) ==
  /\ pc[t] = "received"
  /\ tracker' = OnReceivedBlock(tracker, block[t])
  /\ Goto(t, "check")
  /\ UNCHANGED <<l1, repo, lock, block, report, enclave, failures, env>>

CheckInSync(t) ==
  /\ pc[t] = "check"
  /\ IF InSyncWithL1(tracker) THEN Goto(t, "lock") /\ UNCHANGED block
     ELSE Return(t)
  /\ UNCHANGED <<l1, repo, tracker, lock, report, enclave, failures, env>>

(***************************************************************************)
(* submitL1Block, on any of the goroutines.                                *)
(***************************************************************************)
TryLock(t) ==
  /\ pc[t] = "lock"
  /\ IF lock THEN Return(t) /\ UNCHANGED lock
     ELSE Goto(t, "receipts") /\ lock' = TRUE /\ UNCHANGED block
  /\ UNCHANGED <<l1, repo, tracker, report, enclave, failures, env>>

FetchObscuroReceipts(t) ==
  /\ pc[t] = "receipts"
  /\ Goto(t, "submit")
  /\ UNCHANGED <<l1, repo, tracker, lock, block, report, enclave, failures, env>>

\* The error return that leaves submitDataLock locked.
FetchObscuroReceiptsFails(t) ==
  /\ pc[t] = "receipts"
  /\ Fails("receipts")
  /\ ReturnError(t)
  /\ UNCHANGED <<l1, repo, tracker, lock, report, enclave>>

\* As Ingests, taking a block again.
IngestsAgain(b) ==
  enclaveHead \notin {NoHash, Parent(b)} => LCA(b, enclaveHead, processed) # {}

\* What the enclave does with a block: see L1BlockProcessor.
Ingests(b) ==
  /\ b \notin processed
  /\ enclaveHead \notin {NoHash, Parent(b)} => LCA(b, enclaveHead, processed) # {}

SubmitL1Block(t) ==
  /\ pc[t] = "submit"
  /\ up
  /\ lock' = FALSE
  /\ \/ /\ Ingests(block[t])
        /\ processed' = processed \cup {block[t]}
        /\ enclaveHead' = block[t]
        /\ Goto(t, "processed")
        /\ UNCHANGED block
     \/ /\ block[t] \in processed     \* ErrBlockAlreadyProcessed
        /\ LET next == Canonical(Height(block[t]) + 1) IN
             IF next = {} THEN ReturnError(t)
             ELSE /\ block' = [block EXCEPT ![t] = CHOOSE b \in next : TRUE]
                  /\ Goto(t, "lock")
        /\ UNCHANGED <<processed, enclaveHead>>
     \/ /\ ~Ingests(block[t]) /\ block[t] \notin processed
        /\ ReturnError(t)
        /\ UNCHANGED <<processed, enclaveHead>>
  /\ UNCHANGED <<l1, repo, tracker, report, up, failures, env>>

\* The call times out or the connection fails; the enclave may have taken
\* the block all the same.
SubmitL1BlockFails(t) ==
  /\ pc[t] = "submit"
  /\ \/ Fails("rpc") /\ up
     \/ ~up /\ UNCHANGED <<failures, env>>
  /\ lock' = FALSE
  /\ \/ UNCHANGED <<processed, enclaveHead>>
     \/ /\ up /\ Ingests(block[t])
        /\ processed' = processed \cup {block[t]}
        /\ enclaveHead' = block[t]
  /\ ReturnError(t)
  /\ UNCHANGED <<l1, repo, tracker, report, up>>

\* The lock is free again by now: another goroutine may have been quicker.
BlockProcessed(t) ==
  /\ pc[t] = "processed"
  /\ tracker' = OnProcessedBlock(tracker, block[t])
  /\ Return(t)
  /\ UNCHANGED <<l1, repo, lock, report, enclave, failures, env>>

(***************************************************************************)
(* The enclave goes away and comes back with its database.                 *)
(***************************************************************************)
EnclaveDown ==
  /\ up
  /\ Fails("down")
  /\ up' = FALSE
  /\ UNCHANGED <<l1, repo, tracker, lock, pc, block, report, processed, enclaveHead>>

EnclaveUp ==
  /\ ~up
  /\ up' = TRUE
  /\ UNCHANGED <<l1, repo, tracker, lock, pc, block, report, processed, enclaveHead,
                 failures, env>>

Submission(t) ==
  \/ TryLock(t)
  \/ FetchObscuroReceipts(t)
  \/ FetchObscuroReceiptsFails(t)
  \/ SubmitL1Block(t)
  \/ SubmitL1BlockFails(t)
  \/ BlockProcessed(t)

MainStep ==
  \/ CheckEnclaveStatus
  \/ RecordEnclaveStatus
  \/ MainLoop
  \/ CatchupWithL1
  \/ Submission(Main)

HandlerStep(t) == HandleBlock(t) \/ CheckInSync(t) \/ Submission(t)

Next ==
  \/ NewL1Block
  \/ DropHeader
  \/ StreamLiveBlock
  \/ StreamLiveBlockFails
  \/ MainStep
  \/ \E t \in L1Block : HandlerStep(t)
  \/ EnclaveDown
  \/ EnclaveUp

Spec == Init /\ [][Next]_vars

\* Goroutines run, streamed headers arrive, and an enclave that is down is
\* restarted.  The L1 need not grow.
FairSpec ==
  /\ Spec
  /\ WF_vars(StreamLiveBlock)
  /\ WF_vars(MainStep)
  /\ \A t \in L1Block : WF_vars(HandlerStep(t))
  /\ WF_vars(EnclaveUp)

(***************************************************************************)
(* Properties.                                                             *)
(***************************************************************************)
\* Receipts can be had, and no block of an abandoned branch is still being
\* handled when the next one comes.
Timely ==
  "receipts" \notin env.faults /\ ~({"fork", "overlap"} \subseteq env.faults)

\* An enclave that is at the L1's head is not moved off it while the L1 stands
\* still, though submitL1Block feeds whatever block its goroutine holds, some
\* of them late, and every block the enclave takes becomes its head; as long
\* as receipts can be fetched, and late blocks are not those of an abandoned
\* branch.
HeadKept == [][Timely /\ enclaveHead = l1 /\ l1' = l1 => enclaveHead' = l1]_vars

\* "we wil catch up with the block later": when the L1 stops growing and its
\* head has been streamed, the enclave ends up there, whatever was dropped,
\* reorganised or failed on the way, and even though a submission that finds
\* the lock taken is simply given up.
CaughtUp == <>[](head = l1 => enclaveHead = l1)

\* "L1Catchup - enclave is behind on L1 data": under the same conditions, and
\* once HandleBlock has told the guardian of the L1's head, the enclave ends up
\* there, whatever was dropped, reorganised or could not be fetched before,
\* and the guardian notices: the status does not stay L1Catchup, so that
\* batches are produced again.
EventuallyInSync ==
  Timely =>
    <>[](tracker.hostL1Head = l1 => enclaveHead = l1 /\ InSyncWithL1(tracker))
=============================================================================
