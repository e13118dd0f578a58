----------------------------- MODULE GuardianL2 -----------------------------
(***************************************************************************)
(* How a validator's host feeds batches to its enclave: the p2p service    *)
(* (host/p2p), the batch repository (host/l2/batchrepository.go) and the   *)
(* guardian (host/enclave/guardian.go), whose main loop catches up batch   *)
(* by batch while a goroutine per live batch tries to submit it.  They     *)
(* meet in the state tracker and in the enclave.  A batch is its sequence  *)
(* number: L1 forks, which take several batches to one height, are the     *)
(* matter of the enclave's modules.  The host is in sync with the L1.      *)
(***************************************************************************)
EXTENDS StateTracker, Sequences, FiniteSets, FiniteSetsExt

CONSTANTS
  L1Head,       \* the L1 block host and enclave are at
  Main,         \* the goroutine of mainLoop
  Cap,          \* _maxBatchesInP2PResponse
  MaxSeqNo,     \* bound: batches the sequencer produces
  MaxFailures,  \* bound: lost messages, failing calls and restarts
  Environments  \* what may happen around the host: sets of faults, with a
                \* bound on the batches produced

ASSUME GuardianL2Assumption ==
  /\ L1Head # NoHash
  /\ Cap \in Nat \ {0}
  /\ MaxSeqNo \in Nat
  /\ Main \notin 1..MaxSeqNo
  /\ MaxFailures \in Nat
  /\ \A e \in Environments :
       /\ e.batches \in 0..MaxSeqNo
       /\ e.faults \subseteq
            {"late",      \* the node is not among the sequencer's peers yet
             "overlap",   \* batches come before earlier ones are handled
             "lose",      \* a request or a response is lost
             "loseLive",  \* a live batch is lost
             "rpc",       \* a call of the main loop fails
             "liveRpc",   \* the submission of a live batch fails
             "restart"}   \* the host restarts

Batches == 1..MaxSeqNo

\* One goroutine per live batch.
Threads == {Main} \cup Batches

VARIABLES
  produced,   \* the sequencer's batches are 1..produced
  peer,       \* the validator is in the sequencer's list of peers
  net,        \* batch messages on their way to the validator
  requests,   \* batch requests on their way to the sequencer
  handling,   \* messages HandleBatches is working through
  asking,     \* goroutines of requestMissingBatchesFromPeers
  requested,  \* p2pInFlightRequested, 0 for nil
  inFlight,   \* the request p2pInFlightReqTime is the time of, 0 for nil
  db,         \* batches in the host's database
  latest,     \* latestBatchSeqNo
  tracker,    \* Guardian.state
  pc, batch,  \* where each goroutine is, and the batch it handles
  report,     \* the Status the main loop has been given
  enclave,    \* the batches the enclave has stored
  stream,     \* executed batches on their way to streamEnclaveData
  failures,   \* how many calls have failed
  env         \* which of Environments this is

sequencer == <<produced, peer>>
p2p == <<net, requests>>
inFlightReq == <<asking, requested, inFlight>>
repo == <<db, latest>>
guardian == <<tracker, pc, batch, report>>
vars == <<sequencer, p2p, handling, inFlightReq, repo, guardian, enclave, stream,
          failures, env>>

Messages == [live : BOOLEAN, batches : Seq(Batches)]

Places ==
  {"idle", "received", "check", "status", "report", "switch", "catchup", "submit",
   "processed"}

\* A Status of an enclave that has its secret and no batches.
NoReport == [code |-> "Running", l1Head |-> L1Head, l2Head |-> 0]

NewTracker == [NewStateTracker EXCEPT !.hostL1Head = L1Head]

TypeOK ==
  /\ produced \in 0..MaxSeqNo /\ peer \in BOOLEAN
  /\ net \subseteq Messages /\ handling \subseteq Messages
  /\ requests \subseteq Batches /\ asking \subseteq Batches
  /\ requested \in 0..MaxSeqNo /\ inFlight \in 0..MaxSeqNo
  /\ db \subseteq Batches /\ latest \in 0..MaxSeqNo
  /\ tracker \in Tracker({NoHash, L1Head})
  /\ pc \in [Threads -> Places] /\ batch \in [Threads -> 0..MaxSeqNo]
  /\ enclave \subseteq Batches /\ stream \in Seq(Batches)
  /\ failures \in 0..MaxFailures
  /\ env \in Environments

Init ==
  /\ env \in Environments
  /\ produced = 0 /\ peer = ("late" \notin env.faults)
  /\ net = {} /\ requests = {} /\ handling = {}
  /\ asking = {} /\ requested = 0 /\ inFlight = 0
  /\ db = {} /\ latest = 0
  /\ tracker = NewTracker
  /\ pc = [t \in Threads |-> IF t = Main THEN "status" ELSE "idle"]
  /\ batch = [t \in Threads |-> 0]
  /\ report = NoReport
  /\ enclave = {} /\ stream = <<>>
  /\ failures = 0

Fails(fault) ==
  /\ fault \in env.faults
  /\ failures < MaxFailures
  /\ failures' = failures + 1
  /\ env' = env

Goto(t, place) == pc' = [pc EXCEPT ![t] = place]

(***************************************************************************)
(* The sequencer's host.                                                   *)
(***************************************************************************)
Live(n) == [live |-> TRUE, batches |-> <<n>>]

\* Unless "overlap" the last live batch has been handled when the sequencer
\* sends something else, as it is when the batch interval and the way through
\* the network are long.
Handled ==
  /\ \A m \in net \cup handling : ~m.live
  /\ \A t \in Batches : pc[t] = "idle"

\* streamEnclaveData on the sequencer: the batch is stored and broadcast.
BroadcastBatch ==
  /\ produced < env.batches
  /\ "overlap" \in env.faults \/ Handled
  /\ produced' = produced + 1
  /\ net' = IF peer THEN net \cup {Live(produced')} ELSE net
  /\ UNCHANGED <<peer, requests, handling, inFlightReq, repo, guardian, enclave,
                 stream, failures, env>>

\* The sequencer refreshes its list of peers from the management contract.
RefreshPeerList ==
  /\ ~peer
  /\ peer' = TRUE
  /\ UNCHANGED <<produced, p2p, handling, inFlightReq, repo, guardian, enclave,
                 stream, failures, env>>

\* The batches from n on, until one is missing or there are more than Cap.
Response(n) ==
  [live |-> FALSE,
   batches |-> [i \in 1..Min({Cap + 1, produced - n + 1}) |-> n + i - 1]]

HandleBatchRequest ==
  \E n \in requests :
    /\ "overlap" \in env.faults \/ Handled
    /\ requests' = requests \ {n}
    /\ net' = IF n <= produced THEN net \cup {Response(n)} ELSE net
    /\ UNCHANGED <<sequencer, handling, inFlightReq, repo, guardian, enclave, stream,
                   failures, env>>

\* A message that is never delivered although its sender was told otherwise,
\* or whose sender gave up after its retries.
LoseMessage ==
  /\ \/ \E m \in net : /\ Fails(IF m.live THEN "loseLive" ELSE "lose")
                       /\ net' = net \ {m}
                       /\ UNCHANGED requests
     \/ \E n \in requests : /\ Fails("lose")
                            /\ requests' = requests \ {n}
                            /\ UNCHANGED net
  /\ UNCHANGED <<sequencer, handling, inFlightReq, repo, guardian, enclave, stream>>

(***************************************************************************)
(* The batch repository.                                                   *)
(***************************************************************************)
AddBatch(n) ==
  /\ db' = db \cup {n}
  /\ latest' = IF n \notin db /\ n > latest THEN n ELSE latest

\* HandleBatches starts on a goroutine of its own, and clears the in-flight
\* request if the message answers p2pInFlightRequested.
HandleBatches ==
  \E m \in net :
    /\ net' = net \ {m}
    /\ handling' = handling \cup {m}
    /\ IF ~m.live /\ requested # 0 /\ Head(m.batches) = requested
       THEN requested' = 0 /\ inFlight' = 0
       ELSE UNCHANGED <<requested, inFlight>>
    /\ UNCHANGED <<sequencer, requests, asking, repo, guardian, enclave, stream,
                   failures, env>>

\* The next batch of a message: one that is known ends the loop, a new one
\* is stored, and given to the guardian if it is live.
HandleNextBatch ==
  \E m \in handling :
    LET n == Head(m.batches)
        rest == IF n \in db \/ Len(m.batches) = 1 THEN {}
                ELSE {[m EXCEPT !.batches = Tail(@)]}
    IN /\ handling' = (handling \ {m}) \cup rest
       /\ AddBatch(n)
       /\ IF m.live /\ n \notin db
          THEN Goto(n, "received") /\ batch' = [batch EXCEPT ![n] = n]
          ELSE UNCHANGED <<pc, batch>>
       /\ UNCHANGED <<sequencer, p2p, inFlightReq, tracker, report, enclave, stream,
                      failures, env>>

\* As Missing, not asking for the batch before the last one.
MissingOffByOne(n) ==
  asking' = IF n + 1 < latest THEN asking \cup {n} ELSE asking

\* FetchBatchBySeqNo where the batch is missing: peers are only asked for a
\* batch below the high watermark.
Missing(n) == asking' = IF n < latest THEN asking \cup {n} ELSE asking

RequestMissingBatchesFromPeers ==
  \E n \in asking :
    /\ asking' = asking \ {n}
    /\ IF inFlight = 0 THEN requests' = requests \cup {n} /\ inFlight' = n
       ELSE UNCHANGED <<requests, inFlight>>
    /\ UNCHANGED <<sequencer, net, handling, requested, repo, guardian, enclave,
                   stream, failures, env>>

\* _timeoutWaitingForP2PResponse has passed; unless "overlap" the request and
\* its response have arrived by then or are lost.
RequestTimeout ==
  /\ inFlight # 0
  /\ "overlap" \in env.faults \/ <<requests, net, handling>> = <<{}, {}, {}>>
  /\ inFlight' = 0
  /\ UNCHANGED <<sequencer, p2p, handling, asking, requested, repo, guardian,
                 enclave, stream, failures, env>>

(***************************************************************************)
(* The guardian's main loop.                                               *)
(***************************************************************************)
CheckEnclaveStatus ==
  /\ pc[Main] = "status"
  /\ \/ /\ report' = [NoReport EXCEPT !.l2Head = Max(enclave \cup {0})]
        /\ Goto(Main, "report")
        /\ UNCHANGED <<tracker, failures, env>>
     \/ /\ Fails("rpc")
        /\ tracker' = OnDisconnected(tracker)
        /\ Goto(Main, "switch")
        /\ UNCHANGED report
  /\ UNCHANGED <<sequencer, p2p, handling, inFlightReq, repo, batch, enclave, stream>>

RecordEnclaveStatus ==
  /\ pc[Main] = "report"
  /\ tracker' = OnEnclaveStatus(tracker, report)
  /\ report' = NoReport
  /\ Goto(Main, "switch")
  /\ UNCHANGED <<sequencer, p2p, handling, inFlightReq, repo, batch, enclave, stream,
                 failures, env>>

\* Only L2Catchup has something to do here.
MainLoop ==
  /\ pc[Main] = "switch"
  /\ Goto(Main, IF tracker.status = "L2Catchup" THEN "catchup" ELSE "status")
  /\ UNCHANGED <<sequencer, p2p, handling, inFlightReq, repo, tracker, batch, report,
                 enclave, stream, failures, env>>

\* A batch that is missing is an error, which ends this catch up.
CatchupWithL2 ==
  /\ pc[Main] = "catchup"
  /\ LET next == tracker.enclaveL2Head + 1 IN
       IF tracker.status # "L2Catchup"
       THEN Goto(Main, "status") /\ UNCHANGED <<batch, asking>>
       ELSE IF next \in db
       THEN /\ Goto(Main, "submit")
            /\ batch' = [batch EXCEPT ![Main] = next]
            /\ UNCHANGED asking
       ELSE Goto(Main, "status") /\ Missing(next) /\ UNCHANGED batch
  /\ UNCHANGED <<sequencer, p2p, handling, requested, inFlight, repo, tracker,
                 report, enclave, stream, failures, env>>

(***************************************************************************)
(* HandleBatch.                                                            *)
(***************************************************************************)
HandleBatch(t) ==
  /\ pc[t] = "received"
  /\ tracker' = OnReceivedBatch(tracker, batch[t])
  /\ Goto(t, "check")
  /\ UNCHANGED <<sequencer, p2p, handling, inFlightReq, repo, batch, report, enclave,
                 stream, failures, env>>

\* "ignore batches until we're up-to-date"
CheckUpToDate(t) ==
  /\ pc[t] = "check"
  /\ IF IsUpToDate(tracker) THEN Goto(t, "submit") /\ UNCHANGED batch
     ELSE Goto(t, "idle") /\ batch' = [batch EXCEPT ![t] = 0]
  /\ UNCHANGED <<sequencer, p2p, handling, inFlightReq, repo, tracker, report,
                 enclave, stream, failures, env>>

(***************************************************************************)
(* submitL2Batch, on any of the goroutines.                                *)
(***************************************************************************)
\* The enclave stores a batch whether or not it has the batch before, and
\* executes what has all its predecessors, in order.
Executed(stored) == Max({0} \cup {n \in stored : 1..n \subseteq stored})

Store(n) ==
  /\ enclave' = enclave \cup {n}
  /\ stream' = stream \o [i \in 1..(Executed(enclave') - Executed(enclave)) |->
                            Executed(enclave) + i]

SubmitBatch(t) ==
  /\ pc[t] = "submit"
  /\ Store(batch[t])
  /\ Goto(t, "processed")
  /\ UNCHANGED <<sequencer, p2p, handling, inFlightReq, repo, tracker, batch, report,
                 failures, env>>

\* The call fails, before or after the enclave stored the batch.  The main
\* loop will check the status; HandleBatch logs the error.
SubmitBatchFails(t) ==
  /\ pc[t] = "submit"
  /\ Fails(IF t = Main THEN "rpc" ELSE "liveRpc")
  /\ Store(batch[t]) \/ UNCHANGED <<enclave, stream>>
  /\ Goto(t, IF t = Main THEN "status" ELSE "idle")
  /\ batch' = [batch EXCEPT ![t] = 0]
  /\ UNCHANGED <<sequencer, p2p, handling, inFlightReq, repo, tracker, report>>

BatchProcessed(t) ==
  /\ pc[t] = "processed"
  /\ tracker' = OnProcessedBatch(tracker, batch[t])
  /\ Goto(t, IF t = Main THEN "catchup" ELSE "idle")
  /\ batch' = [batch EXCEPT ![t] = 0]
  /\ UNCHANGED <<sequencer, p2p, handling, inFlightReq, repo, report, enclave, stream,
                 failures, env>>

(***************************************************************************)
(* The stream of executed batches, and a restart of the host.              *)
(***************************************************************************)
StreamEnclaveData ==
  /\ stream # <<>>
  /\ AddBatch(Head(stream))
  /\ tracker' = OnProcessedBatch(tracker, Head(stream))
  /\ stream' = Tail(stream)
  /\ UNCHANGED <<sequencer, p2p, handling, inFlightReq, pc, batch, report, enclave,
                 failures, env>>

\* The database survives; the high watermark, the tracker and the goroutines
\* do not.
Restart ==
  /\ Fails("restart")
  /\ handling' = {} /\ asking' = {} /\ requested' = 0 /\ inFlight' = 0
  /\ latest' = 0
  /\ tracker' = NewTracker
  /\ pc' = [t \in Threads |-> IF t = Main THEN "status" ELSE "idle"]
  /\ batch' = [t \in Threads |-> 0]
  /\ report' = NoReport
  /\ stream' = <<>>
  /\ UNCHANGED <<sequencer, p2p, db, enclave>>

Submission(t) == SubmitBatch(t) \/ SubmitBatchFails(t) \/ BatchProcessed(t)

MainStep ==
  \/ CheckEnclaveStatus
  \/ RecordEnclaveStatus
  \/ MainLoop
  \/ CatchupWithL2
  \/ Submission(Main)

HandlerStep(t) == HandleBatch(t) \/ CheckUpToDate(t) \/ Submission(t)

Next ==
  \/ BroadcastBatch
  \/ RefreshPeerList
  \/ HandleBatchRequest
  \/ LoseMessage
  \/ HandleBatches
  \/ HandleNextBatch
  \/ RequestMissingBatchesFromPeers
  \/ RequestTimeout
  \/ MainStep
  \/ \E t \in Batches : HandlerStep(t)
  \/ StreamEnclaveData
  \/ Restart

Spec == Init /\ [][Next]_vars

\* Goroutines run, and what is sent and not lost arrives.  The sequencer
\* need not produce batches.
FairSpec ==
  /\ Spec
  /\ WF_vars(HandleBatchRequest)
  /\ WF_vars(HandleBatches)
  /\ WF_vars(HandleNextBatch)
  /\ WF_vars(RequestMissingBatchesFromPeers)
  /\ WF_vars(RequestTimeout)
  /\ WF_vars(MainStep)
  /\ \A t \in Batches : WF_vars(HandlerStep(t))
  /\ WF_vars(StreamEnclaveData)

(***************************************************************************)
(* Properties.                                                             *)
(***************************************************************************)
\* What the guardian believes the enclave's L2 head to be is a batch the
\* enclave has stored, whatever races between checkEnclaveStatus, the stream
\* and the submissions (OnEnclaveStatus, OnProcessedBatch).
TrackedBatchIsStored == tracker.enclaveL2Head \in enclave \cup {0}

\* Batches are handled before the sequencer sends something else, no live
\* batch is lost, and the host does not restart.
Timely == env.faults \cap {"overlap", "loseLive", "liveRpc", "restart"} = {}

\* "Live - enclave is up-to-date with known external data": when the status
\* is Live and no live batch is being handled, the enclave has every batch of
\* the host's database below the head the guardian takes it to be at, which
\* is where the next catch up will start.
LiveMeansFed ==
  /\ IsUpToDate(tracker)
  /\ \A t \in Batches : pc[t] = "idle"
  => {n \in db : n <= tracker.enclaveL2Head} \subseteq enclave

\* The status Live means what it says as long as live batches are handled in
\* time and their submissions succeed.
LiveMeansFedIfTimely == Timely => LiveMeansFed

\* A node that joins late ends up with every batch, from the first one on,
\* and Live, as soon as one live batch has told it that it is behind, although
\* requests and responses get lost and a response holds few of the batches
\* (FetchBatchBySeqNo, "hopefully future attempts will succeed").
CatchesUp ==
  Timely => <>[](latest > 0 => 1..produced \subseteq enclave /\ IsUpToDate(tracker))
=============================================================================
