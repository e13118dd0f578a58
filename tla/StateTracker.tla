---------------------------- MODULE StateTracker ----------------------------
(***************************************************************************)
(* host/enclave/state.go: the guardian's view of its enclave, a record     *)
(* every handler of which runs under the tracker's mutex, so each handler  *)
(* is a function from record to record.  L1 heads are block hashes with    *)
(* NoHash for the empty one; L2 heads are sequence numbers, 0 for none.    *)
(* A nil L2 head and 0 are not told apart: calculateStatus treats them     *)
(* alike for the enclave, and no host head is ever set to 0.               *)
(***************************************************************************)
EXTENDS Integers

CONSTANT NoHash   \* gethutil.EmptyHash

StatusCodes == {"Running", "AwaitingSecret", "Unavailable"}

Statuses ==
  {"Live", "Disconnected", "Unavailable", "AwaitingSecret", "L1Catchup",
   "L2Catchup"}

Tracker(Hashes) ==
  [status : Statuses, code : StatusCodes,
   enclaveL1Head : Hashes, enclaveL2Head : Nat,
   hostL1Head : Hashes, hostL2Head : Nat]

\* The zero value of a StatusCode is Running.
NewStateTracker ==
  [status |-> "Disconnected", code |-> "Running",
   enclaveL1Head |-> NoHash, enclaveL2Head |-> 0,
   hostL1Head |-> NoHash, hostL2Head |-> 0]

BehindL1(t) == t.hostL1Head # t.enclaveL1Head \/ t.enclaveL1Head = NoHash

\* As BehindL2, when the enclave has no batches only.
NoL2Head(t) == t.hostL2Head = 0 \/ t.enclaveL2Head = 0

BehindL2(t) ==
  t.hostL2Head = 0 \/ t.enclaveL2Head = 0 \/ t.hostL2Head > t.enclaveL2Head

CalculateStatus(t) ==
  CASE t.code # "Running" -> t.code
    [] t.code = "Running" /\ BehindL1(t) -> "L1Catchup"
    [] t.code = "Running" /\ ~BehindL1(t) /\ BehindL2(t) -> "L2Catchup"
    [] OTHER -> "Live"

Recalculated(t) == [t EXCEPT !.status = CalculateStatus(t)]

OnProcessedBlock(t, block) == Recalculated([t EXCEPT !.enclaveL1Head = block])

\* The status stays: a block or batch that has just arrived is not a reason
\* to leave Live.
OnReceivedBlock(t, block) == [t EXCEPT !.hostL1Head = block]

OnProcessedBatch(t, seqNo) ==
  Recalculated([t EXCEPT
    !.hostL2Head = IF @ < seqNo THEN seqNo ELSE @,
    !.enclaveL2Head = seqNo])

\* As OnReceivedBatch, trusting that the batch will be processed.
OnReceivedBatchOptimistic(t, seqNo) ==
  [t EXCEPT !.hostL2Head = seqNo, !.enclaveL2Head = seqNo]

OnReceivedBatch(t, seqNo) == [t EXCEPT !.hostL2Head = seqNo]

OnSecretProvided(t) ==
  Recalculated([t EXCEPT !.code = IF @ = "AwaitingSecret" THEN "Running" ELSE @])

OnEnclaveStatus(t, s) ==
  Recalculated([t EXCEPT !.code = s.code, !.enclaveL1Head = s.l1Head,
                         !.enclaveL2Head = s.l2Head])

OnDisconnected(t) == [t EXCEPT !.status = "Disconnected"]

InSyncWithL1(t) == t.status \in {"Live", "L2Catchup"}

IsUpToDate(t) == t.status = "Live"
=============================================================================
