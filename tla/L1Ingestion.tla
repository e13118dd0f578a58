------------------------------ MODULE L1Ingestion ------------------------------
(* L1 ingestion under any client: blocks are submitted in any order, and the   *)
(* rest of the enclave, sequencer or validator, stores batches and marks them  *)
(* executed at any time, with or without the L1 block they refer to.           *)
EXTENDS L1BlockProcessor

CONSTANT Rows   \* the batches that may be stored

ASSUME RowsAssumption == Rows \subseteq Batch

IngestL1Block(b) ==
    \E fork \in IngestBlock(b) : Process(b, fork) \/ ProcessFails(b, fork)

AddBatch(n, b) ==
    /\ n \notin Stored
    /\ StoreBatch(n, b)
    /\ UNCHANGED l1Messages

MarkExecuted(n) ==
    /\ n \in Stored \ executedBatches
    /\ StoreExecutedBatch(n)
    /\ UNCHANGED l1Messages

L1Next ==
    \/ \E b \in L1Block : IngestL1Block(b)
    \/ \E n \in SeqNo, b \in Rows : AddBatch(n, b)
    \/ \E n \in SeqNo : MarkExecuted(n)

L1Spec == L1Init /\ [][L1Next]_l1Vars
===============================================================================
