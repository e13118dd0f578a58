-------------------------- MODULE LogSubscriptions --------------------------
(***************************************************************************)
(* The way of an executed batch and of its logs from the enclave to the    *)
(* subscribed clients:                                                     *)
(*                                                                         *)
(*   OnBatchExecuted --queue--> rpc server --recv--> streamEnclaveData     *)
(*     (enclave, holds callbackMutex)      (host, holds subscriptionMutex) *)
(*                                            --channel--> FilterAPI.Logs  *)
(*                                                                         *)
(* callbackMutex is held for reading: a validator may execute batches in   *)
(* SubmitL1Block and in SubmitBatch at the same time, and their callbacks  *)
(* then overlap.  On a sequencer mainMutex keeps them apart.               *)
(*                                                                         *)
(* A subscription is known twice, by the enclave's SubscriptionManager and *)
(* by the host's LogEventManager, which are changed one after the other by *)
(* the goroutines of FilterAPI.Logs while batches are executed.            *)
(*                                                                         *)
(* Encryption and the JSON forms of the messages are left out.             *)
(***************************************************************************)
EXTENDS Integers, Sequences, FiniteSets, SequencesExt

CONSTANTS
  Ids,           \* the subscriptions clients may make
  Account,       \* the account of a subscription
  Contracts,     \* the contracts a subscription filters for, {} for any
  BatchLogs,     \* the logs of batch n, each [address, topics]
  FirstTx,       \* the batch in which an account's nonce stops being zero
  Executors,     \* the calls that may be executing batches at the same time
  RecvCapacity,  \* room in the client's channel and in the transport (10)
  Environments   \* the subscriptions, executors, batches, those of them that
                 \* come in rollups, channel sizes and fault budgets considered

ASSUME LogSubscriptionsAssumption ==
  /\ RecvCapacity \in Nat \ {0}
  /\ DOMAIN Account = Ids /\ DOMAIN Contracts = Ids
  /\ \A e \in Environments :
       /\ e.capacity \in Nat \ {0} /\ e.ids \subseteq Ids
       /\ e.executors \subseteq Executors
       /\ e.batches \in 0..Len(BatchLogs) /\ e.rolledUp \subseteq 1..e.batches
       /\ {e.breaks, e.restarts, e.openFails, e.idFails, e.unsubscribeFails} \subseteq Nat
       \* A stream that ends while its channel is full leaves OnBatchExecuted
       \* and UnsubscribeFromBatches waiting for each other.
       /\ e.breaks + e.restarts > 0 => 
            e.capacity >= 2 * e.batches * Cardinality(e.executors)

VARIABLES
  env,        \* the environment, with the fault budgets left
  executed,   \* the last batch executed by the enclave
  told,       \* the last batch each executor has executed, or found executed
  pushing,    \* what the callback it calls for that batch has still to do
  callback,   \* the stream the registry's callback writes to, 0 for nil
  queue,      \* the enclave's channel of each stream
  handler,    \* the rpc server's handler of each stream
  alive,      \* the streams whose connection is up
  recv,       \* what the host's end of each stream holds
  client,     \* the stream streamEnclaveData reads, 0 for a nil channel
  repo,       \* the batches the host received
  enclaveSubs,\* SubscriptionManager.subscriptions
  open,       \* LogEventManager.subscriptions: the ids with an open channel
  sending,    \* the logs SendLogsToSubscribers has still to send, by id
  sub,        \* how far FilterAPI.Logs is with each subscription
  reader,     \* the goroutine reading a channel: "none" yet, "reading", "stopped"
  delivered   \* the logs each client was notified of: <<batch, index>>

enclaveVars == <<executed, told, pushing, callback, enclaveSubs>>
streamVars == <<queue, handler, alive, recv, client>>
hostVars == <<repo, open, sending>>
apiVars == <<sub, reader, delivered>>
vars == <<env, enclaveVars, streamVars, hostVars, apiVars>>

\* The streams opened so far.
Streams == DOMAIN queue

Nothing == [id \in {} |-> <<>>]

Idle == [stage |-> "idle", logs |-> Nothing]

Init ==
  /\ env \in Environments
  /\ executed = 0 /\ callback = 1 /\ enclaveSubs = {}
  /\ told = [e \in Executors |-> 0] /\ pushing = [e \in Executors |-> Idle]
  /\ queue = << <<>> >> /\ handler = <<"serving">> /\ alive = {1}
  /\ recv = << <<>> >> /\ client = 1
  /\ repo = {} /\ open = {} /\ sending = Nothing
  /\ sub = [id \in Ids |-> "new"] /\ reader = [id \in Ids |-> "none"]
  /\ delivered = [id \in Ids |-> <<>>]

Fault(kind) == env[kind] > 0 /\ env' = [env EXCEPT ![kind] = @ - 1]

-----------------------------------------------------------------------------
(***************************************************************************)
(* The enclave.                                                            *)
(***************************************************************************)

\* A topic is a user's address when, in the state of the batch, it has a
\* nonce and no code; contracts are not in FirstTx.
UserAddrsFromLogTopics(log, n) == {a \in log.topics \cap DOMAIN FirstTx : FirstTx[a] <= n}

\* A log that names no user is relevant to everybody.
IsRelevant(account, users) == users = {} \/ account \in users

FilterLog(id, log) == Contracts[id] = {} \/ log.address \in Contracts[id]

\* The indices of batch n's logs that subscription id receives.
LogsOf(id, n) ==
  SelectSeq([i \in 1..Len(BatchLogs[n]) |-> <<n, i>>],
            LAMBDA l : /\ FilterLog(id, BatchLogs[n][l[2]])
                       /\ IsRelevant(Account[id],
                                     UserAddrsFromLogTopics(BatchLogs[n][l[2]], n)))

GetSubscribedLogsForBatch(n) ==
  [id \in {i \in enclaveSubs : LogsOf(i, n) # <<>>} |-> LogsOf(id, n)]

\* ExecuteStoredBatches begins: FetchCanonicalUnexecutedBatches.
FetchUnexecuted(e) ==
  /\ pushing[e] = Idle
  /\ told' = [told EXCEPT ![e] = executed]
  /\ UNCHANGED <<env, executed, pushing, callback, enclaveSubs, streamVars, hostVars, apiVars>>

Goto(e, stage) == pushing' = [pushing EXCEPT ![e] = [stage |-> stage, logs |-> Nothing]]

\* The next batch of an executor's list.  Another executor may have had it on
\* its list too and been quicker: StoreExecutedBatch then does nothing, and
\* the batch is announced again.
StoreExecutedBatch(e) ==
  /\ pushing[e] = Idle /\ told[e] < env.batches
  /\ told' = [told EXCEPT ![e] = @ + 1]
  /\ executed' = Max({executed, told[e] + 1})
  /\ Goto(e, "executed")
  /\ UNCHANGED <<env, callback, enclaveSubs, streamVars, hostVars, apiVars>>

\* With a callback set, callbackMutex is read-locked until the callback returns.
OnBatchExecuted(e) ==
  /\ pushing[e].stage = "executed"
  /\ Goto(e, IF callback = 0 THEN "idle" ELSE "batch")
  /\ UNCHANGED <<env, executed, told, callback, enclaveSubs, streamVars, hostVars, apiVars>>

\* callbackMutex can be taken for writing.
CallbackMutexFree == \A e \in Executors : pushing[e].stage \in {"idle", "executed"}

Push(m) == queue' = [queue EXCEPT ![callback] = Append(@, m)]

\* The channel is bounded: the callback waits for room.
HasRoom == Len(queue[callback]) < env.capacity

\* The receipts passed with a batch, "nil" when it was executed for a rollup.
\* One that executors race for may be passed both ways.
Receipts(n) ==
  IF n \notin env.rolledUp THEN {"receipts"}
  ELSE IF Cardinality(env.executors) = 1 THEN {"nil"} ELSE {"receipts", "nil"}

\* The callback; without receipts it does not look at the logs.
SendBatch(e) ==
  /\ pushing[e].stage = "batch" /\ HasRoom
  /\ Push([batch |-> told[e], logs |-> Nothing])
  /\ \E receipts \in Receipts(told[e]) : Goto(e, IF receipts = "nil" THEN "idle" ELSE "logs")
  /\ UNCHANGED <<env, executed, told, callback, enclaveSubs, handler, alive, recv, client,
                 hostVars, apiVars>>

\* Without subscriptions or logs there is no message.
StreamEventsForNewHeadBatch(e) ==
  /\ pushing[e].stage = "logs"
  /\ IF enclaveSubs = {} \/ BatchLogs[told[e]] = <<>> THEN Goto(e, "idle")
     ELSE pushing' = [pushing EXCEPT ![e] =
            [stage |-> "send", logs |-> GetSubscribedLogsForBatch(told[e])]]
  /\ UNCHANGED <<env, executed, told, callback, enclaveSubs, streamVars, hostVars, apiVars>>

\* Mutant: the callback does not wait for room, as a select with a default.
SendLogsIfRoom(e) ==
  /\ pushing[e].stage = "send"
  /\ IF HasRoom THEN Push([batch |-> 0, logs |-> pushing[e].logs]) ELSE UNCHANGED queue
  /\ Goto(e, "idle")
  /\ UNCHANGED <<env, executed, told, callback, enclaveSubs, handler, alive, recv, client,
                 hostVars, apiVars>>

SendLogs(e) ==
  /\ pushing[e].stage = "send" /\ HasRoom
  /\ Push([batch |-> 0, logs |-> pushing[e].logs])
  /\ Goto(e, "idle")
  /\ UNCHANGED <<env, executed, told, callback, enclaveSubs, handler, alive, recv, client,
                 hostVars, apiVars>>

-----------------------------------------------------------------------------
(***************************************************************************)
(* The stream of updates, over a connection that may break.                *)
(***************************************************************************)

\* RPCServer.StreamL2Updates begins: SubscribeForExecutedBatches takes
\* callbackMutex and replaces whatever callback there was.
BeginStream(k) ==
  /\ handler[k] = "opening" /\ CallbackMutexFree
  /\ handler' = [handler EXCEPT ![k] = "serving"]
  /\ callback' = k
  /\ UNCHANGED <<env, executed, told, pushing, enclaveSubs, queue, alive, recv, client,
                 hostVars, apiVars>>

\* The handler passes an update on; it notices that the connection is gone
\* only when it sends, and then returns.
ServeUpdate(k) ==
  /\ handler[k] = "serving" /\ queue[k] # <<>>
  /\ queue' = [queue EXCEPT ![k] = Tail(@)]
  /\ IF k \in alive
     THEN /\ Len(recv[k]) < RecvCapacity
          /\ recv' = [recv EXCEPT ![k] = Append(@, Head(queue[k]))]
          /\ UNCHANGED handler
     ELSE /\ handler' = [handler EXCEPT ![k] = "stopping"]
          /\ UNCHANGED recv
  /\ UNCHANGED <<env, enclaveVars, alive, client, hostVars, apiVars>>

\* The deferred stop: UnsubscribeFromBatches clears the callback, whichever
\* stream it belongs to.
EndStream(k) ==
  /\ handler[k] = "stopping" /\ CallbackMutexFree
  /\ handler' = [handler EXCEPT ![k] = "done"]
  /\ callback' = 0
  /\ UNCHANGED <<env, executed, told, pushing, enclaveSubs, queue, alive, recv, client,
                 hostVars, apiVars>>

\* The connection is lost; what the client has received stays readable.
Break ==
  /\ Fault("breaks")
  /\ alive' = alive \ {client} /\ alive' # alive
  /\ UNCHANGED <<enclaveVars, queue, handler, recv, client, hostVars, apiVars>>

\* The enclave restarts: the subscriptions, the callback and the channels were
\* in its memory.
RestartEnclave ==
  /\ Fault("restarts")
  /\ enclaveSubs' = {} /\ callback' = 0
  /\ told' = [e \in Executors |-> executed] /\ pushing' = [e \in Executors |-> Idle]
  /\ queue' = [k \in Streams |-> <<>>]
  /\ handler' = [k \in Streams |-> "done"]
  /\ alive' = {}
  /\ UNCHANGED <<executed, recv, client, hostVars, apiVars>>

\* streamEnclaveData has read all of a channel that is closed.
ChannelClosed ==
  /\ sending = Nothing
  /\ client \notin alive \cup {0} /\ recv[client] = <<>>

\* It waits three seconds and opens the stream again.
Reconnect ==
  /\ ChannelClosed
  /\ LET k == client + 1 IN
       /\ client' = k /\ alive' = alive \cup {k}
       /\ queue' = Append(queue, <<>>) /\ recv' = Append(recv, <<>>)
       /\ handler' = Append(handler, "opening")
  /\ UNCHANGED <<env, enclaveVars, hostVars, apiVars>>

\* The stream cannot be opened: the client returns a nil channel, from which
\* streamEnclaveData will never receive.
ReconnectFails ==
  /\ ChannelClosed /\ Fault("openFails")
  /\ client' = 0
  /\ UNCHANGED <<enclaveVars, queue, handler, alive, recv, hostVars, apiVars>>

\* streamEnclaveData reads an update: a batch is added to the repository;
\* logs are sent, under subscriptionMutex, to the subscriptions the host has.
ReceiveUpdate ==
  /\ sending = Nothing /\ client # 0 /\ recv[client] # <<>>
  /\ recv' = [recv EXCEPT ![client] = Tail(@)]
  /\ LET m == Head(recv[client]) IN
       /\ repo' = IF m.batch = 0 THEN repo ELSE repo \cup {m.batch}
       /\ sending' = [id \in DOMAIN m.logs \cap open |-> m.logs[id]]
  /\ UNCHANGED <<env, enclaveVars, queue, handler, alive, client, open, apiVars>>

\* SendLogsToSubscribers hands one subscription's logs over: the channel has
\* no buffer, so this waits for the reader, which notifies the client.
SendLogsToSubscriber(id) ==
  /\ id \in DOMAIN sending /\ reader[id] = "reading"
  /\ delivered' = [delivered EXCEPT ![id] = @ \o sending[id]]
  /\ sending' = [i \in DOMAIN sending \ {id} |-> sending[i]]
  /\ UNCHANGED <<env, enclaveVars, streamVars, repo, open, sub, reader>>

-----------------------------------------------------------------------------
(***************************************************************************)
(* FilterAPI.Logs and the two goroutines it starts.                        *)
(***************************************************************************)

\* subscriptionMutex can be taken for writing.
SubscriptionMutexFree == sending = Nothing

\* LogEventManager.Subscribe registers the subscription with the enclave ...
SubscribeWithEnclave(id) ==
  /\ sub[id] = "new"
  /\ sub' = [sub EXCEPT ![id] = "enclave"]
  /\ enclaveSubs' = enclaveSubs \cup {id}
  /\ UNCHANGED <<env, executed, told, pushing, callback, streamVars, hostVars, reader,
                 delivered>>

\* ... and then with the host.
Subscribe(id) ==
  /\ sub[id] = "enclave" /\ SubscriptionMutexFree
  /\ sub' = [sub EXCEPT ![id] = "host"]
  /\ open' = open \cup {id}
  /\ UNCHANGED <<env, enclaveVars, streamVars, repo, sending, reader, delivered>>

\* The client is sent its id, and the goroutine that reads the channel starts.
NotifyId(id) ==
  /\ sub[id] = "host"
  /\ sub' = [sub EXCEPT ![id] = "subscribed"]
  /\ reader' = [reader EXCEPT ![id] = "reading"]
  /\ UNCHANGED <<env, enclaveVars, streamVars, hostVars, delivered>>

\* The id cannot be sent: Logs unsubscribes, and no goroutine reads.
NotifyIdFails(id) ==
  /\ sub[id] = "host" /\ Fault("idFails")
  /\ sub' = [sub EXCEPT ![id] = "closing"]
  /\ UNCHANGED <<enclaveVars, streamVars, hostVars, reader, delivered>>

\* Mutant: one goroutine reads the logs and handles the unsubscribe command.
UnsubscribeCommandInReader(id) ==
  /\ sub[id] = "subscribed"
  /\ sub' = [sub EXCEPT ![id] = "closing"]
  /\ reader' = [reader EXCEPT ![id] = "stopped"]
  /\ UNCHANGED <<env, enclaveVars, streamVars, hostVars, delivered>>

\* The client unsubscribes or goes away: subscription.Err() is readable.
UnsubscribeCommand(id) ==
  /\ sub[id] = "subscribed"
  /\ sub' = [sub EXCEPT ![id] = "closing"]
  /\ UNCHANGED <<env, enclaveVars, streamVars, hostVars, reader, delivered>>

\* Mutant: Unsubscribe returns when the enclave answers with an error.
UnsubscribeFromEnclaveOrReturn(id) ==
  /\ sub[id] = "closing"
  /\ \/ /\ sub' = [sub EXCEPT ![id] = "removing"]
        /\ enclaveSubs' = enclaveSubs \ {id} /\ UNCHANGED env
     \/ /\ sub' = [sub EXCEPT ![id] = "failed"]
        /\ Fault("unsubscribeFails") /\ UNCHANGED enclaveSubs
  /\ UNCHANGED <<executed, told, pushing, callback, streamVars, hostVars, reader,
                 delivered>>

\* LogEventManager.Unsubscribe asks the enclave first and goes on when that
\* fails ...
UnsubscribeFromEnclave(id) ==
  /\ sub[id] = "closing"
  /\ sub' = [sub EXCEPT ![id] = "removing"]
  /\ \/ enclaveSubs' = enclaveSubs \ {id} /\ UNCHANGED env
     \/ Fault("unsubscribeFails") /\ UNCHANGED enclaveSubs
  /\ UNCHANGED <<executed, told, pushing, callback, streamVars, hostVars, reader,
                 delivered>>

\* Mutant: the channel is closed without taking subscriptionMutex.
UnsubscribeWithoutMutex(id) ==
  /\ sub[id] = "removing"
  /\ sub' = [sub EXCEPT ![id] = "removed"]
  /\ open' = open \ {id}
  /\ UNCHANGED <<env, enclaveVars, streamVars, repo, sending, reader, delivered>>

\* ... then it closes the channel and forgets the subscription.
Unsubscribe(id) ==
  /\ sub[id] = "removing" /\ SubscriptionMutexFree
  /\ sub' = [sub EXCEPT ![id] = "removed"]
  /\ open' = open \ {id}
  /\ UNCHANGED <<env, enclaveVars, streamVars, repo, sending, reader, delivered>>

\* The reading goroutine finds the channel closed, or times out after the
\* unsubscribe command was carried out.
StopListening(id) ==
  /\ sub[id] = "removed" /\ reader[id] = "reading"
  /\ reader' = [reader EXCEPT ![id] = "stopped"]
  /\ UNCHANGED <<env, enclaveVars, streamVars, hostVars, sub, delivered>>

-----------------------------------------------------------------------------
Stream(k) == BeginStream(k) \/ ServeUpdate(k) \/ EndStream(k)

\* What an executor does about a batch it has executed.
Announce(e) ==
  \/ OnBatchExecuted(e) \/ SendBatch(e) \/ StreamEventsForNewHeadBatch(e) \/ SendLogs(e)

EnclaveStep == (\E e \in Executors : Announce(e)) \/ (\E k \in Streams : Stream(k))

HostStep == ReceiveUpdate \/ Reconnect

Api(id) ==
  \/ SubscribeWithEnclave(id) \/ Subscribe(id) \/ NotifyId(id) \/ NotifyIdFails(id)
  \/ UnsubscribeCommand(id) \/ UnsubscribeFromEnclave(id) \/ Unsubscribe(id)
  \/ StopListening(id) \/ SendLogsToSubscriber(id)

\* What the goroutines of a subscription do by themselves.
Progress(id) ==
  \/ Subscribe(id) \/ NotifyId(id) \/ UnsubscribeFromEnclave(id) \/ Unsubscribe(id)
  \/ StopListening(id) \/ SendLogsToSubscriber(id)

Next ==
  \/ \E e \in env.executors : FetchUnexecuted(e) \/ StoreExecutedBatch(e) \/ Announce(e)
  \/ \E k \in Streams : Stream(k)
  \/ Break
  \/ RestartEnclave
  \/ Reconnect
  \/ ReconnectFails
  \/ ReceiveUpdate
  \/ \E id \in env.ids : Api(id)

Spec == Init /\ [][Next]_vars

(***************************************************************************)
(* Fairness: every goroutine that can go on does, and one that waits for a *)
(* mutex gets it once it stays free. Batches need not be executed, clients *)
(* need not subscribe or leave, nothing need fail.                         *)
(***************************************************************************)
Fairness ==
  /\ WF_vars(EnclaveStep)
  /\ WF_vars(HostStep)
  /\ \A id \in Ids : WF_vars(id \in env.ids /\ Progress(id))

FairSpec == Spec /\ Fairness

-----------------------------------------------------------------------------
(***************************************************************************)
(* Properties.                                                             *)
(***************************************************************************)

\* The logs of id in messages that have not reached its client yet.
LogsIn(messages, id) ==
  FlattenSeq([i \in 1..Len(messages) |->
                IF id \in DOMAIN messages[i].logs THEN messages[i].logs[id] ELSE <<>>])

InFlight(id) ==
  (IF id \in DOMAIN sending THEN sending[id] ELSE <<>>)
    \o LogsIn(recv[client], id) \o LogsIn(queue[client], id)

Unbroken == Streams = {1} /\ 1 \in alive

\* The logs of batch n that are streamed to id.
Streamed(id, n) == IF n \in env.rolledUp THEN <<>> ELSE LogsOf(id, n)

\* A client is notified only of logs that match its filter and concern its
\* account.  Where callbacks come one at a time, as on a sequencer, they come
\* in the order of the batches and each once, whatever happens to the stream;
\* and while the stream from GetSubscribedLogsForBatch to SendLogsToSubscribers
\* is not interrupted, a client that the host knows has no gap: what it got and
\* what is under way are the logs of consecutive batches, leaving out those
\* that were executed for a rollup, up to the last one if the enclave knows
\* the client too.
LogsComplete ==
  \A id \in Ids :
    /\ \A i \in 1..Len(delivered[id]) :
         \E n \in 1..executed : delivered[id][i] \in ToSet(LogsOf(id, n))
    /\ Cardinality(env.executors) = 1 =>
         /\ \A i, j \in 1..Len(delivered[id]) : i < j =>
              LET a == delivered[id][i]
                  b == delivered[id][j]
              IN a[1] < b[1] \/ (a[1] = b[1] /\ a[2] < b[2])
         /\ Unbroken /\ id \in open =>
              \E from \in 1..(env.batches + 1), to \in 0..env.batches :
                /\ id \in enclaveSubs /\ (\A e \in Executors : pushing[e] = Idle) => to = executed
                /\ delivered[id] \o InFlight(id) =
                     FlattenSeq([i \in 1..(IF to < from THEN 0 ELSE to - from + 1) |->
                                   Streamed(id, from + i - 1)])

\* SendLogsToSubscribers never sends on a channel that Unsubscribe has closed,
\* which would end the host.
SendsToOpenChannels == DOMAIN sending \subseteq open

\* Logs gave up on a client it could not send the id to: it unsubscribes
\* without a reader, and a send to that subscription waits for ever.
Abandoned == \E id \in Ids : sub[id] \in {"closing", "removing"} /\ reader[id] = "none"

\* Every batch executed while the stream is up reaches streamEnclaveData and
\* is added to the repository, whoever subscribes and unsubscribes meanwhile:
\* no reader that left keeps SendLogsToSubscribers waiting.
UpdatesReachHost == []<>(1..executed \subseteq repo \/ ~Unbroken \/ Abandoned)

\* An unsubscribe command ends with the subscription gone from the host and
\* its reader stopped, also when the enclave cannot be told and when the
\* stream breaks meanwhile.
UnsubscribeCompletes ==
  []<>(\/ \A id \in Ids : sub[id] \notin {"new", "enclave", "host", "subscribed"} =>
                            id \notin open /\ reader[id] # "reading"
       \/ Abandoned)
=============================================================================
