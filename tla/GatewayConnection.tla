-------------------------- MODULE GatewayConnection --------------------------
(***************************************************************************)
(* A user's websocket connection to the gateway and its log subscription:  *)
(*                                                                         *)
(*   node --stream--> forwardLogs --logCh--> reader --> websocket          *)
(*                                                                         *)
(* Four goroutines serve it: the loop of wsRequestHandler, forwardLogs,    *)
(* and the two that executeSubscribe starts, the reader and the closer.    *)
(* forwardLogs and the reader both listen on the one error channel of the  *)
(* subscription, which carries a single error, or is closed.               *)
(***************************************************************************)
EXTENDS Gateway

CONSTANT MaxLogs  \* the logs the node sends at most

ASSUME MaxLogsAssumption == MaxLogs \in Nat

VARIABLES
  user,       \* the user in the parameters of the connection
  socket,     \* "none", "open", "closed" by the user with a close frame, "reset",
              \* "eof" with the user gone, "gone" once a write is then refused
  isClosed,   \* userConnWS.isClosed
  loop,       \* wsRequestHandler: "off", "reading", "ended", "panicked"
  filter,     \* the account in the topics the user subscribed with, if any
  accountsAt, \* the accounts the user had when subscribing
  subscribed, \* the account whose client holds the subscription
  sub,        \* the subscription: "none", "active", "failed", "unsubscribed"
  errors,     \* the errors waiting in the subscription's error channel
  sent,       \* the logs the node sent
  stream,     \* the messages on their way to forwardLogs, each of some logs
  forwarder,  \* forwardLogs: "off", "selecting", "done"
  held,       \* the logs forwardLogs still has to put on logCh
  reader,     \* "off", "waiting", "done"
  closer,     \* "off", "polling", "done"
  written     \* the logs written to the open websocket

connVars == <<user, socket, isClosed, loop, filter, accountsAt, subscribed, sub, errors, sent,
              stream, forwarder, held, reader, closer, written>>
vars == <<gatewayVars, connVars>>

Init ==
  /\ GatewayInit
  /\ user = None /\ socket = "none" /\ isClosed = FALSE /\ loop = "off"
  /\ filter = None /\ accountsAt = {} /\ subscribed = None /\ sub = "none" /\ errors = 0
  /\ sent = 0 /\ stream = <<>> /\ forwarder = "off" /\ held = <<>>
  /\ reader = "off" /\ closer = "off" /\ written = <<>>

Connect ==
  /\ env.connects /\ socket = "none"
  /\ user' \in known \cup {DefaultUser}
  /\ socket' = "open" /\ loop' = "reading"
  /\ UNCHANGED <<gatewayVars, isClosed, filter, accountsAt, subscribed, sub, errors, sent,
                 stream, forwarder, held, reader, closer, written>>

\* Once subscribed, forwardLogs, the reader and the closer run.
ExecuteSubscribe ==
  /\ sub' = "active" /\ forwarder' = "selecting" /\ reader' = "waiting" /\ closer' = "polling"

\* The client of an account named in the topics, or else any of them.
SuggestSubscriptionClient(clients, topic) ==
  IF topic \in DOMAIN clients THEN {topic} ELSE DOMAIN clients

\* The clients of the connection's user.
Clients == IF user \in DOMAIN managers THEN managers[user] ELSE <<>>

\* eth_subscribe.  A client the node refuses or does not answer, or the absence
\* of a client, gets the user an error; a nil client ends the handler.
Subscribe ==
  /\ loop = "reading" /\ socket = "open" /\ sub = "none"
  /\ \E topic \in Accounts \cup {None} :
       \E a \in SuggestSubscriptionClient(Clients, topic) :
         \/ /\ Usable(Clients[a]) /\ ExecuteSubscribe
            /\ subscribed' = a /\ filter' = topic /\ accountsAt' = DOMAIN Clients
            /\ UNCHANGED loop
         \/ /\ Clients[a] = NilClient /\ loop' = "panicked"
            /\ UNCHANGED <<subscribed, filter, accountsAt, sub, forwarder, reader, closer>>
  /\ UNCHANGED <<gatewayVars, user, socket, isClosed, errors, sent, stream, held, written>>

\* The first write after the user is gone still succeeds.
AfterWrite == IF socket = "eof" THEN "gone" ELSE socket

\* Any other request gets a response, unless it reaches a nil client: the panic
\* is the end of the handler, and the websocket stays as it is.  The user may
\* have gone since it sent the request.
ProxyRequest ==
  /\ loop = "reading" /\ socket \in {"open", "eof", "gone"}
  /\ \/ socket' = AfterWrite /\ UNCHANGED loop
     \/ NilClient \in Range(Clients) /\ loop' = "panicked" /\ UNCHANGED socket
  /\ UNCHANGED <<gatewayVars, user, isClosed, filter, accountsAt, subscribed, sub,
                 errors, sent, stream, forwarder, held, reader, closer, written>>

-----------------------------------------------------------------------------
(***************************************************************************)
(* The node's end.                                                         *)
(***************************************************************************)

\* The node sends the logs of a batch.
NodeSends ==
  /\ sub = "active"
  /\ \E n \in 1..(MaxLogs - sent) :
       sent' = sent + n /\ stream' = Append(stream, [i \in 1..n |-> sent + i])
  /\ UNCHANGED <<gatewayVars, user, socket, isClosed, loop, filter, accountsAt, subscribed, sub,
                 errors, forwarder, held, reader, closer, written>>

\* The connection to the node fails: the rpc client drops what it has buffered
\* and puts one error on the channel.
NodeFails ==
  /\ sub = "active" /\ Fault("unreachable")
  /\ sub' = "failed" /\ errors' = 1 /\ stream' = <<>>
  /\ UNCHANGED <<tables, managers, unsignedVKs, signed, generated, known, req, history, user, socket,
                 isClosed, loop, filter, accountsAt, subscribed, sent, forwarder, held, reader,
                 closer, written>>

-----------------------------------------------------------------------------
(***************************************************************************)
(* The goroutines.                                                         *)
(***************************************************************************)

\* Mutant: of a message's logs only the first is handed on.
ForwardFirstLog ==
  /\ forwarder = "selecting" /\ held = <<>> /\ stream # <<>>
  /\ held' = <<Head(Head(stream))>> /\ stream' = Tail(stream)
  /\ UNCHANGED <<gatewayVars, user, socket, isClosed, loop, filter, accountsAt, subscribed, sub,
                 errors, sent, forwarder, reader, closer, written>>

\* A message is decrypted into its logs.
ForwardLogs ==
  /\ forwarder = "selecting" /\ held = <<>> /\ stream # <<>>
  /\ held' = Head(stream) /\ stream' = Tail(stream)
  /\ UNCHANGED <<gatewayVars, user, socket, isClosed, loop, filter, accountsAt, subscribed, sub,
                 errors, sent, forwarder, reader, closer, written>>

\* logCh is unbuffered: forwardLogs hands a log to the reader, which leaves when
\* the connection is closed and otherwise writes it.  A failed write does not
\* close the connection: its error does not say EOF.
ReadLog ==
  /\ held # <<>> /\ reader = "waiting" /\ held' = Tail(held)
  /\ written' = IF ~isClosed /\ socket = "open" THEN Append(written, Head(held)) ELSE written
  /\ reader' = IF isClosed THEN "done" ELSE reader
  /\ socket' = IF isClosed THEN socket ELSE AfterWrite
  /\ UNCHANGED <<gatewayVars, user, isClosed, loop, filter, accountsAt, subscribed, sub, errors, sent,
                 stream, forwarder, closer>>

\* Receiving on the error channel: the error, or the end of the channel.
ReceiveError ==
  /\ errors > 0 \/ sub = "unsubscribed"
  /\ errors' = IF errors > 0 THEN errors - 1 ELSE 0

ForwardLogsEnds ==
  /\ forwarder = "selecting" /\ held = <<>> /\ ReceiveError
  /\ forwarder' = "done"
  /\ UNCHANGED <<gatewayVars, user, socket, isClosed, loop, filter, accountsAt, subscribed, sub, sent,
                 stream, held, reader, closer, written>>

\* The reader tells the user of an error, which closes the connection when the
\* write fails and the error says EOF.
ReaderEnds ==
  /\ reader = "waiting" /\ ReceiveError
  /\ reader' = "done"
  /\ IF errors > 0
     THEN /\ isClosed' \in IF socket \in {"closed", "reset", "gone"} THEN {isClosed, TRUE} ELSE {isClosed}
          /\ socket' = AfterWrite
     ELSE UNCHANGED <<isClosed, socket>>
  /\ UNCHANGED <<gatewayVars, user, loop, filter, accountsAt, subscribed, sub, sent, stream, forwarder,
                 held, closer, written>>

\* Unsubscribe closes the error channel.
Unsubscribe ==
  /\ closer = "polling" /\ isClosed
  /\ closer' = "done" /\ sub' = "unsubscribed" /\ stream' = <<>>
  /\ UNCHANGED <<gatewayVars, user, socket, isClosed, loop, filter, accountsAt, subscribed, errors,
                 sent, forwarder, held, reader, written>>

-----------------------------------------------------------------------------
(***************************************************************************)
(* The end of the connection.                                              *)
(***************************************************************************)

\* The user sends a close frame, which is answered so that writes are refused
\* from then on, or the connection is reset, or it just ends.
UserLeaves ==
  /\ socket = "open" /\ socket' \in env.endings
  /\ UNCHANGED <<gatewayVars, user, isClosed, loop, filter, accountsAt, subscribed, sub, errors, sent,
                 stream, forwarder, held, reader, closer, written>>

\* Mutant: only the codes of IsCloseError count.
HandleErrorByCode(eof) == isClosed' = isClosed /\ socket' = AfterWrite

\* HandleError writes the error; when that fails too, an error that says EOF
\* closes the connection.  IsCloseError is called without a code: always false.
HandleError(eof) ==
  /\ isClosed' = (isClosed \/ (socket \in {"closed", "reset", "gone"} /\ eof))
  /\ socket' = AfterWrite

\* Every read fails from now on, with the same error.  The loop ends when the
\* connection is closed, or when the websocket panics after a thousand reads.
ReadRequestFails ==
  /\ loop = "reading" /\ socket \in {"closed", "reset", "eof", "gone"}
  /\ HandleError(socket \notin {"closed", "reset"})
  /\ loop' = IF isClosed' THEN "ended"
             ELSE IF socket \in {"closed", "reset"} THEN "panicked" ELSE loop
  /\ UNCHANGED <<gatewayVars, user, filter, accountsAt, subscribed, sub, errors, sent, stream,
                 forwarder, held, reader, closer, written>>

RestartProcess ==
  /\ Restart
  /\ user' = None /\ socket' = "none" /\ isClosed' = FALSE /\ loop' = "off"
  /\ filter' = None /\ accountsAt' = {} /\ subscribed' = None /\ sub' = "none" /\ errors' = 0
  /\ sent' = 0 /\ stream' = <<>> /\ forwarder' = "off" /\ held' = <<>>
  /\ reader' = "off" /\ closer' = "off" /\ written' = <<>>

Next ==
  \/ RequestStep /\ UNCHANGED connVars
  \/ RestartProcess
  \/ Connect \/ Subscribe \/ ProxyRequest \/ NodeSends \/ NodeFails
  \/ ForwardLogs \/ ReadLog \/ ForwardLogsEnds \/ ReaderEnds \/ Unsubscribe
  \/ UserLeaves \/ ReadRequestFails

Spec == Init /\ [][Next]_vars

\* Goroutines that can run do: those of the connection.
FairSpec ==
  /\ Spec
  /\ WF_vars(ForwardLogs) /\ WF_vars(ReadLog) /\ WF_vars(ForwardLogsEnds)
  /\ WF_vars(ReaderEnds) /\ WF_vars(Unsubscribe) /\ WF_vars(ReadRequestFails)

-----------------------------------------------------------------------------
(***************************************************************************)
(* Properties.                                                             *)
(***************************************************************************)

\* What a subscription leaves behind: nothing, but for a forwardLogs that holds
\* a log which the reader left without taking.
Released ==
  /\ sub \in {"none", "unsubscribed"} /\ reader # "waiting"
  /\ forwarder # "selecting" \/ held # <<>>

\* When a user's connection ends without a close frame or a reset, so that reads
\* fail with EOF, the subscription is cancelled and its goroutines come to their
\* end, whatever logs and errors are under way: the handler's reads find out,
\* and the closer polls for it.  A handler that panicked, on a request for a
\* client that could not be dialled, does not read any more.
SubscriptionEnds == (sub = "active" /\ socket = "eof") ~> (Released \/ loop = "panicked")

\* While the user stays and the node does not fail, every log the node sent is
\* written, in the order it was sent.
LogsReachUser ==
  \A n \in 1..MaxLogs :
    (sub = "active" /\ sent = n) ~>
      \/ Len(written) >= n /\ \A i \in 1..n : written[i] = i
      \/ sub # "active" \/ socket # "open"

\* The subscription is terminated when the websocket is closed.  It does not
\* hold: a close frame is not noticed.
TerminatedWhenClosed == (sub = "active" /\ socket = "closed") ~> Released

\* Without an account in the topics the user is subscribed with all accounts.
\* It does not hold: the loop over the clients returns in its first iteration.
SubscribesAllAccounts ==
  sub = "active" /\ filter \notin accountsAt => accountsAt = {subscribed}
=============================================================================
