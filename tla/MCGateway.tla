----------------------------- MODULE MCGateway ------------------------------
EXTENDS GatewayConnection

Environment(members, kinds, calls, parallel, keys, restarts, dbFails, unreachable) ==
  [users |-> members, kinds |-> kinds, calls |-> calls, parallel |-> parallel, keys |-> keys,
   restarts |-> restarts, dbFails |-> dbFails, unreachable |-> unreachable,
   connects |-> FALSE, endings |-> {}]

UserRequests == {"join", "authenticate", "revoke"}

\* Requests of one user, and of two with faults, two requests at a time;
\* submissions of viewing keys, with two keys of an account and with faults, two
\* at a time; both kinds, one at a time.
Gateways ==
  { Environment({"u"}, UserRequests, 5, 2, 0, 1, 0, 0),
    Environment(Users, UserRequests, 4, 2, 0, 1, 1, 1),
    Environment({}, {"submit"}, 3, 2, 2, 1, 0, 0),
    Environment({}, {"submit"}, 3, 2, 1, 1, 1, 1),
    Environment({"u"}, UserRequests \cup {"submit"}, 4, 1, 1, 1, 0, 0) }

\* A user that joins, registers two accounts and connects.
Connections(endings, unreachable) ==
  { [Environment({"u"}, {"join", "authenticate"}, 3, 1, 0, 0, 0, unreachable)
       EXCEPT !.connects = TRUE, !.endings = endings] }

MCEnvironments == Gateways \cup Connections({"eof", "closed", "reset"}, 1)

\* Two submissions of keys; a connection that the user closes.
MCClaims ==
  {Environment({}, {"submit"}, 2, 1, 1, 0, 0, 0)} \cup Connections({"closed"}, 0)
=============================================================================
