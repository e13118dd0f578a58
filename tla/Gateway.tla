------------------------------- MODULE Gateway -------------------------------
(***************************************************************************)
(* The wallet extension: the users and accounts in its database, the       *)
(* account managers and encrypted clients it keeps in memory, and the      *)
(* requests that change them.                                              *)
(*                                                                         *)
(* The HTTP server runs one goroutine per request and no lock spans the    *)
(* steps of a request, so two requests interleave between any two calls to *)
(* the database, to the node or to the maps.  Go stops the process when it *)
(* sees two goroutines write to one map, which is one of the reasons for a *)
(* Restart.                                                                *)
(*                                                                         *)
(* A viewing key is <<owner, n>>.  A signature is the key it was made for: *)
(* an account only signs for itself.  Requests that are malformed or carry *)
(* a wrong signature change nothing and are left out.                      *)
(***************************************************************************)
EXTENDS Integers, Sequences, FiniteSets, TLC, Functions

CONSTANTS
  Users,        \* the user ids /join may give out
  DefaultUser,  \* the user of the requests without a user id
  Accounts,     \* the accounts a user may register
  Requests,     \* the slots, numbered, of the requests in progress
  Environments  \* the endpoints called and the faults met

ASSUME GatewayAssumption ==
  /\ DefaultUser \notin Users /\ Requests \subseteq Nat
  /\ \A e \in Environments : e.users \subseteq Users /\ {e.calls, e.restarts, e.dbFails, e.unreachable} \subseteq Nat

VARIABLES
  env,          \* the environment, with the budgets left
  users,        \* table users: the private key of each user
  accounts,     \* table accounts: rows [user, account, signature]
  managers,     \* userAccountManager: the accountClients of each user
  unsignedVKs,  \* the generated viewing key an account has still to sign
  signed,       \* the Signature of the viewing keys in memory
  generated,    \* the viewing keys generated for each account
  known,        \* the user ids that /join returned
  req,          \* the requests in progress
  drifted,      \* history: users whose managers may differ from the tables
  registered    \* history: the account submitted last and its client

tables == <<users, accounts>>
history == <<drifted, registered>>
gatewayVars == <<env, tables, managers, unsignedVKs, signed, generated, known, req, history>>

Idle == [kind |-> "idle"]
None == "none"
NoKey == <<None, 0>>

\* What AddClient gets when CreateEncClient failed, and what it gets otherwise.
NilClient == [key |-> NoKey, signature |-> NoKey]
NoRegistration == [account |-> None, client |-> NilClient]
Client(key, signature) == [key |-> key, signature |-> signature]

\* The check of the enclave on the requests of a client: the signature must
\* be the account's, on the client's own viewing key.
Usable(client) == client # NilClient /\ client.signature = client.key

GatewayInit ==
  /\ env \in Environments
  /\ users = <<>> /\ accounts = <<>>
  /\ managers = DefaultUser :> <<>>
  /\ unsignedVKs = <<>> /\ signed = <<>> /\ generated = [a \in Accounts |-> 0]
  /\ known = {} /\ req = [r \in Requests |-> Idle]
  /\ drifted = {} /\ registered = NoRegistration

Fault(kind) == env[kind] > 0 /\ env' = [env EXCEPT ![kind] = @ - 1]

-----------------------------------------------------------------------------
(***************************************************************************)
(* The database.  SQLite enforces foreign keys (on) on the connection of   *)
(* the pool that the PRAGMA was sent on and on no other, and a statement   *)
(* may get any of them.                                                    *)
(***************************************************************************)

ForeignKeys == BOOLEAN

RowsOfOthers(u) == SelectSeq(accounts, LAMBDA row : row.user # u)

\* INSERT OR REPLACE: a row that is replaced is deleted first, which cascades
\* to the accounts of the user.
StoreUser(u, key, on) ==
  /\ users' = (u :> key) @@ users
  /\ accounts' = IF on /\ u \in DOMAIN users THEN RowsOfOthers(u) ELSE accounts

RemoveUser(u, on) ==
  /\ users' = Restrict(users, DOMAIN users \ {u})
  /\ accounts' = IF on THEN RowsOfOthers(u) ELSE accounts

MayStoreAccount(u, on) == on => u \in DOMAIN users

StoreAccount(u, a, signature) ==
  /\ accounts' = Append(accounts, [user |-> u, account |-> a, signature |-> signature])
  /\ UNCHANGED users

GetAccounts(u) == SelectSeq(accounts, LAMBDA row : row.user = u)

UserHasAccount(u, a) == \E i \in DOMAIN GetAccounts(u) : GetAccounts(u)[i].account = a

-----------------------------------------------------------------------------
(***************************************************************************)
(* The maps in memory.                                                     *)
(***************************************************************************)

AddAndReturnAccountManager(u) ==
  managers' = IF u \in DOMAIN managers THEN managers ELSE (u :> <<>>) @@ managers

AddClient(u, a, client) == managers' = [managers EXCEPT ![u] = (a :> client) @@ @]

DeleteUserAccountManager(u) == managers' = Restrict(managers, DOMAIN managers \ {u})

-----------------------------------------------------------------------------
(***************************************************************************)
(* The requests.  Start takes a request in, Step moves it on, and Return   *)
(* ends it.                                                                *)
(***************************************************************************)

InProgress == {r \in Requests : req[r] # Idle}

\* A revocation and another request of one user, or two submissions of viewing
\* keys, are in progress at once.
Overlaps(r, kind, u) ==
  \E s \in InProgress \ {r} :
    req[s].user = u /\ {kind, req[s].kind} \cap {"revoke", "submit"} # {}

\* The slots are alike: a request takes the first free one.
Start(r, kind, u, a, next, key) ==
  /\ kind \in env.kinds /\ env.calls > 0 /\ Cardinality(InProgress) < env.parallel
  /\ req[r] = Idle /\ \A s \in Requests : s < r => req[s] # Idle
  /\ env' = [env EXCEPT !.calls = @ - 1]
  /\ req' = [req EXCEPT ![r] =
       [kind |-> kind, user |-> u, account |-> a, next |-> next, key |-> key, attached |-> TRUE]]
  /\ drifted' = IF Overlaps(r, kind, u) THEN drifted \cup {u} ELSE drifted

At(r, step) == req[r] # Idle /\ req[r].next = step
Step(r, step) == req' = [req EXCEPT ![r].next = step]
Return(r) == req' = [req EXCEPT ![r] = Idle]

\* The database refuses a statement of a request, which returns an error.
DatabaseFails(r) ==
  /\ \E step \in {"AddUser", "AddAccount", "DeleteUser"} : At(r, step)
  /\ Fault("dbFails") /\ Return(r)
  /\ UNCHANGED <<tables, managers, unsignedVKs, signed, generated, known, history>>

\* /join: a new key pair gives a new user id.
Join(r) ==
  /\ \E u \in env.users \ (known \cup DOMAIN users) :
       /\ \A s \in InProgress : req[s].user # u
       /\ Start(r, "join", u, None, "AddUser", NoKey)
  /\ UNCHANGED <<tables, managers, unsignedVKs, signed, generated, known, registered>>

GenerateAndStoreNewUser(r) ==
  LET u == req[r].user IN
  /\ req[r].kind = "join"
  /\ \/ /\ At(r, "AddUser") /\ Step(r, "AddAccountManager")
        /\ StoreUser(u, <<u, 0>>, TRUE)
        /\ UNCHANGED <<managers, known>>
     \/ /\ At(r, "AddAccountManager") /\ Return(r)
        /\ AddAndReturnAccountManager(u) /\ known' = known \cup {u}
        /\ UNCHANGED tables
  /\ UNCHANGED <<env, unsignedVKs, signed, generated, history>>

\* /authenticate: the account signed the user id, which stands for its key.
Authenticate(r) ==
  /\ \E u \in known, a \in Accounts : Start(r, "authenticate", u, a, "AddAccount", NoKey)
  /\ UNCHANGED <<tables, managers, unsignedVKs, signed, generated, known, registered>>

\* The private key is not found once the user is deleted, or when the
\* database fails: the request goes on without it.
GetUserPrivateKey(r, next) ==
  LET u == req[r].user IN
  \/ /\ req' = [req EXCEPT ![r].next = next,
                           ![r].key = IF u \in DOMAIN users THEN users[u] ELSE NoKey]
     /\ UNCHANGED env
  \/ Fault("dbFails") /\ Step(r, next)

\* CreateEncClient dials the node, and needs the private key.  A manager that
\* was deleted since it was returned is no longer in the map.
AddEncClient(r) ==
  LET q == req[r] IN
  \E reachable \in BOOLEAN :
    /\ IF reachable THEN UNCHANGED env ELSE Fault("unreachable")
    /\ IF q.attached
       THEN AddClient(q.user, q.account,
                      IF reachable /\ q.key # NoKey THEN Client(q.key, <<q.user, 0>>)
                                                    ELSE NilClient)
       ELSE UNCHANGED managers

AddAddressToUser(r) ==
  LET q == req[r] IN
  /\ q.kind = "authenticate"
  /\ \/ \E on \in ForeignKeys :
          /\ At(r, "AddAccount")
          /\ \/ /\ MayStoreAccount(q.user, on)
                /\ StoreAccount(q.user, q.account, <<q.user, 0>>) /\ Step(r, "GetUserPrivateKey")
             \/ ~MayStoreAccount(q.user, on) /\ Return(r) /\ UNCHANGED tables
          /\ UNCHANGED <<env, managers>>
     \/ /\ At(r, "GetUserPrivateKey") /\ GetUserPrivateKey(r, "AddAccountManager")
        /\ UNCHANGED <<tables, managers>>
     \/ /\ At(r, "AddAccountManager") /\ Step(r, "AddClient")
        /\ AddAndReturnAccountManager(q.user) /\ UNCHANGED <<env, tables>>
     \/ At(r, "AddClient") /\ Return(r) /\ AddEncClient(r) /\ UNCHANGED tables
  /\ UNCHANGED <<unsignedVKs, signed, generated, known, history>>

\* /revoke
Revoke(r) ==
  /\ \E u \in known : Start(r, "revoke", u, None, "DeleteUser", NoKey)
  /\ UNCHANGED <<tables, managers, unsignedVKs, signed, generated, known, registered>>

\* Mutant: the user's clients stay in memory.
DeleteUserRow(r) ==
  /\ req[r].kind = "revoke" /\ At(r, "DeleteUser")
  /\ \E on \in ForeignKeys : RemoveUser(req[r].user, on)
  /\ Return(r)
  /\ UNCHANGED <<env, managers, unsignedVKs, signed, generated, known, history>>

DeleteUser(r) ==
  LET u == req[r].user IN
  /\ req[r].kind = "revoke"
  /\ \/ \E on \in ForeignKeys :
          /\ At(r, "DeleteUser") /\ RemoveUser(u, on) /\ Step(r, "DeleteManager")
          /\ UNCHANGED managers
     \/ /\ At(r, "DeleteManager") /\ DeleteUserAccountManager(u)
        /\ req' = [s \in Requests |->
             IF s = r THEN Idle
             ELSE IF At(s, "AddClient") /\ req[s].user = u
             THEN [req[s] EXCEPT !.attached = FALSE] ELSE req[s]]
        /\ UNCHANGED tables
  /\ UNCHANGED <<env, unsignedVKs, signed, generated, known, history>>

\* /generateviewingkey
GenerateViewingKey ==
  \E a \in Accounts :
    LET key == <<a, generated[a] + 1>> IN
    /\ "submit" \in env.kinds /\ generated[a] < env.keys
    /\ generated' = [generated EXCEPT ![a] = @ + 1]
    /\ unsignedVKs' = (a :> key) @@ unsignedVKs
    /\ signed' = (key :> NoKey) @@ signed
    /\ UNCHANGED <<env, tables, managers, known, req, history>>

\* The clients made from a viewing key share its Signature field.
ClientsSigned(key, signature) ==
  [a \in DOMAIN managers[DefaultUser] |->
     LET client == managers[DefaultUser][a] IN
     IF client.key = key THEN Client(key, signature) ELSE client]

\* /submitviewingkey: the signature is one the account made on a key that was
\* generated for it, the pending one unless another was generated since.
SubmitViewingKey(r) ==
  \E a \in DOMAIN unsignedVKs : \E n \in 1..generated[a] :
    LET vk == unsignedVKs[a] IN
    /\ Start(r, "submit", DefaultUser, a, "AddClient", vk)
    /\ signed' = [signed EXCEPT ![vk] = <<a, n>>]
    /\ managers' = [managers EXCEPT ![DefaultUser] = ClientsSigned(vk, <<a, n>>)]
    /\ UNCHANGED <<tables, unsignedVKs, generated, known, registered>>

\* The rest of SubmitViewingKey, once the node is reached.
StoreViewingKey(r) ==
  LET q == req[r] IN
  /\ q.kind = "submit"
  /\ \/ /\ At(r, "AddClient")
        /\ AddClient(DefaultUser, q.account, Client(q.key, signed[q.key])) /\ Step(r, "AddUser")
        /\ UNCHANGED <<tables, unsignedVKs, registered>>
     \/ \E on \in ForeignKeys :
          /\ At(r, "AddUser") /\ StoreUser(DefaultUser, q.key, on) /\ Step(r, "AddAccount")
          /\ registered' = NoRegistration /\ UNCHANGED <<managers, unsignedVKs>>
     \/ /\ At(r, "AddAccount") /\ StoreAccount(DefaultUser, q.account, signed[q.key])
        /\ Step(r, "ForgetKey") /\ UNCHANGED <<managers, unsignedVKs, registered>>
     \/ /\ At(r, "ForgetKey") /\ Return(r)
        /\ registered' = [account |-> q.account, client |-> Client(q.key, signed[q.key])]
        /\ unsignedVKs' = Restrict(unsignedVKs, DOMAIN unsignedVKs \ {q.account})
        /\ UNCHANGED <<tables, managers>>
  /\ UNCHANGED <<env, signed, generated, known, drifted>>

\* The node cannot be reached: the submission is given up.
SubmissionFails(r) ==
  /\ At(r, "AddClient") /\ req[r].kind = "submit"
  /\ Fault("unreachable") /\ Return(r)
  /\ UNCHANGED <<tables, managers, unsignedVKs, signed, generated, known, history>>

-----------------------------------------------------------------------------
(***************************************************************************)
(* A restart loads the managers and clients from the tables.               *)
(***************************************************************************)

\* Later rows overwrite earlier ones of the same account.
ClientOf(u, a) ==
  LET rows == SelectSeq(GetAccounts(u), LAMBDA row : row.account = a)
  IN  Client(users[u], rows[Len(rows)].signature)

ClientsOf(u) == [a \in {b \in Accounts : UserHasAccount(u, b)} |-> ClientOf(u, a)]

LoadAll ==
  [u \in DOMAIN users \cup {DefaultUser} |-> IF u \in DOMAIN users THEN ClientsOf(u) ELSE <<>>]

\* The clients whose dialling fails are added as nil.
Unreached(loaded, lost) ==
  [u \in DOMAIN loaded |->
     [a \in DOMAIN loaded[u] |-> IF <<u, a>> \in lost THEN NilClient ELSE loaded[u][a]]]

\* The process stops, wherever its requests are, and is started again.  When
\* the users, or the accounts of one, cannot be read from the database, the
\* gateway starts without them.
Restart ==
  /\ env.restarts > 0
  /\ \/ /\ env' = [env EXCEPT !.restarts = @ - 1]
        /\ managers' = LoadAll /\ drifted' = {}
     \/ /\ env.unreachable > 0
        /\ env' = [env EXCEPT !.restarts = @ - 1, !.unreachable = @ - 1]
        /\ \E lost \in SUBSET UNION {{u} \X DOMAIN LoadAll[u] : u \in DOMAIN LoadAll} :
             lost # {} /\ managers' = Unreached(LoadAll, lost)
        /\ drifted' = {}
     \/ /\ env.dbFails > 0
        /\ env' = [env EXCEPT !.restarts = @ - 1, !.dbFails = @ - 1]
        /\ \/ managers' = DefaultUser :> <<>> /\ drifted' = Users
           \/ \E u \in DOMAIN users : managers' = [LoadAll EXCEPT ![u] = <<>>] /\ drifted' = {u}
  /\ unsignedVKs' = <<>> /\ signed' = <<>> /\ req' = [r \in Requests |-> Idle]
  /\ registered' = IF DefaultUser \in drifted THEN NoRegistration ELSE registered
  /\ UNCHANGED <<tables, generated, known>>

RequestStep ==
  \/ \E r \in Requests :
       \/ Join(r) \/ Authenticate(r) \/ Revoke(r) \/ SubmitViewingKey(r)
       \/ /\ req[r] # Idle
          /\ \/ GenerateAndStoreNewUser(r) \/ AddAddressToUser(r) \/ DeleteUser(r)
             \/ StoreViewingKey(r) \/ SubmissionFails(r) \/ DatabaseFails(r)
  \/ GenerateViewingKey

-----------------------------------------------------------------------------
(***************************************************************************)
(* ProxyRequest, for the requests that need a viewing key.  Such a request *)
(* is [call, from, data, reverts]: whether it is an eth_call, the account  *)
(* it is made for (None when any will do), which only an eth_call shows in *)
(* its "from" field, an account named in the call's data, and the accounts *)
(* for which the EVM ends it with an error.                                *)
(***************************************************************************)

EthRequests ==
  [call : BOOLEAN, from : Accounts \cup {None}, data : Accounts \cup {None},
   reverts : SUBSET Accounts]

\* Mutant: the accounts in the data are looked for before the sender.
SuggestedByData(request, clients) ==
  CASE Cardinality(DOMAIN clients) = 1 -> CHOOSE a \in DOMAIN clients : TRUE
    [] OTHER ->
       IF ~request.call THEN None
       ELSE IF request.data \in DOMAIN clients THEN request.data
       ELSE IF request.from \in DOMAIN clients THEN request.from
       ELSE None

\* The account whose client is used, None to try all of them.
SuggestAccountClient(request, clients) ==
  CASE Cardinality(DOMAIN clients) = 1 -> CHOOSE a \in DOMAIN clients : TRUE
    [] OTHER ->
       IF ~request.call THEN None
       ELSE IF request.from \in DOMAIN clients THEN request.from
       ELSE IF request.data \in DOMAIN clients THEN request.data
       ELSE None

\* submitCall returns no error: the enclave answers a client of the account the
\* request is made for, and the EVM does not end it with an error, which a
\* client returns as its own.  A call without a sender is made for the account
\* of the client that submits it.
Answers(request, clients, a) ==
  Usable(clients[a]) /\ request.from \in {None, a} /\ a \notin request.reverts

\* Whether executeCall returns an answer: of the suggested client alone, or of
\* the first of all the clients, in any order, that gets one.
ExecuteCall(request, clients) ==
  LET suggested == SuggestAccountClient(request, clients) IN
  IF suggested # None THEN Answers(request, clients, suggested)
  ELSE \E a \in DOMAIN clients : Answers(request, clients, a)

-----------------------------------------------------------------------------
(***************************************************************************)
(* Properties.                                                             *)
(***************************************************************************)

\* A user's manager and clients are those of the tables, unless a client could
\* not be dialled.  A user without a row has no client: authenticating with the
\* id of a deleted user, which a connection without foreign keys lets through,
\* makes a manager with nil clients.
InStep(u) ==
  /\ u \in DOMAIN users =>
       /\ u \in DOMAIN managers /\ DOMAIN managers[u] = DOMAIN ClientsOf(u)
       /\ \A a \in DOMAIN ClientsOf(u) :
            managers[u][a] \in {ClientsOf(u)[a], NilClient} /\ Usable(ClientsOf(u)[a])
  /\ u \in DOMAIN managers \ DOMAIN users => Range(managers[u]) \subseteq {NilClient}

\* What the gateway would load after a restart is what it has.  For a user that
\* joined: when none of the user's requests is in progress, whichever interleaved
\* before, failed half way or were cut off by a restart, the clients in memory
\* are those of the tables, their signatures are good, and a revocation has left
\* none.  For the default user: the viewing key submitted last is loaded with its
\* own signature, until another submission has reached the tables.  Both are
\* asked only of users that have not drifted: whose revocation did not overlap
\* another of their requests, and whose submissions did not overlap each other,
\* since the last restart that could read their rows.
RestartKeepsClients ==
  /\ \A u \in Users \ drifted : (\A r \in InProgress : req[r].user # u) => InStep(u)
  /\ registered # NoRegistration /\ DefaultUser \notin drifted =>
       /\ registered.account \in DOMAIN ClientsOf(DefaultUser)
       /\ ClientsOf(DefaultUser)[registered.account] = registered.client

\* A call without a sender is guessed to be made for an account in its data.
Guessed(request, clients) ==
  request.call /\ request.from = None /\ request.data \in DOMAIN clients

\* A request that one of the user's clients would get an answer to is answered,
\* whichever clients the user has, and though some have a signature that does
\* not fit or meet an EVM error: the sender's client is used where there is one,
\* and else all are tried.  It is not asked of a call whose account is guessed
\* from its data, as then no other is tried, nor of a user with a nil client.
ProxyFindsClient ==
  \A u \in DOMAIN managers :
    LET clients == managers[u] IN
    NilClient \notin Range(clients) =>
      \A request \in EthRequests :
        ~Guessed(request, clients) /\ (\E a \in DOMAIN clients : Answers(request, clients, a)) =>
          ExecuteCall(request, clients)

\* A viewing key does not have to be generated again after a restart: every
\* usable client of the default user would be loaded by one.  It does not hold:
\* the default user has one private key in the tables, the last one submitted.
KeysSurviveRestart ==
  InProgress = {} =>
    \A a \in DOMAIN managers[DefaultUser] :
      Usable(managers[DefaultUser][a]) =>
        DefaultUser \in DOMAIN users /\ a \in DOMAIN ClientsOf(DefaultUser)
          /\ Usable(ClientsOf(DefaultUser)[a])
=============================================================================
