---------------------------- MODULE RequestPipeline ----------------------------
(***************************************************************************)
(* The path of an HTTP request through the server: TenantMiddleware, the   *)
(* guards, TenantTransactionInterceptor, the service, and the connections  *)
(* they take from the pool of the DataSource.  Every table that holds      *)
(* tenant data has the row security policy of rls_setup.sql, which shows a *)
(* transaction the rows of its app.current_tenant_id and none without it;  *)
(* the application role does not bypass it.                                *)
(*                                                                         *)
(* A request takes up to two connections at a time: the interceptor holds  *)
(* one until the handler is done, and a service that calls                 *)
(* createQueryRunner or dataSource.transaction takes another meanwhile.    *)
(* The pool serves waiting requests first come first served and lets them  *)
(* wait for ever (no connectionTimeoutMillis is configured).               *)
(***************************************************************************)
EXTENDS Server, Naturals, Sequences, FiniteSets

CONSTANTS
  Connections,  \* the connections of the pool
  Routes,       \* the endpoints in use
  Second        \* the requests that may be to an endpoint with a second connection

\* Does the endpoint require permissions, and where does its service do its work:
\* on repositories of the interceptor's transaction ("repository"), in a second
\* transaction that sets the tenant ("nested"), or in one that does not ("bare").
RouteKinds == [guarded: BOOLEAN, work: {"repository", "nested", "bare"}]

ASSUME ConstantsAssumption ==
  /\ Routes \subseteq RouteKinds
  /\ Second \subseteq Requests
  /\ Null \notin Requests \cup Tenants \cup Routes

VARIABLES
  pc,      \* where each request is, or how it was answered
  header,  \* its x-tenant-id
  token,   \* the tenant of its access token
  route,   \* its endpoint
  conn,    \* who holds each connection, for what, with which tenant setting
  queue,   \* the requests waiting for a connection, in order
  seen     \* history: the tenants whose rows the service of a request has seen

vars == <<pc, header, token, route, conn, queue, seen>>

Waiting == {"wantGuard", "wantOuter", "wantSecond"}
Ending == {"commit", "rollback"}
Working == Waiting \cup Ending \cup {"check", "begin", "handle", "second"}
Answered == {"ok", "refused"}

Uses == {"guard", "outer", "second"}
Idle == [holder |-> Null, use |-> "guard", tenant |-> Null]

Free == {c \in Connections : conn[c].holder = Null}
Has(r, c, use) == conn[c].holder = r /\ conn[c].use = use

\* The tenants whose rows a statement on c sees.
Visible(c) == {conn[c].tenant} \ {Null}
SeenInSecond(r, c) == IF route[r].work = "nested" THEN {header[r]} ELSE Visible(c)

--------------------------------------------------------------------------------

\* pool.connect(): r waits its turn.
AskFor(r, stage) ==
  /\ pc' = [pc EXCEPT ![r] = stage]
  /\ queue' = Append(queue, r)

\* What the request goes on with, and what it uses the connection for.
Granted == [wantGuard |-> "check", wantOuter |-> "begin", wantSecond |-> "second"]
UseOf == [wantGuard |-> "guard", wantOuter |-> "outer", wantSecond |-> "second"]

\* MUTANT of Grant: the pool forgets to take the request off its queue.
GrantKeepsPlace ==
  /\ queue # <<>>
  /\ \E c \in Free :
       LET r == Head(queue) IN
       /\ pc[r] \in Waiting
       /\ conn' = [conn EXCEPT ![c] =
                     [holder |-> r, use |-> UseOf[pc[r]], tenant |-> conn[c].tenant]]
       /\ pc' = [pc EXCEPT ![r] = Granted[pc[r]]]
  /\ UNCHANGED <<queue, header, token, route, seen>>

\* The pool gives a free connection to the request that has waited longest.
Grant ==
  /\ queue # <<>>
  /\ \E c \in Free :
       LET r == Head(queue) IN
       /\ conn' = [conn EXCEPT ![c] =
                     [holder |-> r, use |-> UseOf[pc[r]], tenant |-> conn[c].tenant]]
       /\ pc' = [pc EXCEPT ![r] = Granted[pc[r]]]
  /\ queue' = Tail(queue)
  /\ UNCHANGED <<header, token, route, seen>>

\* MUTANT of GiveBack: set_config(..., false) sets the tenant for the session.
GiveBackSessionSetting(c) ==
  conn' = [conn EXCEPT ![c].holder = Null]

\* MUTANT of GiveBack: the release is missing.
GiveBackNothing(c) == conn' = [conn EXCEPT ![c].tenant = Null]

\* COMMIT or ROLLBACK ends the transaction-local setting; release() returns c.
GiveBack(c) == conn' = [conn EXCEPT ![c] = Idle]

\* TenantMiddleware wants the header; PermissionsGuard a user whose tenant is the
\* header's; TenantTransactionInterceptor that the two agree if there is a user.
Admitted(h, t, e) ==
  /\ h # Null
  /\ IF e.guarded THEN t = h ELSE t \in {Null, h}

\* A request comes in, and is refused or asks for its first connection.
Arrive(r) ==
  /\ pc[r] = "idle"
  /\ \E h \in Tenants \cup {Null}, t \in Tenants \cup {Null}, e \in Routes :
       /\ e.work # "repository" => r \in Second
       /\ \/ /\ Admitted(h, t, e)
             /\ header' = [header EXCEPT ![r] = h]
             /\ token' = [token EXCEPT ![r] = t]
             /\ route' = [route EXCEPT ![r] = e]
             /\ AskFor(r, IF e.guarded THEN "wantGuard" ELSE "wantOuter")
          \/ /\ ~Admitted(h, t, e)
             /\ pc' = [pc EXCEPT ![r] = "refused"]
             /\ UNCHANGED <<header, token, route, queue>>
  /\ UNCHANGED <<conn, seen>>

\* PermissionsGuard reads the user's permissions in a transaction of its own, and
\* has released its connection before the interceptor asks for one.
CheckPermissions(r) ==
  /\ pc[r] = "check"
  /\ \E c \in Connections : Has(r, c, "guard") /\ GiveBack(c)
  /\ \/ pc' = [pc EXCEPT ![r] = "refused"] /\ UNCHANGED queue
     \/ AskFor(r, "wantOuter")
  /\ UNCHANGED <<header, token, route, seen>>

\* setupTransaction: START TRANSACTION and set_config('app.current_tenant_id').
BeginOuter(r) ==
  /\ pc[r] = "begin"
  /\ \E c \in Connections :
       Has(r, c, "outer") /\ conn' = [conn EXCEPT ![c].tenant = header[r]]
  /\ pc' = [pc EXCEPT ![r] = "handle"]
  /\ UNCHANGED <<header, token, route, queue, seen>>

\* The service works on wrapped repositories, which use the manager of the
\* interceptor's transaction; it returns or throws, and so does the interceptor.
HandleOnRepositories(r) ==
  /\ pc[r] = "handle"
  /\ route[r].work = "repository"
  /\ \E c \in Connections :
       Has(r, c, "outer") /\ seen' = [seen EXCEPT ![r] = @ \cup Visible(c)]
  /\ \E end \in Ending : pc' = [pc EXCEPT ![r] = end]
  /\ UNCHANGED <<header, token, route, conn, queue>>

\* The service asks for a second connection while the interceptor holds the first.
OpenSecond(r) ==
  /\ pc[r] = "handle"
  /\ route[r].work \in {"nested", "bare"}
  /\ AskFor(r, "wantSecond")
  /\ UNCHANGED <<header, token, route, conn, seen>>

\* MUTANT of WorkInSecond: no finally, so an error keeps the second connection.
WorkInSecondLeaks(r) ==
  /\ pc[r] = "second"
  /\ \E c \in Connections, end \in Ending :
       /\ Has(r, c, "second")
       /\ seen' = [seen EXCEPT ![r] = @ \cup SeenInSecond(r, c)]
       /\ pc' = [pc EXCEPT ![r] = end]
       /\ IF end = "commit" THEN GiveBack(c) ELSE UNCHANGED conn
  /\ UNCHANGED <<header, token, route, queue>>

\* The work of the second transaction, from its START TRANSACTION to its release.
\* transferStock, completeReceipt and completeIssue set the tenant first;
\* confirmOrder, createFromOrder and post do not, and when they see no row they
\* answer that there is no such order, bill or entry.
WorkInSecond(r) ==
  /\ pc[r] = "second"
  /\ \E c \in Connections, end \in Ending :
       /\ Has(r, c, "second")
       /\ seen' = [seen EXCEPT ![r] = @ \cup SeenInSecond(r, c)]
       /\ SeenInSecond(r, c) = {} => end = "rollback"
       /\ pc' = [pc EXCEPT ![r] = end]
       /\ GiveBack(c)
  /\ UNCHANGED <<header, token, route, queue>>

\* The interceptor commits, or rolls back what threw, and releases; the request
\* is answered.
Finish(r) ==
  /\ pc[r] \in Ending
  /\ \E c \in Connections : Has(r, c, "outer") /\ GiveBack(c)
  /\ pc' = [pc EXCEPT ![r] = IF pc[r] = "commit" THEN "ok" ELSE "refused"]
  /\ UNCHANGED <<header, token, route, queue, seen>>

Settled ==
  /\ \A r \in Requests : pc[r] \in Answered
  /\ UNCHANGED vars

--------------------------------------------------------------------------------

Init ==
  /\ pc = [r \in Requests |-> "idle"]
  /\ header = [r \in Requests |-> Null]
  /\ token = [r \in Requests |-> Null]
  /\ route = [r \in Requests |-> Null]
  /\ conn = [c \in Connections |-> Idle]
  /\ queue = <<>>
  /\ seen = [r \in Requests |-> {}]

Step(r) ==
  \/ CheckPermissions(r) \/ BeginOuter(r) \/ HandleOnRepositories(r)
  \/ OpenSecond(r) \/ WorkInSecond(r) \/ Finish(r)

Next ==
  \/ \E r \in Requests : Arrive(r) \/ Step(r)
  \/ Grant
  \/ Settled

\* The event loop runs every request that has what it waits for, and the pool
\* serves its queue.  Nothing makes clients send requests.
Spec == Init /\ [][Next]_vars /\ WF_vars(Grant) /\ \A r \in Requests : WF_vars(Step(r))

--------------------------------------------------------------------------------
(* Properties.                                                                *)

\* The variables have their types, and a request is in the queue exactly while
\* it waits, once.
TypeOK ==
  /\ pc \in [Requests -> {"idle"} \cup Working \cup Answered]
  /\ header \in [Requests -> Tenants \cup {Null}]
  /\ token \in [Requests -> Tenants \cup {Null}]
  /\ route \in [Requests -> Routes \cup {Null}]
  /\ conn \in [Connections -> [holder: Requests \cup {Null}, use: Uses,
                               tenant: Tenants \cup {Null}]]
  /\ queue \in Seq(Requests)
  /\ seen \in [Requests -> SUBSET Tenants]
  /\ \A r \in Requests :
       (pc[r] \in Waiting) <=> (\E i \in DOMAIN queue : queue[i] = r)
  /\ \A i, j \in DOMAIN queue : queue[i] = queue[j] => i = j

\* No request ever sees a row of another tenant than the one its header and its
\* access token name, although connections are shared and some transactions on
\* them never set a tenant.
TenantIsolation ==
  \A r \in Requests :
    /\ seen[r] \subseteq {header[r]}
    /\ token[r] # Null => seen[r] \subseteq {token[r]}

\* A request holds no connection before it asks for one or after its answer, and
\* two at a time only while the second transaction of its service runs.
Held(r) == {c \in Connections : conn[c].holder = r}
ConnectionsHeld ==
  \A r \in Requests :
    Cardinality(Held(r)) =
      CASE pc[r] \in {"idle", "wantGuard", "wantOuter"} \cup Answered -> 0
        [] pc[r] = "second" -> 2
        [] OTHER -> 1

\* Every connection is held by a request that waits for its second one.
Exhausted ==
  \A c \in Connections : conn[c].holder # Null /\ pc[conn[c].holder] = "wantSecond"

\* A request that has come in is answered, unless at some moment as many requests
\* as the pool has connections all wait for a second connection.
AnsweredUnlessExhausted ==
  \A r \in Requests : pc[r] \in Working ~> pc[r] \in Answered \/ Exhausted
================================================================================
