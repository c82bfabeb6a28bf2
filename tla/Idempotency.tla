----------------------------- MODULE Idempotency -----------------------------
(***************************************************************************)
(* The @Idempotent() endpoints: IdempotencyInterceptor and                 *)
(* IdempotencyService over the table idempotency_logs, inside the          *)
(* transaction that TenantTransactionInterceptor keeps open around the     *)
(* handler.  The same call sent again, by a client that gave up waiting    *)
(* or by a second server, is another request with the same key.            *)
(*                                                                         *)
(* A step of a request is one database statement.  Transactions are READ   *)
(* COMMITTED: the look-up sees committed rows only, but the unique index   *)
(* on the key is checked against the rows of running transactions too, of  *)
(* every tenant, and an insert waits for the one that has the key.         *)
(* cleanupExpired has no caller and expiresAt is never read, so a log row  *)
(* stays for ever.  A record is named after the request that created it.   *)
(***************************************************************************)
EXTENDS Server

CONSTANTS
  Keys,        \* the Idempotency-Key headers clients send
  Operations   \* the endpoint and method of a request

Calls == [tenant: Tenants, key: Keys, operation: Operations]
Logs == [tenant: Tenants, key: Keys, operation: Operations, body: Requests \cup {Null}]

ASSUME NullAssumption == Null \notin Calls \cup Logs \cup Requests \cup (Tenants \X Keys)

VARIABLES
  phase,    \* where each request is, or how it ended
  call,     \* what each request asks for
  logs,     \* committed idempotency_logs
  mine,     \* the log row a running transaction has inserted
  created,  \* the requests whose record is committed
  reply     \* the record in the response of each request

idempotencyVars == <<phase, call, logs, mine, created, reply>>

InProgress == {"lookup", "insert", "handle", "update", "commit", "reply"}
Ended == {"answered", "refused", "conflict", "lost"}

SameScope(x, y) == x.tenant = y.tenant /\ x.key = y.key

--------------------------------------------------------------------------------

\* MUTANT of EndWithout: the interceptor answers without rollbackTransaction.
EndWithoutRollback(r, how) ==
  /\ phase' = [phase EXCEPT ![r] = how]
  /\ UNCHANGED <<call, logs, mine, created, reply>>

\* An exception: the interceptor rolls the whole transaction back and rethrows.
EndWithout(r, how) ==
  /\ phase' = [phase EXCEPT ![r] = how]
  /\ mine' = [mine EXCEPT ![r] = Null]
  /\ UNCHANGED <<call, logs, created, reply>>

\* A request comes in; without the header it is refused before anything is read.
ArriveKeyed(r) ==
  /\ phase[r] = "idle"
  /\ \/ EndWithout(r, "refused")
     \/ /\ \E c \in Calls : call' = [call EXCEPT ![r] = c]
        /\ phase' = [phase EXCEPT ![r] = "lookup"]
        /\ UNCHANGED <<logs, mine, created, reply>>

\* MUTANT of Known: the look-up forgets the tenant.
KnownInAnyTenant(r) == {row \in logs : row.key = call[r].key}

\* The committed row findOne returns, if any.
Known(r) == {row \in logs : SameScope(row, call[r])}

\* MUTANT of Lookup: the stored row is replayed instead of its responseBody.
LookupReplaysRow(r) ==
  /\ phase[r] = "lookup"
  /\ \/ \E row \in Known(r) :
          /\ phase' = [phase EXCEPT ![r] = "reply"]
          /\ reply' = [reply EXCEPT ![r] = row]
          /\ UNCHANGED <<call, logs, mine, created>>
     \/ /\ Known(r) = {}
        /\ phase' = [phase EXCEPT ![r] = "insert"]
        /\ UNCHANGED <<call, logs, mine, created, reply>>

\* MUTANT of Lookup: the endpoint of the stored row is not compared.
LookupAnyOperation(r) ==
  /\ phase[r] = "lookup"
  /\ \/ \E row \in Known(r) :
          /\ phase' = [phase EXCEPT ![r] = "reply"]
          /\ reply' = [reply EXCEPT ![r] = row.body]
          /\ UNCHANGED <<call, logs, mine, created>>
     \/ /\ Known(r) = {}
        /\ phase' = [phase EXCEPT ![r] = "insert"]
        /\ UNCHANGED <<call, logs, mine, created, reply>>

\* checkAndStore looks the key up: another operation's key is refused, a known
\* call is answered from the log, an unknown one goes on.
Lookup(r) ==
  /\ phase[r] = "lookup"
  /\ \/ \E row \in Known(r) :
          \/ row.operation # call[r].operation /\ EndWithout(r, "refused")
          \/ /\ row.operation = call[r].operation
             /\ phase' = [phase EXCEPT ![r] = "reply"]
             /\ reply' = [reply EXCEPT ![r] = row.body]
             /\ UNCHANGED <<call, logs, mine, created>>
     \/ /\ Known(r) = {}
        /\ phase' = [phase EXCEPT ![r] = "insert"]
        /\ UNCHANGED <<call, logs, mine, created, reply>>

NewLog(r) ==
  [tenant |-> call[r].tenant, key |-> call[r].key,
   operation |-> call[r].operation, body |-> Null]

KeyInUse(r) == \E o \in Requests \ {r} : mine[o] # Null /\ mine[o].key = call[r].key
KeyTaken(r) == \E row \in logs : row.key = call[r].key

\* MUTANT of InsertLog: the column is not unique.
InsertLogNotUnique(r) ==
  /\ phase[r] = "insert"
  /\ mine' = [mine EXCEPT ![r] = NewLog(r)]
  /\ phase' = [phase EXCEPT ![r] = "handle"]
  /\ UNCHANGED <<call, logs, created, reply>>

\* MUTANT of InsertLog: the log is stored outside the request's transaction.
InsertLogAutocommit(r) ==
  /\ phase[r] = "insert"
  /\ ~KeyInUse(r)
  /\ \/ KeyTaken(r) /\ EndWithout(r, "conflict")
     \/ /\ ~KeyTaken(r)
        /\ logs' = logs \cup {NewLog(r)}
        /\ mine' = [mine EXCEPT ![r] = NewLog(r)]
        /\ phase' = [phase EXCEPT ![r] = "handle"]
        /\ UNCHANGED <<call, created, reply>>

\* checkAndStore saves the new log row; the unique index lets it wait, fail or in.
InsertLog(r) ==
  /\ phase[r] = "insert"
  /\ ~KeyInUse(r)
  /\ \/ KeyTaken(r) /\ EndWithout(r, "conflict")
     \/ /\ ~KeyTaken(r)
        /\ mine' = [mine EXCEPT ![r] = NewLog(r)]
        /\ phase' = [phase EXCEPT ![r] = "handle"]
        /\ UNCHANGED <<call, logs, created, reply>>

\* The controller's handler creates its record, or throws.
Handle(r) ==
  /\ phase[r] = "handle"
  /\ \/ EndWithout(r, "refused")
     \/ /\ phase' = [phase EXCEPT ![r] = "update"]
        /\ UNCHANGED <<call, logs, mine, created, reply>>

\* updateResult, sent without being awaited: it is queued on the connection of
\* the transaction, ahead of the COMMIT.
UpdateLog(r) ==
  /\ phase[r] = "update"
  /\ mine' = [mine EXCEPT ![r].body = r]
  /\ phase' = [phase EXCEPT ![r] = "commit"]
  /\ UNCHANGED <<call, logs, created, reply>>

\* commitTransaction: the log row and the record become visible together.
Commit(r) ==
  /\ phase[r] = "commit"
  /\ logs' = logs \cup {mine[r]}
  /\ created' = created \cup {r}
  /\ mine' = [mine EXCEPT ![r] = Null]
  /\ reply' = [reply EXCEPT ![r] = r]
  /\ phase' = [phase EXCEPT ![r] = "reply"]
  /\ UNCHANGED call

\* The response reaches the client.
Reply(r) ==
  /\ phase[r] = "reply"
  /\ phase' = [phase EXCEPT ![r] = "answered"]
  /\ UNCHANGED <<call, logs, mine, created, reply>>

\* The server dies: PostgreSQL rolls its open transactions back, and responses
\* not sent yet never are, whether or not their transaction had committed.
ServerCrash ==
  /\ \E r \in Requests : phase[r] \in InProgress
  /\ phase' = [r \in Requests |-> IF phase[r] \in InProgress THEN "lost" ELSE phase[r]]
  /\ mine' = [r \in Requests |-> Null]
  /\ UNCHANGED <<call, logs, created, reply>>

\* Every request has ended.
AllEnded ==
  /\ \A r \in Requests : phase[r] \in Ended
  /\ UNCHANGED idempotencyVars

--------------------------------------------------------------------------------

IdempotencyInit ==
  /\ phase = [r \in Requests |-> "idle"]
  /\ call = [r \in Requests |-> Null]
  /\ logs = {}
  /\ mine = [r \in Requests |-> Null]
  /\ created = {}
  /\ reply = [r \in Requests |-> Null]

CallStep(r) ==
  Lookup(r) \/ InsertLog(r) \/ Handle(r) \/ UpdateLog(r) \/ Commit(r) \/ Reply(r)

IdempotencyNext ==
  \/ \E r \in Requests : ArriveKeyed(r) \/ CallStep(r)
  \/ ServerCrash
  \/ AllEnded

\* The event loop and PostgreSQL run every statement that need not wait.  Nothing
\* makes clients send requests or servers crash.
IdempotencySpec ==
  /\ IdempotencyInit /\ [][IdempotencyNext]_idempotencyVars
  /\ \A r \in Requests : WF_idempotencyVars(CallStep(r))

--------------------------------------------------------------------------------
(* Properties.                                                                *)

IdempotencyTypeOK ==
  /\ phase \in [Requests -> {"idle"} \cup InProgress \cup Ended]
  /\ call \in [Requests -> Calls \cup {Null}]
  /\ logs \subseteq Logs
  /\ mine \in [Requests -> Logs \cup {Null}]
  /\ created \subseteq Requests
  /\ reply \in [Requests -> Requests \cup {Null}]

\* "Duplicate requests return cached responses instead of creating duplicate
\* records": two requests that both had their record committed do not share the
\* key of a tenant, in whatever order look-ups, inserts, failures and crashes fall.
OneRecordPerKey ==
  \A r, o \in created : SameScope(call[r], call[o]) => r = o

\* A committed log row stands for a committed record of the same call, so that a
\* retry after a failed or crashed attempt is executed and not answered with the
\* empty body; and a committed record has its log row, so that it is never
\* created again.
LogsStandForRecords ==
  /\ \A row \in logs :
       /\ row.body \in created
       /\ SameScope(row, call[row.body])
       /\ row.operation = call[row.body].operation
  /\ \A r \in created : \E row \in logs : row.body = r

\* A client is never answered with the record of another operation, even when
\* the key was used for one before, concurrently or by a crashed attempt.
AnswersFitTheCall ==
  \A r \in Requests : phase[r] = "answered" =>
    /\ reply[r] \in created
    /\ call[reply[r]] = call[r]

\* Every request that has come in ends: no transaction keeps a key for ever.
EveryRequestEnds == \A r \in Requests : phase[r] \in InProgress ~> phase[r] \in Ended

\* The promise of the layer (module AtMostOnce), read off the committed records.
Scopes == Tenants \X Keys
Scope(c) == <<c.tenant, c.key>>
asked == [r \in Requests |-> IF call[r] = Null THEN Null ELSE Scope(call[r])]
Executed(s) == {r \in created : Scope(call[r]) = s}
OneOf(S) == IF S = {} THEN Null ELSE CHOOSE r \in S : TRUE
booked == [s \in Scopes |-> OneOf(Executed(s))]
answer == [r \in Requests |-> IF phase[r] = "answered" THEN reply[r] ELSE Null]

Promise == INSTANCE AtMostOnce WITH
  Requests <- Requests, Scopes <- Scopes, Null <- Null,
  asked <- asked, booked <- booked, answer <- answer

\* The interceptor and the service implement the promise.
ImplementsAtMostOnce == Promise!Spec
================================================================================
