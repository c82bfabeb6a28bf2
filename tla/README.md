# A verification project for nest-erp-backend

TLA+ models of this multi-tenant ERP back end, of what depends on the order of
things: concurrent requests over PostgreSQL transactions, stale entities saved
whole, retries, crashes, and a bounded pool of connections. TLC model-checks them
on small instances; TLAPS proves the main results for every size.

Paths below are relative to the repository root; `inventory.service.ts` stands
for `src/modules/inventory/inventory.service.ts` and so on.

## 1. The system

A NestJS server answers HTTP requests. Each request passes `TenantMiddleware`
(the `x-tenant-id` header), the guards (`JwtAuthGuard`, `PermissionsGuard`),
`TenantTransactionInterceptor` (one transaction around the handler, with the
tenant as a transaction-local setting) and `IdempotencyInterceptor`, and ends in
a service that reads and saves TypeORM entities. All shared state is in
PostgreSQL, at its default level READ COMMITTED, without explicit locks; row
security policies compare each row's `tenant_id` with the transaction's setting.
Requests interact only through the database, its locks and the pool of
connections. There are no queues, workers or timers; the one thing the server does by
itself is the synchronisation of the permission caches when it starts.

Two facts about TypeORM matter everywhere. `save(entity)` SELECTs the row again and
writes the columns that differ from the values in memory with an
`UPDATE ... WHERE id = ?`: it increments the version column and never compares it,
and it inserts the row if it is gone. And decimal columns are returned as strings.

| Component | State | Operations | What is hard | What makes it correct |
|---|---|---|---|---|
| Stock quantities (`inventory.service.ts`) | `stock_quants`, document status | adjust, transfer, complete receipt, complete issue | read, compute, save without locks; several rows per request; opposite transfers; duplicate rows | no negative stock but by negative lines, whole requests only, a completed document has moved its stock, every request is answered |
| Receipt and issue documents (`inventory.service.ts`) | `stock_receipts`, `stock_issues`, lines, numbers | create, update, delete, complete | a stale `save` against a completion; numbers from a count | completed once, never edited or deleted afterwards; numbers unique |
| Idempotency (`common/`) | `idempotency_logs` | look up, insert, handle, store the response | concurrent copies, lost responses, failed attempts, a response stored without awaiting it | at most one execution per key of a tenant, every answer is its record |
| Request pipeline (`common/`, `identity/guards/`) | tenant context, pooled connections and their settings | admit, check permissions, begin, handle, finish | two connections per request, settings on shared connections | no request sees another tenant; connections are returned; requests are answered |
| Endpoint table (controllers, `permissions.enum.ts`) | none | route, authenticate, authorise, demand a key | order of declarations, a decorator that is missing or demands what nobody has | the administrator reaches every endpoint, nobody one without its permission |
| Sales, invoices, procurement, bills, POS | orders, invoices, bills, their status and numbers | create, update, send, confirm, cancel, invoice, bill, post, sync | status checked on stale reads; check-then-insert; a batch of transactions; colliding numbers | an order follows its flow and is charged at most once; a ticket is stored whole and once |
| Journal, fiscal periods and reports (`finance/`) | entries, periods | create, post, close, move, reopen; trial balance, ledger | posting beside closing; overlaps; a tolerance | postings go into open periods; the books balance; the reports agree up to their rounding |
| Users, roles, permission cache (`identity/`, `create-tenant.ts`) | users, roles, links, cached permissions | create, assign, remove, sync, refresh, start | a denormalised cache that several processes recompute | the cache is what the roles grant; no link outlives its role |
| Refresh tokens (`auth/`) | `refresh_tokens`, `is_active` | login, refresh, logout, logout everywhere | rotation without locks; presented again; expiry | one live token per session until it is logged out |
| Reference data: catalogue, HRMS, accounts, partners, payment terms, tenants, translations | their rows | create, update, deactivate, remove, activate, generate variants | look-up then insert; an entity saved with the children it was read with | codes unique, parents present, no update undone |
| Valuation (`inventory-valuation.service.ts`) | cost layers | - | provider of no module: no caller in the server | out of scope |
| Compliance, schema, audit trigger, bootstrap | - | formatting; run once | - | out of scope; the constraints used are part of the models |

`PROJECT.json` lists every component with its status and every hazard at its line.

## 2. The modules

| Module | What it is |
|---|---|
| `StockQuants`, `MCStockQuants` | the four stock movements as sequences of SQL statements of concurrent transactions |
| `StockQuants_proofs` | type correctness; only receipts with negative lines make stock negative; completed documents have moved their stock; stock moves by whole requests |
| `StockDocuments` | create, update, complete and delete of receipts and issues, their lines and numbers |
| `StockDocuments_proofs` | type correctness; unique numbers; no line without its document; status and stock agree |
| `Server` | the constants that `RequestPipeline`, `Idempotency` and `Sessions` share |
| `AtMostOnce` | the abstract promise of the idempotency layer |
| `Idempotency` | interceptor, service, unique index and transaction; refines `AtMostOnce` |
| `RequestPipeline`, `MCRequestPipeline` | admission, guard, tenant transaction, second transactions, pool, row security |
| `Endpoints` | the table of all endpoints: verb, path, permission, key, handler |
| `Gateway`, `MCGateway` | the stages one request passes on its way to its handler, over `Endpoints` |
| `OrderLife` | the abstract promise about an order: its flow, and one charge |
| `Trade`, `MCTrade` | sales, invoices, procurement, bills and the point of sale; refines `OrderLife` twice |
| `Trade_proofs` | type correctness; tickets whole and rightly reported; both refinements of `OrderLife` |
| `Books`, `MCBooks` | journal entries beside fiscal periods; the two reports |
| `Books_proofs` | type correctness; disjoint periods; open periods at a posting; the books balance; the reports agree up to their rounding |
| `Access`, `MCAccess` | users, roles, the permission cache, the script and the start of the server |
| `Access_proofs` | type correctness; no link outlives its role; the cache is what the roles grant |
| `Sessions`, `MCSessions` | logins and refresh tokens |
| `Server_proofs` | of `RequestPipeline`: tenant isolation, accounting of connections, pool sizing; of `Idempotency`: its safety properties and the refinement of `AtMostOnce`; of `Sessions`: one live token per session |
| `MasterData`, `MCMasterData` | the reference data and their services |
| `MasterData_proofs` | type correctness; the keys hold; undisturbed rows are as asked |
| `Sums` | lemmas about sums over finite sets, for the proofs about `StockQuants` and `Books` |

The modules share no variables. Where two of them are extended by one module of proofs
(`Server_proofs`), their definitions have different names: `IdempotencySpec`, `SessionsSpec` beside the
`Spec` of the pipeline, and so on. What composes is the request: `Gateway` decides
whether it reaches a handler, `RequestPipeline` gives it a connection and a tenant,
`Idempotency` decides whether the handler runs, and the others are the handlers.
`StockDocuments` hands a completion over to `StockQuants`, `Access` gives
`Gateway` the permissions in the user's row. Each module models the transactions its handlers
run in, so that nothing rests on another module's conclusions, with one exception:
`Trade` and `Books` take for granted that the second transactions see the tenant's rows, which
`RequestPipeline` shows to depend on the database role (section 4).

### StockQuants

A request is a process. It arrives (`AdjustStock`, `TransferStock`,
`CompleteReceipt`, `CompleteIssue`: the guards that the service evaluates before
its transaction) with the list of quant movements its handler will make (`moves`).
Each movement is a look-up (`findOne`, with the checks and the arithmetic that
follow it: `AdjustQuant`, `TakeFromSource`, `PutToDestination`, `ReceiveLine`,
`IssueLine`) and a `SaveQuant`; a document is saved at the end (`SaveDocument`), and
`Commit` publishes the writes. `quants` is the committed table, `buf` the
uncommitted writes of each transaction, and a row with an uncommitted write is
locked. `held` is the entity in memory between `findOne` and `save`: the stale value of
every lost update. `Refuse` is the catch block (roll back, rethrow);
`DeadlockAbort` is PostgreSQL's deadlock detector; `ServerCrash` ends all requests
of the process. A pair of product and location may have several rows, since the
table has no such unique constraint; rows are named after the request that
inserted them.

The receipt's `Number(quant.quantity) + line.quantity` concatenates, because
`line.quantity` is a string; `Concatenated` is what the database then stores.
Quantities are whole units. Those of lines may be negative, as the DTOs
(`stock-receipt.dto.ts:21`, `stock-issue.dto.ts:21`) ask for a number and no more; a receipt stores
such a line as the quantity of a new row, and appends the digits of the next one to it.

The pool, the tenant setting and the interceptor's outer transaction are left to
`RequestPipeline`; here a transfer's or a completion's own transaction and an
adjustment's outer transaction are the transaction of the request.

### StockDocuments

The handlers of receipts and of issues over `docs` and `lines`, which hold both
kinds of rows (each kind has its own tables and numbers in the database, hence the
`kind` in `OfTenant` and `SameNumber`). `CreateReceipt`, `UpdateReceipt`,
`CompleteReceipt`, `DeleteReceipt` and their four counterparts for issues read the
document with its lines (`held`) and check its status; `RemoveLines` and `MoveStock`
are what an update and a completion do before they save; `SelectForSave` and `Write`
are the two halves of TypeORM's `save`, which reads the row again, inserts what is
missing, updates the columns that differ and sets the `receiptId` of lines the
entity lacks to NULL, which the column refuses. So a stale update can set a
COMPLETED document back to DRAFT or insert a deleted one again, and a stale completion
can put removed lines back: all of that is in the model. `gone` and `out` are the
uncommitted deletions and writes, that is, the locks; `Deadlock` is the cycle of a
deletion (row, then lines) and an update (lines, then row). `moved` and `raced` are
history variables: the line sets each document's completions moved, and the
documents two requests were at work on at once. What the completion does to the quantities
is `StockQuants`.

### Idempotency and AtMostOnce

A request with a key looks its log row up (`Lookup`, committed rows of its tenant),
inserts one (`InsertLog`; the unique index is on the key alone, sees uncommitted
rows, and makes the insert wait for their transaction), runs the handler
(`Handle`), stores the response (`UpdateLog`) and commits (`Commit`), all in
the interceptor's transaction. `updateResult` is not awaited; its statement is
queued on the transaction's connection in the same tick in which the handler's
result is emitted, and the COMMIT is sent at least one tick later, so
that the order is fixed; the model keeps it as a step of its own. `Reply` is the response
reaching the client: a crash between `Commit` and `Reply` is the lost answer of a
request that took effect. A retry is another request with the same key.

`AtMostOnce` has three actions: a client asks under a scope (tenant and key), one
attempt per scope is executed, an attempt is answered with the executed one's
record. `Idempotency` implements it under the mapping at the end of the module:
`asked` is the scope of `call`, `booked` the committed record of the scope, `answer` the
delivered reply.

### RequestPipeline

A request is admitted or refused (`Arrive`), takes a connection for the permission
check and gives it back (`CheckPermissions`), takes the interceptor's connection
and sets the tenant on it (`BeginOuter`), works on the repositories of that
transaction (`HandleOnRepositories`) or takes a second connection (`OpenSecond`,
`WorkInSecond`) with or without setting the tenant, and ends (`Finish`). The pool
is the package `pg`'s (external): a list of free connections and a first-come-first-served queue
without a time limit, since `database.config.ts` sets no pool option. Row
security is `Visible`: the rows of the tenant of the connection's setting, none
without one. `seen` is a history variable: the tenants whose rows the service of
a request has been shown. The role is assumed not to bypass row security, as
`docs/architecture.md:19` demands.

### Endpoints and Gateway

`Endpoints` is a table: for each controller the endpoints in the order of their
declaration, with the permission `@RequirePermissions` demands and whether
`@Idempotent()` is on them. `Gateway` sends any request to it (`Send`) and passes it
through `TenantMiddleware`, `Router` (the first endpoint whose verb and path
match, so that order counts), `JwtAuthGuard`, `PermissionsGuard` and
`IdempotencyInterceptor`. The header's tenant is the token's; what else the
pipeline does with the two is in `RequestPipeline`.

### Trade and OrderLife

Twelve kinds of requests over sales orders, purchase orders, invoices and bills,
and the synchronisation of a terminal's batch. A handler reads the document and checks
its status (`OnDocument`), changes the entity, and saves it in two steps, `Select`
and `Write`; `createFromOrder` saves the charge first (`InsertCharge`) and then the
order, in one transaction. `SyncOrders` walks through its batch with a
transaction for each ticket: header, then lines, then commit, or a rollback and
the next one. Numbers are `Date.now()` behind a prefix, or eight digits of the
client's id, and unique: a colliding insert waits for the other transaction and
fails if it commits. `filled` is whether the database supplies the tenant
that the services leave out of their inserts; the schema does not tell, so it is
either. `raced` is a history variable: the documents two requests were at work on at once.

`OrderLife` has one action for each thing that may happen to an order. `Trade` implements
it twice (sales and purchase orders), with `status` and `charges` read off the
committed rows and `contested` the raced orders: the commit of `createFromOrder` is
the one step that advances the order and charges it.

### Books

Requests create, move, close and reopen periods and create and post entries. Each
writes one row in one statement, so that the statement and its COMMIT are one step; what
matters is the reads before it: overlapping periods, drafts in the period
(`CountDrafts`), the open period of the date (`LookPeriod`), and the row again in
`save` (`SelectPeriod`, `SelectEntry`). `MayBalance` is the tolerance of
`post`, in cents. `TrialBalance` and `GeneralLedger` are what the two queries of
`finance.service.ts` return for given days: the debits and credits of the trial balance are summed by
PostgreSQL and exact (`:112-113`), its balance is the difference of their doubles (`:143`), and the ledger adds
`debit - credit` up in floating point (`:182-186`). Floating-point numbers are counted in grains, of which
a cent has `Cent`, and each operation (`Number`, `Minus`, `Plus`) ends with `Round`, of which is assumed
that it is off by at most `Off` for numbers up to `Largest`. Doubles do so: for amounts up to ten
million, `Off` is a ten-millionth of a cent. Debits and credits may be negative
(`CreateJournalLineDto` asks for a number). The histories `moved`, `together` and `disturbed`
name the three causes for which the code has no check.

### Access

The database is a function on rows of `users`, `roles`, `permissions` and the two link
tables. Requests (`UserService`, `RolesService`), runs of `create-tenant.ts`
(`Refresh`, `MakeAdmin`, `SyncPermissions`) and the start of the server (`Restart`) are
processes with uncommitted rows of their own. A synchronisation is a list of users
(`List`), and for each a computed union (`CalculatePermissions`) that `save`
writes if it differs. A `save` of a role that
another transaction has deleted finds no row to update, and an insert of one that is there
violates the primary key (`Write`). `policed` is whether row security applies to the
application's role. `stale` is a history variable: the users whose cache is no longer
promised to be right; an undisturbed synchronisation takes a user out of it again.

### Sessions

A token is named after the request that issues it, and a session after its login. A
refresh takes its token (`Refresh`, not locked), revokes it (`Exchange`), inserts the new
one (`Insert`) and commits; a logout revokes one token or all of the user's that it
finds live. A refresh with an expired token revokes it and throws, and the
interceptor's rollback undoes the revocation (`RevokeExpired`). Tokens expire in the order in which
they were made (`Expire`). `ended` and `raced` are history variables.

### MasterData

Ten services whose handlers do the same four things, in one module: create after
a look-up, save an entity that was read with some of its relations, remove or
deactivate, mark a related row. What they look up, load and check differs, and
is in sets named for it (`LooksUpOnCreate`, `ReadWithParent`, `LoadedChildren`, `SavesChildren`,
...); each operation of each service is an action of its own that instantiates the common one.
`SelectForSave` and `Write` are the two halves of `save`: children that the entity was read
with are written with it (an employee's contracts, a product's translations), and
those it lacks lose their parent. A foreign key refers to a table (`ParentThere`), and rows of tables without one
have no parent (`Rows`). `Waits` and `ConstraintViolated` are row locks, unique indexes and
foreign keys; `MayFail` is a failure whose cause is outside (a code of another
tenant, a translation without its tenant, a partner an order needs). `family` is the
group of tables in play, one per behaviour, since requests to unrelated tables
do not meet. `ideal` is a history variable: the rows, had each acknowledged request run
alone at its commit; `raced` are the rows two requests were at work on at once.

## 3. The runs

| Run | Bounds | Checks |
|---|---|---|
| `stock` | 3 requests of any kind, 1 product, 2 locations, a receipt with two lines, one whose first line is negative, an issue with three lines, the last negative, two initial stocks; 192,000 states | `NegativeOnlyByReceipts`, `StockMovesByWholeRequests`, `CompletedMeansMoved`, `EveryRequestAnswered` |
| `receipt_concatenation` | 1 request | violation of `ReceiptBooksItsLines` |
| `documents` | 3 requests of any kind, 2 tenants, a DRAFT receipt or issue with a line at the start; 304,000 states | `StatusTellsStock`, `NumbersUnique`, `LinesHaveDocuments`, `EveryRequestAnswered` |
| `stock_moves_twice` | 2 requests, 1 tenant | violation of `StockMovesOnce` |
| `idempotency` | 3 requests, 2 tenants, 2 keys, 2 operations | `OneRecordPerKey`, `LogsStandForRecords`, `AnswersFitTheCall`, `ImplementsAtMostOnce`, `EveryRequestEnds` |
| `pipeline` | 3 requests (2 may take a second connection), 2 tenants, 2 connections | `TenantIsolation`, `ConnectionsHeld`, `AnsweredUnlessExhausted` |
| `gateway` | every endpoint and a path of none; an administrator, a clerk with each single permission or none, a guest; 123,000 states | `AdminServedEverywhere`, `ServedOnlyIfPermitted` |
| `trade` | 3 requests of any kind, 1 purchase order at the start, a terminal with 2 tickets (one without lines) whose ids begin alike, 1 tick; 139,000 states | `TicketsWhole`, `SyncedStored`, `SalesFollowTheirFlow`, `PurchasesFollowTheirFlow`, `EveryRequestAnswered` |
| `books` | 3 requests of any kind, 3 days, 3 spans, a period, a posted entry and a draft at the start, journals that are off by 0, 1 and 2 cents, one with a negative debit; doubles of ten binary digits; 140,000 states | `PeriodsDisjoint`, `BooksBalance`, `ReportsAgree`, `PostedIntoOpenPeriods` |
| `access` | 2 requests, 1 script, restarts, 2 users, 2 roles, 2 permissions; symmetric requests and users; 202,000 states | `CacheMatchesRoles`, `LinksHaveRoles` |
| `sessions` | 4 requests, 2 users, both symmetric; 156,000 states | `OneTokenPerSession` |
| `master_data` | 3 requests of any kind over any family of tables, 2 codes, up to 2 rows at the start; symmetric requests; 379,000 states | `KeysHold`, `UndisturbedRowsAreAsAsked` |

Passing runs also check the `TypeOK` of their module, except for `gateway`, which is
sequential, and `sessions`, whose `TypeOK` is proved. Crashes can come at any point in all of
them but `gateway` and `pipeline` (a crash there only takes requests away).
Deadlock is checked where the system cannot stop: a `Settled` disjunct stands for
the state in which all requests are answered. In the pipeline the server can
stop (that is a finding), so that run switches the check off.

Why the bounds are enough. Two requests are enough for a lost update, a double
insert and a pool deadlock; the third is there to act between the
two, or after one of them has been refused or aborted (it finds the locks
released or not). Two locations give opposite transfers and documents that
lock in another order. The receipts name one product twice, so that the second
line works on the first one's uncommitted row, which may be a negative one; the issue spans two locations, so
that its second line can fail after its first has been saved. In `documents`, three requests
let a creation take the number of a document that an update is about to insert
again, and two updates meet after a completion or a deletion. Two tenants and two
keys distinguish every combination of equal and different scope. Two connections are the smallest pool
in which a request can hold two and another wait. `PowersOfTen` bounds the size
of a line's quantity (below 10000), the only bound inside a module; the constants
`Deltas`, `Amounts` and `InitialStock` bound the data.

In `trade`, one tick makes all numbers of one kind collide, and two tickets with the same
digits collide across and within batches; three requests let one order be created, invoiced
and cancelled, two of these at once. In `books`, three days suffice for periods that are
disjoint, nested, or share one day; the journals are on either side of the tolerance. A cent is 999
grains and a double of `MCBooks` has ten binary digits, rounded to the nearest and to even, so that all but the smallest
amounts are rounded, and the ledger and the trial balance differ already over the entry at the start;
all amounts that can be posted stay in reach (`InReach`). In
`access` an assignment, a change of the role and a synchronisation are three processes, the third
being the script's or the server's; three requests, and two scripts, were explored once outside
the suite (1.3 and 4.7 million states) without an error. In `sessions`, a
session has a login, two refreshes that meet and a fourth request to present an old
token or log out. In `master_data`, a parent and a child at the start and three requests
let an update, a removal and a creation under the same parent meet.

Fairness is stated where liveness is checked. A request's steps are weakly fair
(`stock`, `documents`, `idempotency`, `pipeline`, `trade`): Node's event loop continues every
request whose statement has returned, and PostgreSQL answers each statement that
need not wait. `DeadlockAbort` is weakly fair: PostgreSQL's detector runs
after `deadlock_timeout`. `Grant` is weakly fair: the pool hands a released
connection to the head of its queue. Arrivals and crashes have no fairness.
No action needs strong fairness: a waiting save or insert becomes enabled when the
holder's transaction ends and, with finitely many requests, stays so eventually.
The other modules state safety only, and no fairness.

## 4. Where code and documents disagree

Two runs end in a violation, on purpose; `PROJECT.json` ("findings") quotes the
sentence each of them contradicts, and lists the other disagreements met
while modelling. The properties of the passing runs are stated so that they hold nevertheless, and say
how far.

* A receipt over existing stock stores a concatenation (`receipt_concatenation`).
  `StockMovesByWholeRequests` therefore asks receipts for at least their lines, and
  `ReceiptBooksItsLines` for exactly their lines.
* Lines of receipts may be negative, and a receipt then stores negative stock, in spite of "Stock
  cannot be negative": -2 without a row, and "-23.00" after a next line of 3. `NegativeOnlyByReceipts` says
  that this is the one way to negative stock, and `StockMovesByWholeRequests` asks nothing of what a receipt
  books for a pair with negative lines or negative stock. All other requests are exact there, too.
* Two concurrent completions of one draft both move its stock (`stock_moves_twice`; so
  does a completion after a stale update has set the status back). `StatusTellsStock`
  therefore speaks of documents that no two requests were at work on at once.
* Lost update: `save` never compares the version, so two movements that read the
  same quant keep only the second. `NegativeOnlyByReceipts` survives this (each writer
  checked what it writes), the accounting does not, hence the exemption in
  `StockMovesByWholeRequests`, which is exact for requests that overwrite
  nothing stale. The same holds for orders (`contested`), for caches (`stale`), sessions
  and reference data (`raced`). The races themselves go wrong in the code; the properties with
  such an exemption do not look for them but say that nothing else goes wrong. The hazards in
  `PROJECT.json` note where this is so.
* The two reports add the same amounts in different ways: 0.10 and 0.20 make 0.30000000000000004 in the
  ledger and 0.3 in the trial balance. No document promises that they are equal; `ReportsAgree` bounds how far
  either is from the exact amount.
* The idempotency key is unique across tenants although the look-up is per
  tenant: a second tenant gets a constraint error.
* As many concurrent requests with a second transaction as the pool has connections (10 by
  default) stop the server for good. `AnsweredUnlessExhausted` says that this is
  the only way a request stays unanswered.
* Second transactions that do not set the tenant see no rows under row security:
  `confirmOrder` and its like answer "not found". Isolation is not at risk
  (`TenantIsolation`); availability is.
* Inserts that leave out `tenant_id`, order numbers of two sales within 65 seconds, periods
  that are moved onto others, deleted roles in the caches, duplicate account codes,
  contracts activated in any status, categories that lose their subcategories: see the findings.

## 5. What is proved

All proofs are checked by TLAPS without remaining obligations, for arbitrary sets
of requests, users, tenants, keys, locations, connections and so on.

* `StockQuants_proofs`. `TypeCorrect`: `TypeOK`, strengthened by the bound on
  receipt lines in progress (needed for `Concatenated` to be an integer).
  `NegativeStockComesFromReceipts`: `NegativeOnlyByReceipts`, by the
  invariant `NegativeInv` that committed rows, uncommitted writes and entities in memory are non-negative, or
  else excused: a completed receipt, or the one the request is completing, has a negative line for the
  pair (`Excused`). Only a receipt writes what it has not compared with zero. The argument
  is about the values a save may write, not about locks, which is why it survives
  stale reads. `CompletionsMoveStock`: the action property `CompletedMeansMoved`, by the
  invariant `Progress`: the movements before the one a request is at are in its
  transaction, under the products and locations of its document's lines, and it comes to the status
  only behind the last of them. `WholeRequestsMoveStock`: the action property `StockMovesByWholeRequests`. The
  invariant `BookedInv`: what the transaction's uncommitted rows add to what it
  read before its first write of each (`Gained`) is, pair by pair, what the movements before the one it is at ask
  for (`AskedUpTo`), or at least that for a receipt, as it concatenates, where nothing is negative (`Sane`). A commit that overwrites nothing stale
  then changes the sum over the rows of each pair by all its movements.
* `Server_proofs`, `Idempotency`. The properties are not inductive, because the unique index is checked at the
  insert, long before the commit. The invariant `IdempotencyInv` adds what holds in
  between: the key of a running transaction is in no committed row and in no
  other running transaction (`MineInv`), and the position of a request agrees
  with what it has (`ProgressInv`). From it: `IdempotencyTypes`,
  `LogsAndRecordsAgree`, `NoDuplicateRecords`, `AnswersAreOfTheCall`, and
  `AtMostOnceIsImplemented`, where `ArriveKeyed`, `Commit` and `Reply` are the abstract `Ask`,
  `Execute` and `Answer` and every other step stutters.
* `Server_proofs`, `RequestPipeline`. The invariant `IInv` says what each request holds at each stage
  (`HeldInv`), that only an interceptor's connection has a tenant setting, its holder's
  (`SettingInv`), and that an admitted request's token agrees with its header
  (`AdmittedInv`). From it: `PipelineTypes`, `TenantsAreIsolated`,
  `ConnectionsAreReturned`, and `LargePoolIsNeverExhausted`: with more connections
  than requests that take a second one, exhaustion is unreachable (a pigeonhole
  argument). Together with the checked `AnsweredUnlessExhausted` it gives the
  condition under which the server cannot stop.
* `StockDocuments_proofs`. `TypeCorrect`, `NumbersAreUnique`, `NoLineIsLeftBehind` and
  `TheStatusTellsTheStock` are the four safety properties of `StockDocuments`. None is inductive:
  a row is written in one step and committed in a later one. The invariant `IInv` adds where a
  request is and what it then holds (`WorkInOrder`); that one transaction at most has
  written the row of a document (`OneWriter`); that the number in an uncommitted row is in no other
  row (`NumbersReserved`), which the unique index secures at the insert and the wait for it afterwards;
  that what leaves no row leaves no line (`LinesGoWithRow`); that a line never changes its document
  (`NamesAreFresh`, `LinesStayHome`), so that a commit leaves the lines of all other
  documents alone; and what a request knows that is alone with its document, as the saves and
  status checks then see what was read (`AloneKnows`, over `SharedIsRaced`).
* `Server_proofs`, `Sessions`. `SessionsHaveOneToken`: `OneTokenPerSession`. It is not inductive:
  a commit stores what was decided from a read long before. The invariant `SessionsInv` adds that
  the token of a login carries the session's own name, so that a new session has no tokens yet
  (`SessionsStartWithLogin`); that two requests holding tokens of one session are on record
  (`SharedIsRaced`); that a request issues a token only for the session of the one it revokes
  (`WorkInOrder`), which is live unless the session was raced on (`ExchangedIsLive`). Then only
  one request can change what is live in a session, and its commit replaces the one live
  token (`CommitKeepsOneLive`). `TypeCorrect` is `SessionsTypeOK`.
* `Trade_proofs`. The invariant `IInv` (`Invariance`) says what each request knows of its
  document (`WorkInOrder`: that it exists or is being created, which status it had
  when it was read, that an uncommitted invoice is of the order that becomes INVOICED), and what
  keeps requests apart (`OneWriter`, `NamesAreFresh`, `SharedIsRaced`). From it:
  `TradeTypes`; `TicketsAreWhole`, since the lines of a stored ticket are those of one sending
  (`LinesOfTickets`); `SyncedAreStored`, under the hypothesis `NoRepeats`, that a batch names no
  ticket twice: one that does may report it as failed and as synced. And the refinements:
  `SalesOrdersAreOrders` and `PurchaseOrdersAreOrders` say that `Spec` implements `OrderLife` under either
  mapping. Only a `Commit` shows anything but a contested order (`OnlyCommitsShow`); the
  commit of an order nobody else was at work on is the abstract step of its two statuses, and it
  carries its charge exactly if it is the charging one (`KnowsStatus`).
* `Books_proofs`. `BooksInOrder` is the inductive invariant: what a request has in hand
  (`Placed`), that a period about to be inserted has days in common only with periods that were moved or
  that are on record as created beside it (`Unseen`), and that a posting still has an open period of
  its date unless it is on record as disturbed (`StillOpen`). From it: `BooksTypes`,
  `PeriodsAreDisjoint` and the action property `PostingsFindOpenPeriods`. `PostedEntriesWereCompared`:
  every posted entry is off by at most a cent, if those posted at the start are. This is
  the part of `BooksBalance` that depends on the order of things. The rest is summation
  (`PostedBooksBalance`): the trial balance, summed over the accounts, is the sum over the posted lines, and so
  the sum of the imbalances of the posted entries (`BalancesAddUp`, `EntriesAddUp`).
  `TheReportsAgree`: the ledger lists the lines of an account in some order (`InOrder`), and each takes its running
  balance at most four roundings further from the exact sum (`RunningIsNear`), as long as what was listed, with
  the errors so far, is in the range of `Off` (`RunningIsNearSum`); the trial balance takes three roundings
  (`DifferenceIsNear`); and the lines of consecutive days are disjoint (`DaysAddUp`, `PartsAddUp`).
* `MasterData_proofs`. Three layers, each inductive beside those before it. `Types`: every id has one table
  for good, which all rows fit that a request has read, plans to write or has written
  (`Fits`), so that a `save` by id never meets a row of another table: `TypeCorrectness`. `Keys`: the constraints
  hold of the committed rows and of what each transaction sees, and what two
  transactions have written can be merged (`Compatible`): no row and no unique code is written by both, and none has
  deleted the parent of what the other has written. Locks secure that at the statement
  (`Waits`), constraints secure the first part (`ConstraintViolated`), and a commit needs both:
  `KeysAlwaysHold`. `Races`: who meets another request has marked all its rows as raced
  (`Meets`), requests stay near the rows they have announced (`StaysNear`), and for rows that are not raced
  what was read is still so, what is planned and what has been written is
  what was asked for (`UpToDate`, through the read, the second read of `save`, the write of the variant
  and the marking of its product). A commit then makes the one change that its operation
  asks for: `UndisturbedRows`.
* `Sums`. `SumFunctionOnSet` of the community modules is a fold, defined by recursion. The induction theorems of the
  library take a predicate, which the provers cannot instantiate; `SetInduction` states induction
  with a set instead, and follows from the existence of a minimal set (`SmallestSet`). From it: a sum
  exists, is an integer, and is additive over disjoint sets, partitions and functions.
* `Access_proofs`. Five layers, each inductive beside those before it. `TypeInv` (what a process has in
  hand where it is) gives `AccessTypes`. `LinksInv` gives `NoLinkIsLeft`: who adds a link sees its role
  and nobody is deleting it, who deletes a role sees none of its links left. `UsersInv`: users
  are there for good. `HistoryInv` (`HistoryInOrder`): processes on record as undisturbed have users and
  roles of their own, and write no others' rows. `RightInv` (`RightInOrder`) follows an undisturbed
  process from its check to its commit: for each of its users that it does not
  owe a synchronisation (`Open`), the cache it will have saved (`WillBe`) is what it sees the roles
  to grant (`Keeps`). A commit then publishes right caches, and no other undisturbed process can have
  changed what they rest on: `CacheIsRight`. The invariant is needed because a cache is computed from
  reads, held in memory and written later, in another step, by a save that may write the links, too.

Assumptions: the named `ASSUME`s of the modules (null values differ from data, names of
different kinds of rows differ, requests and accounts are finitely many, documents are receipts or issues and not both, lines are bounded, the stock at the start is not negative, roundings
are off by at most `Off`),
which TLC evaluates in the passing runs, and the hypotheses stated in the theorems
(`NoRepeats`, that the entries posted at the start had been compared, more connections
than second transactions).

Only model-checked:

* liveness (`EveryRequestAnswered`, `EveryRequestEnds`, `AnsweredUnlessExhausted`):
  fairness is beyond the proof system as installed;
* `AdminServedEverywhere` and `ServedOnlyIfPermitted`: the table of endpoints is a
  constant, one request is all there is, and the run asks for every endpoint with every
  kind of caller, so that it is exhaustive already. They are about the entries of that
  table, of which a proof would be the same enumeration.

## 6. What is left out

Whole units instead of decimals (cents in `Books`, and grains in its reports); overflow of a numeric column, which
PostgreSQL refuses; the contents of request bodies beyond
what a property tells apart (the idempotency look-up does not compare them either); logging,
formatting and paging; failures of single statements other than those the code
provokes (a failed statement ends like `Refuse`); the expiry of log rows,
on which no code depends. `main.ts:25` installs a `ValidationPipe` without a whitelist, so that
a body may carry any property of an entity; the models assume bodies with the properties
that the DTOs declare. The aging reports and the stock ledger are single aggregate queries over dates.
The writes of one `save` are one step, so that deadlocks between the statements of two saves
are modelled only where the code's own order of statements makes them (`StockQuants`, `StockDocuments`).

Not modelled at all: the inventory valuation (a provider of no module, which nothing
calls), the e-invoice formatting of the compliance module (no state), the migrations, the
audit trigger (attached to no table) and the bootstrap.

## 7. Plan

Done: everything the server does to shared state, and a proof of every safety property but
the two of the endpoint table. Left, in this order:

1. Statement-level saves in `MasterData` (a parent's and its children's UPDATEs as steps), for
   the deadlocks of two cascading saves; the layers of `MasterData_proofs` would stay, with `Stored` for
   a prefix of the plan.
2. `Aging` and the stock ledger as functions, checked against a reference definition over bounded inputs.
