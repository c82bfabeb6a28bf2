--------------------------------- MODULE Trade ---------------------------------
(***************************************************************************)
(* Orders and what is charged for them: SalesService, InvoiceService,      *)
(* ProcurementService, VendorBillService and PosService, run by concurrent *)
(* requests over sales_orders, invoices, purchase_orders and vendor_bills. *)
(*                                                                         *)
(* A handler reads the document, looks at its status, changes the entity   *)
(* and saves it.  save() is TypeORM's: it SELECTs the row again, and then  *)
(* INSERTs it or UPDATEs the columns that differ from the entity, whoever  *)
(* changed them in between; the version column is never compared.          *)
(* Transactions are READ COMMITTED.                                        *)
(*                                                                         *)
(* A document is named <<kind, name>> after the request that creates it,   *)
(* after the terminal's own id for an order of the point of sale, or after *)
(* nothing for those that are there at the start.  A tick is a reading of  *)
(* Date.now(), all that a number has beside the prefix of its kind.        *)
(* All documents are of one tenant, and the second transactions, which set *)
(* no tenant, see them (RequestPipeline shows when they do not).  Request  *)
(* bodies have the properties their DTO declares, and no others.           *)
(***************************************************************************)
EXTENDS Naturals, Sequences, FiniteSets

CONSTANTS
  Requests,
  SalesStart, PurchaseStart, \* names of the orders there are at the start
  Tickets,                   \* ids that terminals give to their orders
  EmptyTickets,              \* those that have no lines
  PrefixOf,                  \* the first eight digits of each of the ids
  Ticks,
  Batches,                   \* what a terminal may send: sequences of tickets
  Null

SalesOrders == {"SO"} \X (Requests \cup SalesStart \cup Tickets)
PurchaseOrders == {"PO"} \X (Requests \cup PurchaseStart)
Invoices == {"INV"} \X Requests
Bills == {"BILL"} \X Requests
Orders == SalesOrders \cup PurchaseOrders
Documents == Orders \cup Invoices \cup Bills

SalesStatuses == {"DRAFT", "SENT", "CONFIRMED", "INVOICED", "CANCELLED"}
PurchaseStatuses == {"RFQ", "RFQ_SENT", "TO_APPROVE", "PURCHASE_ORDER", "RECEIVED",
                     "BILLED", "LOCKED", "CANCELLED"}
InvoiceStatuses == {"DRAFT", "SENT", "PAID", "CANCELLED", "RETURNED"}
BillStatuses == {"DRAFT", "POSTED", "PAID", "CANCELLED"}
Statuses == SalesStatuses \cup PurchaseStatuses \cup InvoiceStatuses \cup BillStatuses

\* number: prefix and digits, unique over all kinds but bills (whose reference
\* is the vendor's); of: the order an invoice or a bill was made for, or Null.
Rows == [number: ({"SO", "PO", "INV", "POS"} \X (Ticks \cup {PrefixOf[c] : c \in Tickets}))
                   \cup {Null},
         status: Statuses, of: Orders \cup {Null}]

\* What save() may find to do.
Plans == {"insert", "update", "touch", "nothing"}

ASSUME TradeAssumption ==
  /\ IsFiniteSet(Requests) /\ EmptyTickets \subseteq Tickets
  /\ Requests \cap (SalesStart \cup PurchaseStart \cup Tickets) = {}
  /\ SalesStart \cap Tickets = {}
  /\ DOMAIN PrefixOf = Tickets
  /\ Batches \subseteq Seq(Tickets)
  /\ Null \notin Documents /\ Null \notin Rows /\ Null \notin Plans /\ Null \notin Statuses

VARIABLES
  docs,     \* committed rows: of each document, or Null
  lines,    \* committed lines of each ticket: the requests that stored them
  filled,   \* whether the database supplies the tenant_id an INSERT leaves out
  raced,    \* history: the documents two requests were at work on at once
  pc,       \* where each request is, or how it was answered
  doc,      \* the document it works on, or Null
  held,     \* the row it has read and changed, or Null
  bare,     \* the order it syncs is saved without its lines first
  plan,     \* what save() has found to do, or Null
  out,      \* uncommitted rows: a function on the documents it has written
  batch,    \* what is left of a terminal's batch
  synced,   \* the tickets it has counted as synced
  failed    \* the tickets it has counted as failed

work == <<doc, held, bare, plan, out>>
counts == <<batch, synced, failed>>
committed == <<docs, lines, filled>>
vars == <<committed, raced, pc, work, counts>>

Working == {"sync", "charge", "select", "write", "commit"}
Answered == {"ok", "refused", "lost"}
NoRows == [d \in {} |-> Null]

--------------------------------------------------------------------------------

Exists(d) == docs[d] # Null
Others(r) == Requests \ {r}
IsTicket(d) == d[1] = "SO" /\ d[2] \in Tickets
Syncing(r) == doc[r] # Null /\ IsTicket(doc[r]) /\ batch[r] # <<>>

\* Another transaction has inserted or updated the row of d.
RowLocked(r, d) == \E o \in Others(r) : d \in DOMAIN out[o]

\* The unique index has n: committed, or in a transaction that may commit it.
NumberTaken(d, n) == n # Null /\ \E e \in Documents \ {d} : Exists(e) /\ docs[e].number = n
NumberInUse(r, n) ==
  n # Null /\ \E o \in Others(r) : \E d \in DOMAIN out[o] : out[o][d].number = n

Sees(r, d) == IF d \in DOMAIN out[r] THEN out[r][d] ELSE docs[d]
Writes(r, d, row) ==
  out' = [out EXCEPT ![r] = [e \in DOMAIN out[r] \cup {d} |-> IF e = d THEN row ELSE out[r][e]]]

--------------------------------------------------------------------------------
(* How a transaction ends.                                                    *)

\* What r had in memory, its uncommitted rows and its locks are gone.
Release(r) ==
  /\ doc' = [doc EXCEPT ![r] = Null]
  /\ held' = [held EXCEPT ![r] = Null]
  /\ bare' = [bare EXCEPT ![r] = FALSE]
  /\ plan' = [plan EXCEPT ![r] = Null]
  /\ out' = [out EXCEPT ![r] = NoRows]

\* The handler or a statement throws: everything is rolled back.
Refuse(r) ==
  /\ pc' = [pc EXCEPT ![r] = "refused"]
  /\ Release(r)
  /\ UNCHANGED <<committed, raced, counts>>

\* MUTANT of NextTicket: the query runner is released before it is rolled back.
NextTicketUnrolled(r) ==
  /\ pc' = [pc EXCEPT ![r] = "sync"]
  /\ batch' = [batch EXCEPT ![r] = Tail(@)]
  /\ doc' = [doc EXCEPT ![r] = Null] /\ held' = [held EXCEPT ![r] = Null]
  /\ bare' = [bare EXCEPT ![r] = FALSE] /\ plan' = [plan EXCEPT ![r] = Null]
  /\ UNCHANGED out
\* One order of a batch is done with, and counted: the loop goes on.
NextTicket(r) ==
  /\ pc' = [pc EXCEPT ![r] = "sync"]
  /\ batch' = [batch EXCEPT ![r] = Tail(@)]
  /\ Release(r)
Counted(r) ==
  /\ synced' = [synced EXCEPT ![r] = @ \cup {Head(batch[r])}]
  /\ UNCHANGED failed
\* MUTANT of Uncounted: the counter is incremented whatever happened.
UncountedAsSynced(r) ==
  /\ synced' = [synced EXCEPT ![r] = @ \cup {Head(batch[r])}]
  /\ UNCHANGED failed
Uncounted(r) ==
  /\ failed' = [failed EXCEPT ![r] = @ \cup {Head(batch[r])}]
  /\ UNCHANGED synced

\* A statement fails: the sync rolls back this order and takes the next one.
Fail(r) ==
  \/ ~Syncing(r) /\ Refuse(r)
  \/ Syncing(r) /\ NextTicket(r) /\ Uncounted(r) /\ UNCHANGED <<committed, raced>>

--------------------------------------------------------------------------------
(* Requests come in.                                                          *)

\* r is at work on d from here on; another request may be at work on it too.
Open(r, d, row, next) ==
  /\ doc' = [doc EXCEPT ![r] = d]
  /\ held' = [held EXCEPT ![r] = row]
  /\ pc' = [pc EXCEPT ![r] = next]
  /\ raced' = raced \cup {e \in {d} : \E o \in Others(r) : doc[o] = e}
  /\ UNCHANGED <<committed, out>>

\* findOne, the check of the status, and the status the entity is given.
OnDocument(r, d, allowed, to, next) ==
  /\ pc[r] = "idle"
  /\ \/ ~(Exists(d) /\ docs[d].status \in allowed) /\ Refuse(r)
     \/ /\ Exists(d) /\ docs[d].status \in allowed
        /\ Open(r, d, [docs[d] EXCEPT !.status = to], next)
        /\ UNCHANGED <<bare, plan, counts>>

\* An entity without id: save() has nothing to SELECT.
Create(r, d, row) ==
  /\ pc[r] = "idle"
  /\ Open(r, d, row, "write")
  /\ plan' = [plan EXCEPT ![r] = "insert"]
  /\ UNCHANGED <<bare, counts>>

\* No tenant is given; a line has no subtotal, and its column demands one.
CreateOrder(r) ==
  \/ pc[r] = "idle" /\ Refuse(r) \* there are lines, or the partner is unknown
  \/ filled /\ \E n \in Ticks :
       Create(r, <<"SO", r>>, [number |-> <<"SO", n>>, status |-> "DRAFT", of |-> Null])

UpdateOrder(r) == \E d \in SalesOrders : OnDocument(r, d, {"DRAFT"}, "DRAFT", "select")
ConfirmOrder(r) == \E d \in SalesOrders : OnDocument(r, d, {"DRAFT"}, "CONFIRMED", "select")
SendQuote(r) == \E d \in SalesOrders : OnDocument(r, d, {"DRAFT"}, "SENT", "select")

\* MUTANT of Cancellable: the check of INVOICED is missing.
CancellableInvoiced == SalesStatuses \ {"CANCELLED"}
Cancellable == SalesStatuses \ {"INVOICED", "CANCELLED"}
CancelOrder(r) ==
  \E d \in SalesOrders : OnDocument(r, d, Cancellable, "CANCELLED", "select")

CreateInvoice(r) ==
  \E d \in SalesOrders : OnDocument(r, d, {"CONFIRMED"}, "INVOICED", "charge")
PostInvoice(r) == \E d \in Invoices : OnDocument(r, d, {"DRAFT"}, "SENT", "select")

CreateRFQ(r) ==
  \/ pc[r] = "idle" /\ Refuse(r) \* the partner or a product is unknown
  \/ \E n \in Ticks :
       Create(r, <<"PO", r>>, [number |-> <<"PO", n>>, status |-> "RFQ", of |-> Null])

ConfirmPurchase(r) ==
  \E d \in PurchaseOrders : OnDocument(r, d, {"RFQ", "RFQ_SENT"}, "PURCHASE_ORDER", "select")

\* MUTANT of Billable: a billed order is taken again.
BillableAgain == {"RECEIVED", "PURCHASE_ORDER", "BILLED"}
Billable == {"RECEIVED", "PURCHASE_ORDER"}
CreateBill(r) == \E d \in PurchaseOrders : OnDocument(r, d, Billable, "BILLED", "charge")

\* MUTANT of PostBill: the status of a posted invoice.
PostBillAsInvoice(r) == \E d \in Bills : OnDocument(r, d, {"DRAFT"}, "SENT", "select")
PostBill(r) == \E d \in Bills : OnDocument(r, d, {"DRAFT"}, "POSTED", "select")

SyncOrders(r) ==
  /\ pc[r] = "idle"
  /\ \E b \in Batches : batch' = [batch EXCEPT ![r] = b]
  /\ pc' = [pc EXCEPT ![r] = "sync"]
  /\ UNCHANGED <<committed, raced, work, synced, failed>>

--------------------------------------------------------------------------------
(* An invoice or a bill for the order that was read.                          *)

Charge(r) ==
  IF doc[r] \in SalesOrders
    THEN {[doc |-> <<"INV", r>>, row |-> [number |-> <<"INV", n>>, status |-> "DRAFT",
                                          of |-> doc[r]]] : n \in Ticks}
    ELSE {[doc |-> <<"BILL", r>>, row |-> [number |-> Null, status |-> "DRAFT",
                                           of |-> doc[r]]]}

\* The document, its lines and its totals are saved before the order is.
InsertCharge(r) ==
  /\ pc[r] = "charge"
  /\ \E c \in Charge(r) :
       /\ ~NumberInUse(r, c.row.number)
       /\ \/ NumberTaken(c.doc, c.row.number) /\ Refuse(r)
          \/ /\ ~NumberTaken(c.doc, c.row.number)
             /\ Writes(r, c.doc, c.row)
             /\ pc' = [pc EXCEPT ![r] = "select"]
             /\ UNCHANGED <<committed, raced, doc, held, bare, plan, counts>>

--------------------------------------------------------------------------------
(* The loop of syncOrders: a transaction for each order of the batch.         *)

SyncNext(r) ==
  /\ pc[r] = "sync" /\ batch[r] # <<>>
  /\ LET c == Head(batch[r]) IN
     \/ Exists(<<"SO", c>>) /\ NextTicket(r) /\ Counted(r) /\ UNCHANGED <<committed, raced>>
     \/ /\ ~Exists(<<"SO", c>>)
        /\ Open(r, <<"SO", c>>, [number |-> <<"POS", PrefixOf[c]>>, status |-> "CONFIRMED",
                                 of |-> Null], "select")
        /\ bare' = [bare EXCEPT ![r] = TRUE]
        /\ UNCHANGED <<plan, counts>>

SyncDone(r) ==
  /\ pc[r] = "sync" /\ batch[r] = <<>>
  /\ pc' = [pc EXCEPT ![r] = "ok"]
  /\ UNCHANGED <<committed, raced, work, counts>>

--------------------------------------------------------------------------------
(* save(): compare the entity with the database, then write the differences.  *)

\* Only an update saves a draft: it has a new date, whatever the status is.
Select(r) ==
  /\ pc[r] = "select"
  /\ LET row == Sees(r, doc[r])
     IN plan' = [plan EXCEPT ![r] = IF row = Null THEN "insert"
                                    ELSE IF row.status # held[r].status THEN "update"
                                    ELSE IF held[r].status = "DRAFT" THEN "touch"
                                    ELSE "nothing"]
  /\ pc' = [pc EXCEPT ![r] = "write"]
  /\ UNCHANGED <<committed, raced, doc, held, bare, out, counts>>

\* No tenant; an id or a number that is there; another's lines, which save()
\* would take from the order although they cannot be without one.
ConstraintViolated(r) ==
  \/ plan[r] = "insert" /\ (Exists(doc[r]) \/ NumberTaken(doc[r], held[r].number))
  \/ plan[r] = "insert" /\ IsTicket(doc[r]) /\ ~filled
  \/ Syncing(r) /\ ~bare[r] /\ lines[doc[r][2]] # {}

RowWritten(r) ==
  IF plan[r] = "insert" THEN held[r]
  ELSE IF plan[r] = "touch" THEN Sees(r, doc[r])
  ELSE [Sees(r, doc[r]) EXCEPT !.status = held[r].status]

\* MUTANT of AfterWrite: the sync commits the order before its lines are saved.
AfterHeader(r) == "commit"
\* The sync saves the order twice: without its lines, then with them.
AfterWrite(r) == IF Syncing(r) /\ bare[r] THEN "select" ELSE "commit"

Write(r) ==
  /\ pc[r] = "write"
  /\ plan[r] = "nothing" \/ ~RowLocked(r, doc[r])
  /\ plan[r] = "insert" => ~NumberInUse(r, held[r].number)
  /\ \/ ConstraintViolated(r) /\ Fail(r)
     \/ /\ ~ConstraintViolated(r)
        /\ IF plan[r] = "nothing" THEN UNCHANGED out ELSE Writes(r, doc[r], RowWritten(r))
        /\ pc' = [pc EXCEPT ![r] = AfterWrite(r)]
        /\ bare' = [bare EXCEPT ![r] = @ /\ AfterWrite(r) = "commit"]
        /\ plan' = [plan EXCEPT ![r] = Null]
        /\ UNCHANGED <<committed, raced, doc, held, counts>>

Commit(r) ==
  /\ pc[r] = "commit"
  /\ docs' = [d \in Documents |-> Sees(r, d)]
  /\ lines' = IF Syncing(r) /\ ~bare[r] /\ doc[r][2] \notin EmptyTickets
                THEN [lines EXCEPT ![doc[r][2]] = @ \cup {r}] ELSE lines
  /\ \/ Syncing(r) /\ NextTicket(r) /\ Counted(r)
     \/ /\ ~Syncing(r)
        /\ pc' = [pc EXCEPT ![r] = "ok"]
        /\ Release(r)
        /\ UNCHANGED counts
  /\ UNCHANGED <<filled, raced>>

\* The server stops: the database rolls back what is not committed.
ServerCrash ==
  /\ \E r \in Requests : pc[r] \in Working
  /\ pc' = [r \in Requests |-> IF pc[r] \in Working THEN "lost" ELSE pc[r]]
  /\ doc' = [r \in Requests |-> Null] /\ held' = [r \in Requests |-> Null]
  /\ bare' = [r \in Requests |-> FALSE] /\ plan' = [r \in Requests |-> Null]
  /\ out' = [r \in Requests |-> NoRows]
  /\ UNCHANGED <<committed, raced, counts>>

--------------------------------------------------------------------------------

\* What createOrder, the sync or createRFQ left, and perhaps a confirmation.
Initially(d) == IF d \in SalesOrders THEN {"DRAFT", "CONFIRMED"} ELSE {"RFQ", "PURCHASE_ORDER"}
StartOrders == ({"SO"} \X SalesStart) \cup ({"PO"} \X PurchaseStart)

Init ==
  /\ \E s \in [StartOrders -> UNION {Initially(d) : d \in StartOrders}] :
       /\ \A d \in StartOrders : s[d] \in Initially(d)
       /\ docs = [d \in Documents |->
            IF d \in StartOrders THEN [number |-> Null, status |-> s[d], of |-> Null] ELSE Null]
  /\ lines = [c \in Tickets |-> {}]
  /\ filled \in BOOLEAN
  /\ raced = {}
  /\ pc = [r \in Requests |-> "idle"]
  /\ doc = [r \in Requests |-> Null] /\ held = [r \in Requests |-> Null]
  /\ bare = [r \in Requests |-> FALSE] /\ plan = [r \in Requests |-> Null]
  /\ out = [r \in Requests |-> NoRows]
  /\ batch = [r \in Requests |-> <<>>]
  /\ synced = [r \in Requests |-> {}] /\ failed = [r \in Requests |-> {}]

Receive(r) ==
  \/ CreateOrder(r) \/ UpdateOrder(r) \/ ConfirmOrder(r) \/ SendQuote(r) \/ CancelOrder(r)
  \/ CreateInvoice(r) \/ PostInvoice(r)
  \/ CreateRFQ(r) \/ ConfirmPurchase(r) \/ CreateBill(r) \/ PostBill(r)
  \/ SyncOrders(r)

Step(r) ==
  \/ InsertCharge(r) \/ SyncNext(r) \/ SyncDone(r) \/ Select(r) \/ Write(r) \/ Commit(r)

\* Every request has been answered.
Settled == (\A r \in Requests : pc[r] \in Answered) /\ UNCHANGED vars

Next ==
  \/ \E r \in Requests : Receive(r) \/ Step(r)
  \/ ServerCrash
  \/ Settled

Spec == Init /\ [][Next]_vars /\ \A r \in Requests : WF_vars(Step(r))

--------------------------------------------------------------------------------
(* What a reader of the code relies on.                                       *)

StatusesOf(d) ==
  IF d \in SalesOrders THEN SalesStatuses
  ELSE IF d \in PurchaseOrders THEN PurchaseStatuses
  ELSE IF d \in Invoices THEN InvoiceStatuses ELSE BillStatuses

TypeOK ==
  /\ docs \in [Documents -> Rows \cup {Null}]
  /\ \A d \in Documents : Exists(d) => docs[d].status \in StatusesOf(d)
  /\ lines \in [Tickets -> SUBSET Requests]
  /\ filled \in BOOLEAN
  /\ raced \subseteq Documents
  /\ pc \in [Requests -> {"idle"} \cup Working \cup Answered]
  /\ doc \in [Requests -> Documents \cup {Null}]
  /\ held \in [Requests -> Rows \cup {Null}]
  /\ bare \in [Requests -> BOOLEAN]
  /\ plan \in [Requests -> Plans \cup {Null}]
  /\ \A r \in Requests : DOMAIN out[r] \subseteq Documents /\ \A d \in DOMAIN out[r] : out[r][d] \in Rows
  /\ batch \in [Requests -> Seq(Tickets)]
  /\ synced \in [Requests -> SUBSET Tickets]
  /\ failed \in [Requests -> SUBSET Tickets]

ChargesOf(o) == {d \in Invoices \cup Bills : Exists(d) /\ docs[d].of = o}
StatusOf(o) == IF Exists(o) THEN docs[o].status ELSE Null
StatusIn(S) == [o \in S |-> StatusOf(o)]
ChargesIn(S) == [o \in S |-> Cardinality(ChargesOf(o))]

\* An order of a terminal is stored with its lines, once, however often and
\* however much at once it is sent, and whatever fails or dies in between.
TicketsWhole ==
  \A c \in Tickets :
    Cardinality(lines[c]) = IF Exists(<<"SO", c>>) /\ c \notin EmptyTickets THEN 1 ELSE 0

\* What a batch reports as synced is stored, also when the order was stored by
\* another sending of it, and it is not reported as failed, too.
SyncedStored ==
  \A r \in Requests : synced[r] \cap failed[r] = {} /\ \A c \in synced[r] : Exists(<<"SO", c>>)

SalesFlow == {<<"DRAFT", "SENT">>, <<"DRAFT", "CONFIRMED">>, <<"DRAFT", "CANCELLED">>,
              <<"SENT", "CANCELLED">>, <<"CONFIRMED", "INVOICED">>, <<"CONFIRMED", "CANCELLED">>}
PurchaseFlow == {<<"RFQ", "PURCHASE_ORDER">>, <<"RFQ_SENT", "PURCHASE_ORDER">>,
                 <<"PURCHASE_ORDER", "BILLED">>, <<"RECEIVED", "BILLED">>}

SalesLife == INSTANCE OrderLife WITH
  Orders <- SalesOrders, Statuses <- SalesStatuses, Created <- {"DRAFT", "CONFIRMED"},
  Flow <- SalesFlow, Charged <- "INVOICED", Null <- Null,
  status <- StatusIn(SalesOrders), charges <- ChargesIn(SalesOrders),
  contested <- raced \cap SalesOrders

PurchaseLife == INSTANCE OrderLife WITH
  Orders <- PurchaseOrders, Statuses <- PurchaseStatuses, Created <- {"RFQ"},
  Flow <- PurchaseFlow, Charged <- "BILLED", Null <- Null,
  status <- StatusIn(PurchaseOrders), charges <- ChargesIn(PurchaseOrders),
  contested <- raced \cap PurchaseOrders

\* As long as no two requests were at work on an order at once, it is created,
\* advanced and charged as OrderLife promises: in steps that commit its status
\* together with what was charged for it.  So an INVOICED order has one invoice,
\* a BILLED one has one bill, any other none, whatever fails in between.
SalesFollowTheirFlow == SalesLife!Spec
PurchasesFollowTheirFlow == PurchaseLife!Spec

\* Every request that was received is answered, or lost in a crash: the waits
\* for rows and numbers of other transactions all end.
EveryRequestAnswered ==
  \A r \in Requests : pc[r] \in Working ~> pc[r] \in Answered
================================================================================
