------------------------------ MODULE StockQuants ------------------------------
(***************************************************************************)
(* Stock movements of the inventory module, one tenant: adjustStock,       *)
(* transferStock, completeReceipt and completeIssue of                     *)
(* inventory.service.ts, run by concurrent HTTP requests over the table    *)
(* stock_quants and the status column of receipts and issues.              *)
(*                                                                         *)
(* Each request runs its database statements one at a time inside one      *)
(* PostgreSQL READ COMMITTED transaction: it reads committed rows and its  *)
(* own writes, an UPDATE holds the row until the transaction ends, and     *)
(* nothing is visible to the others before the commit.  A step of a        *)
(* request is one statement with the JavaScript that follows its await.    *)
(* Quantities are whole units (the column is decimal(14,4)).               *)
(***************************************************************************)
EXTENDS Integers, Sequences, FiniteSets, Functions

CONSTANTS
  Requests,      \* the HTTP requests; each one calls one handler once
  Products,
  Locations,
  Receipts,      \* stock_receipts rows, all DRAFT to begin with
  Issues,        \* stock_issues rows, all DRAFT to begin with
  Lines,         \* Lines[d]: the lines of document d, in order, of any sign
  Deltas,        \* the quantities an adjustment may carry (any number)
  Amounts,       \* the quantities a transfer may carry (at least 0.0001)
  InitialStock,  \* the contents stock_quants may start with: nothing negative,
                 \* negative stock comes from the receipts of Receipts
  Seed,          \* the owner of the rows that exist at the start
  Null           \* no such row, no uncommitted write, no document

Keys == Products \X Locations

\* stock_quants has no unique constraint on (product, location), so a pair may
\* have several rows.  A row is named after the pair and the request that
\* inserted it: a request sees its own insert, so it makes one row a pair at most.
Owners == Requests \cup {Seed}
Rows == Keys \X Owners

Documents == Receipts \cup Issues
LineItems == [key: Keys, qty: Int]

\* What a handler does to one quant: the adjustment, the two legs of a transfer,
\* a line of a receipt, a line of an issue.
Moves == [how: {"adjust", "take", "put", "receive", "issue"}, key: Keys, qty: Int]
Move(how, key, qty) == [how |-> how, key |-> key, qty |-> qty]

\* The bound on a document line's quantity: below the largest of these.
PowersOfTen == {10, 100, 1000, 10000}

ASSUME ConstantsAssumption ==
  /\ Receipts \cap Issues = {}
  /\ IsFiniteSet(Requests) /\ Seed \notin Requests
  /\ Null \notin Int /\ Null \notin Documents
  /\ Null \notin [row: Rows, qty: Int, base: Int]
  /\ Null \notin [qty: Int, base: Int]
  /\ Lines \in [Documents -> Seq(LineItems)]
  /\ \A d \in Documents : \A i \in DOMAIN Lines[d] : Lines[d][i].qty < 10000
  /\ Deltas \subseteq Int
  /\ Amounts \subseteq Nat \ {0}
  /\ InitialStock \subseteq [Rows -> Nat \cup {Null}]

VARIABLES
  quants,  \* committed stock_quants: the quantity of each row, Null when absent
  status,  \* committed status of each document
  pc,      \* where each request is, or how it was answered
  moves,   \* the quant movements the request carries out, in order
  at,      \* the movement it is at
  doc,     \* the document it completes, or Null
  held,    \* the entity it has in memory between findOne and save
  buf      \* its uncommitted writes to stock_quants

vars == <<quants, status, pc, moves, at, doc, held, buf>>

Working == {"read", "save", "saveDocument", "commit"}
Answered == {"ok", "refused", "aborted", "lost"}

\* base is a history field: the quantity the row had when it was read (0 when
\* it did not exist).  No code reads it; the properties do.
Entities == [row: Rows, qty: Int, base: Int]
Writes == [qty: Int, base: Int]
NoWrites == [row \in Rows |-> Null]

--------------------------------------------------------------------------------
(* What PostgreSQL shows and locks.                                           *)

Sees(r, row) == IF buf[r][row] # Null THEN buf[r][row].qty ELSE quants[row]
VisibleRows(r, key) == {row \in Rows : row[1] = key /\ Sees(r, row) # Null}
RowLocked(r, row) == \E o \in Requests \ {r} : buf[o][row] # Null
DocumentLocked(r, d) == \E o \in Requests \ {r} : doc[o] = d /\ pc[o] = "commit"

OrZero(q) == IF q = Null THEN 0 ELSE q

\* r waits for the transaction of o to end.
WaitsFor(r, o) ==
  /\ o # r
  /\ \/ pc[r] = "save" /\ buf[o][held[r].row] # Null
     \/ pc[r] = "saveDocument" /\ doc[o] = doc[r] /\ pc[o] = "commit"

\* A waiting request waits for one other, so a set in which every member waits
\* for a member and is waited for by one is made of cycles.
Deadlocked(r) ==
  \E S \in SUBSET Requests :
    /\ r \in S
    /\ \A s \in S : (\E o \in S : WaitsFor(s, o)) /\ (\E o \in S : WaitsFor(o, s))

--------------------------------------------------------------------------------
(* The steps handlers have in common.                                         *)

Phase(ms, i, d) ==
  CASE i \in DOMAIN ms -> "read"
    [] i \notin DOMAIN ms /\ d # Null -> "saveDocument"
    [] i \notin DOMAIN ms /\ d = Null -> "commit"

\* The service method has started its transaction.
Begin(r, ms, d) ==
  /\ moves' = [moves EXCEPT ![r] = ms]
  /\ at' = [at EXCEPT ![r] = 1]
  /\ doc' = [doc EXCEPT ![r] = d]
  /\ pc' = [pc EXCEPT ![r] = Phase(ms, 1, d)]
  /\ UNCHANGED <<quants, status, held, buf>>

\* The transaction is over: its writes and locks are gone.
Answer(r, how) ==
  /\ pc' = [pc EXCEPT ![r] = how]
  /\ moves' = [moves EXCEPT ![r] = <<>>]
  /\ at' = [at EXCEPT ![r] = 1]
  /\ doc' = [doc EXCEPT ![r] = Null]
  /\ held' = [held EXCEPT ![r] = Null]
  /\ buf' = [buf EXCEPT ![r] = NoWrites]

\* MUTANT of Refuse: the catch answers without rollbackTransaction.
RefuseWithoutRollback(r) ==
  /\ pc' = [pc EXCEPT ![r] = "refused"]
  /\ UNCHANGED <<quants, status, moves, at, doc, held, buf>>

\* A handler throws: rollbackTransaction, and the error is the answer.
Refuse(r) ==
  /\ Answer(r, "refused")
  /\ UNCHANGED <<quants, status>>

\* findOne returned `row`, and the handler set its quantity to qty.
Hold(r, row, qty) ==
  /\ held' = [held EXCEPT ![r] =
                [row |-> row, qty |-> qty, base |-> OrZero(Sees(r, row))]]
  /\ pc' = [pc EXCEPT ![r] = "save"]
  /\ UNCHANGED <<quants, status, moves, at, doc, buf>>

\* MUTANT of HoldNew: create() is called without the quantity.
HoldNewWithoutQuantity(r, key, qty) == Hold(r, <<key, r>>, Null)

\* findOne returned nothing, and the handler created an entity.
HoldNew(r, key, qty) == Hold(r, <<key, r>>, qty)

\* r is about to look up the quant of a movement of this kind.
AtMove(r, how) == pc[r] = "read" /\ moves[r][at[r]].how = how
CurrentMove(r) == moves[r][at[r]]

--------------------------------------------------------------------------------
(* Requests come in.                                                          *)

AdjustStock(r) ==
  /\ pc[r] = "idle"
  /\ \E key \in Keys, qty \in Deltas :
       Begin(r, <<Move("adjust", key, qty)>>, Null)

TransferStock(r) ==
  /\ pc[r] = "idle"
  /\ \E p \in Products, from \in Locations, to \in Locations, qty \in Amounts :
       \/ from = to /\ Refuse(r)
       \/ from # to /\ Begin(r, <<Move("take", <<p, from>>, qty),
                                  Move("put", <<p, to>>, qty)>>, Null)

\* getReceipt reads the document and its lines, outside the transaction that
\* moves the stock; the status is not looked at again.
CompleteReceipt(r) ==
  /\ pc[r] = "idle"
  /\ \E d \in Receipts :
       \/ status[d] # "DRAFT" /\ Refuse(r)
       \/ /\ status[d] = "DRAFT"
          /\ Begin(r, [i \in DOMAIN Lines[d] |->
                         Move("receive", Lines[d][i].key, Lines[d][i].qty)], d)

CompleteIssue(r) ==
  /\ pc[r] = "idle"
  /\ \E d \in Issues :
       \/ status[d] # "DRAFT" /\ Refuse(r)
       \/ /\ status[d] = "DRAFT"
          /\ Begin(r, [i \in DOMAIN Lines[d] |->
                         Move("issue", Lines[d][i].key, Lines[d][i].qty)], d)

--------------------------------------------------------------------------------
(* One look-up per kind of movement.  findOne has no ORDER BY: any visible    *)
(* row of the pair may be the one.                                            *)

AdjustQuant(r) ==
  /\ AtMove(r, "adjust")
  /\ LET m == CurrentMove(r) IN
     \/ \E row \in VisibleRows(r, m.key) :
          LET newQty == Sees(r, row) + m.qty IN
          \/ newQty < 0 /\ Refuse(r)
          \/ newQty >= 0 /\ Hold(r, row, newQty)
     \/ /\ VisibleRows(r, m.key) = {}
        /\ \/ m.qty < 0 /\ Refuse(r)
           \/ m.qty >= 0 /\ HoldNew(r, m.key, m.qty)

TakeFromSource(r) ==
  /\ AtMove(r, "take")
  /\ LET m == CurrentMove(r) IN
     \/ VisibleRows(r, m.key) = {} /\ Refuse(r)
     \/ \E row \in VisibleRows(r, m.key) :
          \/ Sees(r, row) < m.qty /\ Refuse(r)
          \/ Sees(r, row) >= m.qty /\ Hold(r, row, Sees(r, row) - m.qty)

PutToDestination(r) ==
  /\ AtMove(r, "put")
  /\ LET m == CurrentMove(r) IN
     \/ \E row \in VisibleRows(r, m.key) : Hold(r, row, Sees(r, row) + m.qty)
     \/ VisibleRows(r, m.key) = {} /\ HoldNew(r, m.key, m.qty)

\* The line comes from a decimal column, so line.quantity is a string such as
\* "5.00" and `Number(quant.quantity) + line.quantity` appends it to the number:
\* 10 becomes "105.00".  Shift(l) is the power of ten that makes room for the
\* digits of l.
Shift(l) ==
  CHOOSE p \in PowersOfTen : l < p /\ \A o \in PowersOfTen : l < o => p <= o
Concatenated(q, l) ==
  IF q >= 0 THEN q * Shift(l) + l ELSE -((-q) * Shift(l) + l)

\* A negative line concatenates to no number ("10-5.00"): the save fails.
ReceiveLine(r) ==
  /\ AtMove(r, "receive")
  /\ LET m == CurrentMove(r) IN
     \/ \E row \in VisibleRows(r, m.key) :
          \/ m.qty < 0 /\ Refuse(r)
          \/ m.qty >= 0 /\ Hold(r, row, Concatenated(Sees(r, row), m.qty))
     \/ VisibleRows(r, m.key) = {} /\ HoldNew(r, m.key, m.qty)

\* MUTANT of IssueLine: stock is not checked before it is deducted.
IssueLineUnchecked(r) ==
  /\ AtMove(r, "issue")
  /\ LET m == CurrentMove(r) IN
     \/ VisibleRows(r, m.key) = {} /\ Refuse(r)
     \/ \E row \in VisibleRows(r, m.key) : Hold(r, row, Sees(r, row) - m.qty)

IssueLine(r) ==
  /\ AtMove(r, "issue")
  /\ LET m == CurrentMove(r) IN
     \/ VisibleRows(r, m.key) = {} /\ Refuse(r)
     \/ \E row \in VisibleRows(r, m.key) :
          \/ Sees(r, row) < m.qty /\ Refuse(r)
          \/ Sees(r, row) >= m.qty /\ Hold(r, row, Sees(r, row) - m.qty)

--------------------------------------------------------------------------------
(* save, commit, and the ways a request ends without committing.              *)

\* MUTANT of SaveQuant: the status is saved inside the loop over the lines.
SaveQuantEndsLoop(r) ==
  /\ pc[r] = "save"
  /\ LET e == held[r] IN
       /\ ~RowLocked(r, e.row)
       /\ buf' = [buf EXCEPT ![r][e.row] =
                    [qty |-> e.qty,
                     base |-> IF @ = Null THEN e.base ELSE @.base]]
  /\ held' = [held EXCEPT ![r] = Null]
  /\ at' = [at EXCEPT ![r] = @ + 1]
  /\ pc' = [pc EXCEPT ![r] = IF doc[r] # Null THEN "saveDocument"
                             ELSE Phase(moves[r], at[r] + 1, doc[r])]
  /\ UNCHANGED <<quants, status, moves, doc>>

\* MUTANT of SaveQuant: without startTransaction the source leg of a transfer
\* commits on its own.
SaveQuantAutocommit(r) ==
  /\ pc[r] = "save"
  /\ ~RowLocked(r, held[r].row)
  /\ IF CurrentMove(r).how = "take"
       THEN quants' = [quants EXCEPT ![held[r].row] = held[r].qty] /\ UNCHANGED buf
       ELSE /\ buf' = [buf EXCEPT ![r][held[r].row] =
                         [qty |-> held[r].qty, base |-> held[r].base]]
            /\ UNCHANGED quants
  /\ held' = [held EXCEPT ![r] = Null]
  /\ at' = [at EXCEPT ![r] = @ + 1]
  /\ pc' = [pc EXCEPT ![r] = Phase(moves[r], at[r] + 1, doc[r])]
  /\ UNCHANGED <<status, moves, doc>>

\* quantRepo.save: an UPDATE (or INSERT) of the quantity computed in memory,
\* addressed by id alone.  It waits while another transaction has the row.
SaveQuant(r) ==
  /\ pc[r] = "save"
  /\ LET e == held[r] IN
       /\ ~RowLocked(r, e.row)
       /\ buf' = [buf EXCEPT ![r][e.row] =
                    [qty |-> e.qty,
                     base |-> IF @ = Null THEN e.base ELSE @.base]]
  /\ held' = [held EXCEPT ![r] = Null]
  /\ at' = [at EXCEPT ![r] = @ + 1]
  /\ pc' = [pc EXCEPT ![r] = Phase(moves[r], at[r] + 1, doc[r])]
  /\ UNCHANGED <<quants, status, moves, doc>>

\* receiptRepo.save(receipt) / issueRepo.save(issue) with status COMPLETED.
SaveDocument(r) ==
  /\ pc[r] = "saveDocument"
  /\ ~DocumentLocked(r, doc[r])
  /\ pc' = [pc EXCEPT ![r] = "commit"]
  /\ UNCHANGED <<quants, status, moves, at, doc, held, buf>>

\* commitTransaction: the writes of r become the committed rows.
Commit(r) ==
  /\ pc[r] = "commit"
  /\ quants' = [row \in Rows |-> Sees(r, row)]
  /\ status' = [d \in Documents |-> IF d = doc[r] THEN "COMPLETED" ELSE status[d]]
  /\ Answer(r, "ok")

\* PostgreSQL aborts one of the transactions that wait for each other.
DeadlockAbort(r) ==
  /\ Deadlocked(r)
  /\ Answer(r, "aborted")
  /\ UNCHANGED <<quants, status>>

\* The server process dies: its requests are never answered, and PostgreSQL
\* rolls their transactions back.
ServerCrash ==
  /\ \E r \in Requests : pc[r] \in Working
  /\ pc' = [r \in Requests |-> IF pc[r] \in Working THEN "lost" ELSE pc[r]]
  /\ moves' = [r \in Requests |-> <<>>]
  /\ at' = [r \in Requests |-> 1]
  /\ doc' = [r \in Requests |-> Null]
  /\ held' = [r \in Requests |-> Null]
  /\ buf' = [r \in Requests |-> NoWrites]
  /\ UNCHANGED <<quants, status>>

\* Every request has been answered: nothing is left to do.
Settled ==
  /\ \A r \in Requests : pc[r] \in Answered
  /\ UNCHANGED vars

--------------------------------------------------------------------------------

Init ==
  /\ quants \in InitialStock
  /\ status = [d \in Documents |-> "DRAFT"]
  /\ pc = [r \in Requests |-> "idle"]
  /\ moves = [r \in Requests |-> <<>>]
  /\ at = [r \in Requests |-> 1]
  /\ doc = [r \in Requests |-> Null]
  /\ held = [r \in Requests |-> Null]
  /\ buf = [r \in Requests |-> NoWrites]

Arrive(r) ==
  AdjustStock(r) \/ TransferStock(r) \/ CompleteReceipt(r) \/ CompleteIssue(r)

Step(r) ==
  \/ AdjustQuant(r) \/ TakeFromSource(r) \/ PutToDestination(r)
  \/ ReceiveLine(r) \/ IssueLine(r)
  \/ SaveQuant(r) \/ SaveDocument(r) \/ Commit(r)

Next ==
  \/ \E r \in Requests : Arrive(r) \/ Step(r) \/ DeadlockAbort(r)
  \/ ServerCrash
  \/ Settled

\* The event loop runs every request whose statement has returned, and
\* PostgreSQL answers every statement that need not wait and resolves deadlocks.
\* No fairness on arrivals or crashes.
Fairness == \A r \in Requests : WF_vars(Step(r)) /\ WF_vars(DeadlockAbort(r))

Spec == Init /\ [][Next]_vars /\ Fairness

--------------------------------------------------------------------------------
(* Properties.                                                                *)

\* The variables have their types, and a request's position agrees with what it
\* holds: an entity exactly between findOne and save.
TypeOK ==
  /\ quants \in [Rows -> Int \cup {Null}]
  /\ status \in [Documents -> {"DRAFT", "COMPLETED"}]
  /\ pc \in [Requests -> {"idle"} \cup Working \cup Answered]
  /\ moves \in [Requests -> Seq(Moves)]
  /\ at \in [Requests -> Nat]
  /\ doc \in [Requests -> Documents \cup {Null}]
  /\ held \in [Requests -> Entities \cup {Null}]
  /\ buf \in [Requests -> [Rows -> Writes \cup {Null}]]
  /\ \A r \in Requests :
       /\ pc[r] \in {"read", "save"} => at[r] \in DOMAIN moves[r]
       /\ pc[r] = "save" <=> held[r] # Null

\* A line may be negative (CreateStockReceiptLineDto and CreateStockIssueLineDto ask
\* for a number, no more), and a receipt stores it where the pair has no row.
NegativeLine(d, key) == \E i \in DOMAIN Lines[d] : Lines[d][i].key = key /\ Lines[d][i].qty < 0
NegativeRow(q, row) == q[row] # Null /\ q[row] < 0

\* "Stock cannot be negative" (adjustStock) and the checks of transferStock and
\* completeIssue: no interleaving of checks on stale rows, over any rows a pair is
\* split into, commits a negative quantity.  The one way to it is a completed
\* receipt with a negative line for that very pair.
NegativeOnlyByReceipts ==
  \A row \in Rows : NegativeRow(quants, row) =>
    \E d \in Receipts : status[d] = "COMPLETED" /\ NegativeLine(d, row[1])

\* r commits in this step, and it overwrites only rows that still are what it
\* read.
Commits(r) == pc[r] = "commit" /\ pc'[r] = "ok"
Overwrites(r) == {row \in Rows : buf[r][row] # Null}
Fresh(r) == \A row \in Overwrites(r) : OrZero(quants[row]) = buf[r][row].base

\* The stock of a pair over all its rows, and what the movements of r ask of it.
OnHand(q, key) == SumFunction([o \in Owners |-> OrZero(q[<<key, o>>])])
Signed(m) == IF m.how \in {"take", "issue"} THEN -m.qty ELSE m.qty
Asked(r, key) ==
  SumFunctionOnSet([i \in DOMAIN moves[r] |-> Signed(moves[r][i])],
                   {i \in DOMAIN moves[r] : moves[r][i].key = key})

\* A receipt of these lines can book them or more: the pair has no negative quantity
\* to append digits to, and no line for it is negative.
BooksAtLeast(d, key) ==
  ~NegativeLine(d, key) /\ \A o \in Owners : ~NegativeRow(quants, <<key, o>>)

\* The stock changes only when a request commits, and then by all the request
\* asked for: both legs of a transfer, every line of an issue, however many rows
\* the pairs have been split into.  Rows overwritten since they were read are
\* exempt (Fresh).  A receipt may book too much (ReceiptBooksItsLines), but no
\* less than its lines for a pair without negative stock and negative lines;
\* with them it may book anything: -2 and then 3 on no row make -23.
StockMovesByWholeRequests ==
  [][quants' # quants =>
       \E r \in Requests :
         /\ Commits(r)
         /\ Fresh(r) =>
              \A key \in Keys :
                LET change == OnHand(quants', key) - OnHand(quants, key) IN
                IF doc[r] \in Receipts THEN BooksAtLeast(doc[r], key) => change >= Asked(r, key)
                                       ELSE change = Asked(r, key)]_vars

\* A document becomes COMPLETED in the step that commits a write for every one of
\* its lines, by a request that answers ok: no completed document without its
\* movement, whatever fails or crashes between the lines.
CompletedMeansMoved ==
  [][\A d \in Documents : status'[d] # status[d] =>
       \E r \in Requests :
         /\ Commits(r) /\ doc[r] = d
         /\ \A i \in DOMAIN Lines[d] :
              \E row \in Overwrites(r) : row[1] = Lines[d][i].key]_vars

\* Every request that has begun is answered (or lost in a crash): row locks are
\* always released, and transfers that wait for each other are broken up.
EveryRequestAnswered ==
  \A r \in Requests : pc[r] \in Working ~> pc[r] \in Answered

\* "Update stock quantities for each line": a receipt that overwrites nothing
\* stale raises each pair by the sum of its lines.
ReceiptBooksItsLines ==
  [][\A r \in Requests : Commits(r) /\ Fresh(r) /\ doc[r] \in Receipts =>
       \A key \in Keys :
         OnHand(quants', key) - OnHand(quants, key) = Asked(r, key)]_vars
================================================================================
