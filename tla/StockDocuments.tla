---------------------------- MODULE StockDocuments ----------------------------
(***************************************************************************)
(* The life of stock documents: createReceipt, updateReceipt,              *)
(* completeReceipt and deleteReceipt of inventory.service.ts over          *)
(* stock_receipts and stock_receipt_lines, and createIssue, updateIssue,   *)
(* completeIssue and deleteIssue, the same code over stock_issues and      *)
(* stock_issue_lines, run by concurrent requests of several tenants.       *)
(* What a completion does to the quantities is the subject of StockQuants; *)
(* here it is one entry of a history, the set of lines it moved.           *)
(*                                                                         *)
(* Every request reads the document with its lines, decides, and saves or  *)
(* removes the entity it read.  save() is TypeORM's: it SELECTs the row    *)
(* and its lines again, and then INSERTs what is not there, UPDATEs the    *)
(* columns that differ from the entity, and detaches the lines the entity  *)
(* does not have (receiptId = NULL, which the column forbids).  The writes *)
(* of one save are one step; transactions are READ COMMITTED.              *)
(*                                                                         *)
(* A document is named after the request that created it, and so is a      *)
(* line: a request creates one document, and at most one line stands for   *)
(* all those of its request body.                                          *)
(***************************************************************************)
EXTENDS Naturals, Sequences, FiniteSets

CONSTANTS
  Requests,
  Tenants,
  Old,       \* the document that exists at the start, a DRAFT with one line
  OldTenant, \* its tenant
  Null       \* no row, nothing read, nothing written

Documents == Requests \cup {Old}
LineIds == Requests \cup {Old}

\* Each kind has tables, numbers and endpoints of its own.
Kinds == {"receipt", "issue"}
Statuses == {"DRAFT", "COMPLETED"}
DocumentRows == [kind: Kinds, tenant: Tenants, number: Nat, status: Statuses]

\* What an update does with the lines: dto.lines absent, empty, or given.
LineUpdates == {"keep", "clear", "replace"}
Operations == {"create", "complete", "delete"} \cup LineUpdates

VARIABLES
  docs,    \* committed stock_receipts and stock_issues: each document, or Null
  lines,   \* committed lines of both: the document of each line, or Null
  moved,   \* history: the line sets of the committed completions of each document
  raced,   \* history: the documents two requests were at work on at once
  pc,      \* where each request is, or how it was answered
  op,      \* what it does
  doc,     \* the document it works on, or Null
  held,    \* the entity it has read and changed: row and lines, or Null
  plan,    \* what save() has found to do, or Null
  gone,    \* the lines it has deleted, uncommitted
  out      \* its uncommitted row and inserted lines, or Null

vars == <<docs, lines, moved, raced, pc, op, doc, held, plan, gone, out>>
committed == <<docs, lines, moved>>

Working == {"removeLines", "move", "select", "write", "remove", "commit"}
Answered == {"ok", "refused", "conflict", "lost"}

Entities == [row: DocumentRows, lines: SUBSET LineIds]
Plans == [insert: BOOLEAN, status: BOOLEAN, add: SUBSET LineIds, detach: SUBSET LineIds]
Outs == [row: DocumentRows \cup {Null}, add: SUBSET LineIds]

ASSUME ConstantsAssumption ==
  /\ IsFiniteSet(Requests)
  /\ Old \notin Requests /\ OldTenant \in Tenants
  /\ Null \notin Documents \cup DocumentRows \cup Operations
  /\ Null \notin Entities \cup Plans \cup Outs

--------------------------------------------------------------------------------

Exists(d) == docs[d] # Null
OfTenant(t, k) == {d \in Documents : Exists(d) /\ docs[d].kind = k /\ docs[d].tenant = t}
LinesOf(d) == {l \in LineIds : lines[l] = d}
Others(r) == Requests \ {r}

\* Another transaction has written the row of d; it has deleted one of ls.
RowLocked(r, d) == \E o \in Others(r) : out[o] # Null /\ doc[o] = d
LinesLocked(r, ls) == \E o \in Others(r) : gone[o] \cap ls # {}

\* Two rows with one entry in a unique index: of one table, with one number.
SameNumber(row, other) == row.kind = other.kind /\ row.number = other.number

\* Another transaction has put the number of row in the index and may commit it.
NumberInUse(r, row) ==
  \E o \in Others(r) : out[o] # Null /\ out[o].row # Null /\ SameNumber(out[o].row, row)

\* MUTANT of NumberTaken: no unique index on the number.
NumberNeverTaken(d, row) == FALSE
NumberTaken(d, row) == \E e \in Documents \ {d} : Exists(e) /\ SameNumber(docs[e], row)

--------------------------------------------------------------------------------
(* The ways a request ends.                                                   *)

\* The transaction is over: what r had in memory and its locks are gone.
Answer(r, how) ==
  /\ pc' = [pc EXCEPT ![r] = how]
  /\ op' = [op EXCEPT ![r] = Null]
  /\ doc' = [doc EXCEPT ![r] = Null]
  /\ held' = [held EXCEPT ![r] = Null]
  /\ plan' = [plan EXCEPT ![r] = Null]
  /\ gone' = [gone EXCEPT ![r] = {}]
  /\ out' = [out EXCEPT ![r] = Null]

\* MUTANT of Refuse: the request is answered, its transaction stays open.
RefuseWithoutRollback(r, how) ==
  /\ pc' = [pc EXCEPT ![r] = how]
  /\ UNCHANGED <<committed, raced, op, doc, held, plan, gone, out>>

\* The handler or a statement throws: everything is rolled back.
Refuse(r, how) == Answer(r, how) /\ UNCHANGED <<committed, raced>>

--------------------------------------------------------------------------------
(* Requests come in.  getReceipt and getIssue read the document of the        *)
(* request's tenant and its lines.                                            *)

\* r is at work on d from here on; another request may be at work on it too.
Open(r, what, d, entity, next) ==
  /\ op' = [op EXCEPT ![r] = what]
  /\ doc' = [doc EXCEPT ![r] = d]
  /\ held' = [held EXCEPT ![r] = entity]
  /\ pc' = [pc EXCEPT ![r] = next]
  /\ raced' = raced \cup {e \in {d} : \E o \in Others(r) : doc[o] = e}
  /\ UNCHANGED <<committed, gone, out>>

\* The number is the count of the tenant's documents of the kind plus one; all
\* is to insert.  The location or a product may not be found, and there may be
\* no lines.
Create(r, k) ==
  /\ pc[r] = "idle"
  /\ \/ Refuse(r, "refused")
     \/ \E t \in Tenants, ls \in {{}, {r}} :
          LET count == Cardinality(OfTenant(t, k))
              row == [kind |-> k, tenant |-> t, number |-> count + 1, status |-> "DRAFT"] IN
          /\ Open(r, "create", r, [row |-> row, lines |-> ls], "write")
          /\ plan' = [plan EXCEPT ![r] =
                [insert |-> TRUE, status |-> FALSE, add |-> ls, detach |-> {}]]

CreateReceipt(r) == Create(r, "receipt")
CreateIssue(r) == Create(r, "issue")

\* A request of tenant t on d, of kind k: the document is not found or not in a
\* status the operation takes, or the request goes on with what it read.
OnDocument(r, k, what, allowed, next) ==
  /\ pc[r] = "idle"
  /\ \E d \in Documents, t \in Tenants :
       \/ d \notin OfTenant(t, k) /\ Refuse(r, "refused")
       \/ d \in OfTenant(t, k) /\ docs[d].status \notin allowed /\ Refuse(r, "refused")
       \/ /\ d \in OfTenant(t, k) /\ docs[d].status \in allowed
          /\ Open(r, what, d, [row |-> docs[d], lines |-> LinesOf(d)], next)
          /\ UNCHANGED plan

\* MUTANT of UpdatableStatuses: an update does not look at the status.
AnyStatus == Statuses
UpdatableStatuses == {"DRAFT"}
Update(r, k) ==
  \E how \in LineUpdates :
    OnDocument(r, k, how, UpdatableStatuses, IF how = "keep" THEN "select" ELSE "removeLines")

UpdateReceipt(r) == Update(r, "receipt")
UpdateIssue(r) == Update(r, "issue")

CompleteReceipt(r) == OnDocument(r, "receipt", "complete", {"DRAFT"}, "move")
CompleteIssue(r) == OnDocument(r, "issue", "complete", {"DRAFT"}, "move")

DeleteReceipt(r) == OnDocument(r, "receipt", "delete", Statuses \ {"COMPLETED"}, "remove")
DeleteIssue(r) == OnDocument(r, "issue", "delete", Statuses \ {"COMPLETED"}, "remove")

--------------------------------------------------------------------------------
(* Update and completion on the entity that was read.                         *)

\* lineRepository.remove(document.lines): those already gone are skipped.
RemoveLines(r) ==
  /\ pc[r] = "removeLines"
  /\ ~LinesLocked(r, held[r].lines)
  /\ gone' = [gone EXCEPT ![r] = {l \in held[r].lines : lines[l] # Null}]
  /\ held' = [held EXCEPT ![r].lines = IF op[r] = "clear" THEN {} ELSE {r}]
  /\ pc' = [pc EXCEPT ![r] = "select"]
  /\ UNCHANGED <<committed, raced, op, doc, plan, out>>

\* MUTANT of StatusOnCompletion: the wrong value of the enumeration.
CancelledOnCompletion == "CANCELLED"
StatusOnCompletion == "COMPLETED"

\* The stock moves in a second transaction.  A statement of it may fail; an issue
\* may find too little.
MoveStock(r) ==
  /\ pc[r] = "move"
  /\ \/ Refuse(r, "refused")
     \/ /\ held' = [held EXCEPT ![r].row.status = StatusOnCompletion]
        /\ pc' = [pc EXCEPT ![r] = "select"]
        /\ UNCHANGED <<committed, raced, op, doc, plan, gone, out>>

--------------------------------------------------------------------------------
(* save(): compare the entity with the database, then write the differences.  *)

SelectForSave(r) ==
  /\ pc[r] = "select"
  /\ LET d == doc[r]
         visible == LinesOf(d) \ gone[r]
     IN plan' = [plan EXCEPT ![r] =
          [insert |-> ~Exists(d),
           status |-> Exists(d) /\ docs[d].status # held[r].row.status,
           add |-> held[r].lines \ visible,
           detach |-> visible \ held[r].lines]]
  /\ pc' = [pc EXCEPT ![r] = "write"]
  /\ UNCHANGED <<committed, raced, op, doc, held, gone, out>>

\* The number is a duplicate.  The id is: of the row, of a line.  A line is
\* inserted under no document.  A detached line is there, and must have one.
Duplicate(r) == plan[r].insert /\ NumberTaken(doc[r], held[r].row)
ConstraintViolated(r) ==
  \/ plan[r].insert /\ Exists(doc[r])
  \/ \E l \in plan[r].add : lines[l] # Null /\ l \notin gone[r]
  \/ ~plan[r].insert /\ ~Exists(doc[r]) /\ plan[r].add # {}
  \/ \E l \in plan[r].detach : lines[l] # Null

\* An UPDATE of a row that is no longer there writes nothing.
RowWritten(r) ==
  IF plan[r].insert THEN held[r].row
  ELSE IF plan[r].status /\ Exists(doc[r])
         THEN [docs[doc[r]] EXCEPT !.status = held[r].row.status]
         ELSE docs[doc[r]]

Write(r) ==
  /\ pc[r] = "write"
  /\ ~RowLocked(r, doc[r])
  /\ ~LinesLocked(r, plan[r].add \cup plan[r].detach)
  /\ ~(plan[r].insert /\ NumberInUse(r, held[r].row))
  /\ \/ Duplicate(r) /\ Refuse(r, "conflict")
     \/ ~Duplicate(r) /\ ConstraintViolated(r) /\ Refuse(r, "refused")
     \/ /\ ~Duplicate(r) /\ ~ConstraintViolated(r)
        /\ out' = [out EXCEPT ![r] = [row |-> RowWritten(r), add |-> plan[r].add]]
        /\ pc' = [pc EXCEPT ![r] = "commit"]
        /\ UNCHANGED <<committed, raced, op, doc, held, plan, gone>>

\* MUTANT of Cascade: the lines stay.
NoCascade(d) == {}
\* repository.remove(document): the lines go with it, ON DELETE CASCADE.
Cascade(d) == LinesOf(d)
Remove(r) ==
  /\ pc[r] = "remove"
  /\ ~RowLocked(r, doc[r]) /\ ~LinesLocked(r, LinesOf(doc[r]))
  /\ gone' = [gone EXCEPT ![r] = Cascade(doc[r])]
  /\ out' = [out EXCEPT ![r] = [row |-> Null, add |-> {}]]
  /\ pc' = [pc EXCEPT ![r] = "commit"]
  /\ UNCHANGED <<committed, raced, op, doc, held, plan>>

\* The removal u has the row and waits for a line that r has deleted, and r
\* waits for the row: PostgreSQL rolls one of the two back.
Deadlock(r, u) ==
  /\ pc[r] = "write" /\ pc[u] = "remove" /\ doc[r] = doc[u]
  /\ ~RowLocked(u, doc[u]) /\ gone[r] \cap LinesOf(doc[r]) # {}
  /\ \E victim \in {r, u} : Refuse(victim, "refused")

Commit(r) ==
  /\ pc[r] = "commit"
  /\ docs' = [docs EXCEPT ![doc[r]] = out[r].row]
  /\ lines' = [l \in LineIds |-> IF l \in out[r].add THEN doc[r]
                                 ELSE IF l \in gone[r] THEN Null ELSE lines[l]]
  /\ moved' = [moved EXCEPT ![doc[r]] =
                 IF op[r] = "complete" THEN Append(@, held[r].lines) ELSE @]
  /\ Answer(r, "ok")
  /\ UNCHANGED raced

\* The server stops: the database rolls back what is not committed.
ServerCrash ==
  /\ \E r \in Requests : pc[r] \in Working
  /\ pc' = [r \in Requests |-> IF pc[r] \in Working THEN "lost" ELSE pc[r]]
  /\ op' = [r \in Requests |-> Null] /\ doc' = [r \in Requests |-> Null]
  /\ held' = [r \in Requests |-> Null] /\ plan' = [r \in Requests |-> Null]
  /\ gone' = [r \in Requests |-> {}] /\ out' = [r \in Requests |-> Null]
  /\ UNCHANGED <<committed, raced>>

--------------------------------------------------------------------------------

Init ==
  /\ \E k \in Kinds :
       docs = [d \in Documents |->
         IF d = Old THEN [kind |-> k, tenant |-> OldTenant, number |-> 1, status |-> "DRAFT"]
                    ELSE Null]
  /\ lines = [l \in LineIds |-> IF l = Old THEN Old ELSE Null]
  /\ moved = [d \in Documents |-> <<>>]
  /\ raced = {}
  /\ pc = [r \in Requests |-> "idle"]
  /\ op = [r \in Requests |-> Null] /\ doc = [r \in Requests |-> Null]
  /\ held = [r \in Requests |-> Null] /\ plan = [r \in Requests |-> Null]
  /\ gone = [r \in Requests |-> {}] /\ out = [r \in Requests |-> Null]

Receive(r) ==
  \/ CreateReceipt(r) \/ UpdateReceipt(r) \/ CompleteReceipt(r) \/ DeleteReceipt(r)
  \/ CreateIssue(r) \/ UpdateIssue(r) \/ CompleteIssue(r) \/ DeleteIssue(r)

Step(r) ==
  \/ RemoveLines(r) \/ MoveStock(r) \/ SelectForSave(r) \/ Write(r)
  \/ Remove(r) \/ Commit(r)

\* Every request has been answered.
Settled == (\A r \in Requests : pc[r] \in Answered) /\ UNCHANGED vars

Next ==
  \/ \E r \in Requests : Receive(r) \/ Step(r) \/ \E u \in Others(r) : Deadlock(r, u)
  \/ ServerCrash
  \/ Settled

Spec == Init /\ [][Next]_vars /\ \A r \in Requests : WF_vars(Step(r))

--------------------------------------------------------------------------------
(* What a reader of the code relies on.                                       *)

TypeOK ==
  /\ docs \in [Documents -> DocumentRows \cup {Null}]
  /\ lines \in [LineIds -> Documents \cup {Null}]
  /\ moved \in [Documents -> Seq(SUBSET LineIds)]
  /\ raced \subseteq Documents
  /\ pc \in [Requests -> {"idle"} \cup Working \cup Answered]
  /\ op \in [Requests -> Operations \cup {Null}]
  /\ doc \in [Requests -> Documents \cup {Null}]
  /\ held \in [Requests -> Entities \cup {Null}]
  /\ plan \in [Requests -> Plans \cup {Null}]
  /\ gone \in [Requests -> SUBSET LineIds]
  /\ out \in [Requests -> Outs \cup {Null}]

\* As long as no two requests were at work on a document at once, and none is
\* now, its status tells the stock: COMPLETED if and only if its stock was
\* moved, once, by exactly the lines it has; no stock was moved for a draft or
\* for a document that was deleted or never made.  Only the status checks of
\* the three handlers, each on the entity it read, keep it so.
StatusTellsStock ==
  \A d \in Documents \ raced :
    (\A r \in Requests : doc[r] # d) =>
      moved[d] = IF Exists(d) /\ docs[d].status = "COMPLETED"
                   THEN <<LinesOf(d)>> ELSE <<>>

\* Two committed receipts never have one number, nor two issues, although a
\* creation counts the rows of its own tenant in one step and inserts in a later
\* one, and an update may insert again, under its old number, a document deleted
\* meanwhile.
NumbersUnique ==
  \A d, e \in Documents :
    d # e /\ Exists(d) /\ Exists(e) => ~SameNumber(docs[d], docs[e])

\* Every line belongs to a document that exists, whatever an update that
\* replaces lines, a completion that writes back the lines it read and a
\* deletion do to one document at once.
LinesHaveDocuments == \A l \in LineIds : lines[l] # Null => Exists(lines[l])

\* Every request that was received is answered, or lost in a crash: the waits
\* for rows, lines and numbers of other transactions all end.
EveryRequestAnswered ==
  \A r \in Requests : pc[r] \in Working ~> pc[r] \in Answered

\* What inventory.controller.ts says of completion ("Receipt not in DRAFT
\* status." answers 400): the stock of a document moves at most once.
StockMovesOnce == \A d \in Documents : Len(moved[d]) <= 1
================================================================================
