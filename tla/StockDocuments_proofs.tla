------------------------- MODULE StockDocuments_proofs -------------------------
(* Theorems about StockDocuments: type correctness, unique numbers, no line   *)
(* without its document, and a status that tells whether the stock was moved. *)
EXTENDS StockDocuments, FiniteSetTheorems, TLAPS

USE DEF Working, Answered, Documents, LineIds, Exists, LinesOf, Others

(* What the invariants rest on.                                                *)


\* Where a request is, and what it then has in hand.
InOrder(r) ==
  /\ IF pc[r] \in Working
       THEN doc[r] \in Documents /\ held[r] \in Entities /\ op[r] \in Operations
       ELSE doc[r] = Null /\ held[r] = Null /\ gone[r] = {} /\ op[r] = Null
  /\ out[r] # Null <=> pc[r] = "commit"
  /\ pc[r] \in {"move", "remove"} => gone[r] = {}
  /\ pc[r] = "removeLines" => gone[r] = {} /\ op[r] \in LineUpdates
  /\ pc[r] = "move" => op[r] = "complete"
  /\ pc[r] = "select" => op[r] \in LineUpdates \cup {"complete"}
  /\ pc[r] = "write" => /\ op[r] \in LineUpdates \cup {"create", "complete"}
                        /\ plan[r] # Null /\ plan[r].add \subseteq held[r].lines
  /\ pc[r] = "remove" => op[r] = "delete"
  /\ pc[r] = "commit" => out[r].add \subseteq held[r].lines
WorkInOrder == \A r \in Requests : InOrder(r)

\* One transaction at most has written the row of a document.
OneWriter ==
  \A r, o \in Requests : r # o /\ out[r] # Null /\ out[o] # Null => doc[r] # doc[o]

\* A number in an uncommitted row is in no other row, committed or not.
RowOf(r) == IF out[r] = Null THEN Null ELSE out[r].row
NumbersReserved ==
  \A r \in Requests : RowOf(r) # Null =>
    /\ \A d \in Documents \ {doc[r]} : Exists(d) => ~SameNumber(RowOf(r), docs[d])
    /\ \A o \in Others(r) : RowOf(o) # Null => ~SameNumber(RowOf(r), RowOf(o))

\* What leaves no row leaves no line.
LinesGoWithRow ==
  \A r \in Requests : out[r] # Null /\ out[r].row = Null =>
    out[r].add = {} /\ LinesOf(doc[r]) \subseteq gone[r]

\* A request that has made nothing is the document or line of no one.
Touched(r) == (IF held[r] = Null THEN {} ELSE held[r].lines) \cup gone[r]
NamesAreFresh ==
  /\ \A r \in Requests : pc[r] = "idle" => ~Exists(r) /\ \A o \in Requests : doc[o] # r
  /\ \A r \in Requests : pc[r] \in {"idle", "removeLines"} =>
       lines[r] = Null /\ \A o \in Requests : r \notin Touched(o)

\* The lines a request holds or has deleted are of its document.
LinesStayHome ==
  \A r \in Requests : \A l \in Touched(r) :
    /\ lines[l] \in {Null, doc[r]}
    /\ \A o \in Requests : l \in Touched(o) => doc[o] = doc[r]

SharedIsRaced ==
  \A r, o \in Requests : r # o /\ doc[r] # Null /\ doc[r] = doc[o] => doc[r] \in raced

\* What a request knows that is alone with its document.
Alone(r) ==
  /\ IF op[r] = "create" THEN ~Exists(doc[r])
     ELSE Exists(doc[r]) /\ docs[doc[r]].status = "DRAFT"
  /\ op[r] \in LineUpdates \cup {"create"} => held[r].row.status = "DRAFT"
  /\ op[r] = "complete" =>
       /\ held[r].lines = LinesOf(doc[r]) /\ gone[r] = {}
       /\ pc[r] # "move" => held[r].row.status = "COMPLETED"
  /\ pc[r] = "write" =>
       /\ plan[r].insert <=> op[r] = "create"
       /\ plan[r].status <=> op[r] = "complete"
       /\ op[r] = "complete" => plan[r].add = {}
  /\ pc[r] = "commit" =>
       IF op[r] = "delete" THEN out[r].row = Null
       ELSE IF op[r] = "complete"
         THEN out[r].row # Null /\ out[r].row.status = "COMPLETED" /\ out[r].add = {}
         ELSE out[r].row # Null /\ out[r].row.status = "DRAFT"
AloneKnows == \A r \in Requests : pc[r] \in Working /\ doc[r] \notin raced => Alone(r)

\* StatusTellsStock, also of a document that a request is at work on.
Tells(d) ==
  moved[d] = IF Exists(d) /\ docs[d].status = "COMPLETED" THEN <<LinesOf(d)>> ELSE <<>>
AllTell == \A d \in Documents \ raced : Tells(d)

IInv ==
  /\ TypeOK /\ WorkInOrder /\ OneWriter
  /\ NumbersUnique /\ NumbersReserved
  /\ LinesHaveDocuments /\ LinesGoWithRow
  /\ NamesAreFresh /\ LinesStayHome /\ SharedIsRaced /\ AloneKnows /\ AllTell

--------------------------------------------------------------------------------
(* Steps that write nothing committed and no uncommitted row.                  *)

SameAs(o) ==
  /\ pc'[o] = pc[o] /\ op'[o] = op[o] /\ doc'[o] = doc[o] /\ held'[o] = held[o]
  /\ plan'[o] = plan[o] /\ gone'[o] = gone[o] /\ out'[o] = out[o]

\* What depends on the committed rows and the uncommitted ones alone.
LEMMA NothingWritten ==
  ASSUME IInv, NEW r \in Requests, UNCHANGED <<docs, lines, moved>>, raced \subseteq raced',
         out'[r] = Null, \A o \in Requests \ {r} : SameAs(o)
  PROVE  /\ OneWriter' /\ NumbersUnique' /\ NumbersReserved'
         /\ LinesHaveDocuments' /\ LinesGoWithRow' /\ AllTell'
<1>1. OneWriter'
  BY DEF IInv, OneWriter, SameAs
<1>2. NumbersUnique' /\ LinesHaveDocuments'
  BY DEF IInv, NumbersUnique, SameNumber, LinesHaveDocuments
<1>3. NumbersReserved'
  BY DEF IInv, NumbersReserved, RowOf, SameNumber, SameAs
<1>4. LinesGoWithRow'
  BY DEF IInv, LinesGoWithRow, SameAs
<1>5. AllTell'
  BY DEF IInv, AllTell, Tells
<1>6. QED
  BY <1>1, <1>2, <1>3, <1>4, <1>5

LEMMA RefuseKeeps ==
  ASSUME IInv, NEW r \in Requests, NEW how \in Answered, pc[r] \notin Answered, Refuse(r, how)
  PROVE  IInv'
<1> USE DEF Refuse, Answer, committed
<1>1. TypeOK'
  BY DEF IInv, TypeOK
<1>2. /\ pc'[r] = how /\ doc'[r] = Null /\ held'[r] = Null /\ gone'[r] = {}
      /\ out'[r] = Null /\ op'[r] = Null
      /\ UNCHANGED <<docs, lines, moved, raced>>
  BY DEF IInv, TypeOK
<1>3. \A o \in Requests \ {r} : SameAs(o)
  BY DEF IInv, TypeOK, SameAs
<1>4. WorkInOrder'
  BY <1>2, <1>3 DEF IInv, WorkInOrder, InOrder, SameAs
<1>5. Touched(r)' = {} /\ \A o \in Requests \ {r} : Touched(o)' = Touched(o)
  BY <1>2, <1>3 DEF Touched, SameAs
<1>6. NamesAreFresh'
  BY <1>2, <1>3, <1>5, ConstantsAssumption DEF IInv, NamesAreFresh, SameAs
<1>7. LinesStayHome'
  BY <1>2, <1>3, <1>5 DEF IInv, LinesStayHome, SameAs
<1>8. SharedIsRaced' /\ AloneKnows'
  BY <1>2, <1>3 DEF IInv, SharedIsRaced, AloneKnows, Alone, SameAs
<1>9. QED
  BY <1>1, <1>2, <1>3, <1>4, <1>6, <1>7, <1>8, NothingWritten DEF IInv

\* r begins: it is put on record where another request is at work.
LEMMA OpenKeeps ==
  ASSUME IInv, NEW r \in Requests, pc[r] = "idle",
         NEW what \in Operations, NEW d \in Documents, NEW entity \in Entities,
         NEW next \in Working \ {"commit"}, Open(r, what, d, entity, next),
         plan' \in [Requests -> Plans \cup {Null}],
         \A o \in Others(r) : plan'[o] = plan[o],
         InOrder(r)',
         \A o \in Requests : o # r => o # d \/ pc[o] # "idle",
         \A l \in entity.lines :
           \/ lines[l] = d
           \/ l = r /\ d = r /\ lines[l] = Null,
         d \notin raced' => Alone(r)',
         next = "removeLines" => lines[r] = Null /\ r \notin entity.lines
  PROVE  IInv'
<1> USE DEF Open, committed
<1>1. TypeOK'
  BY DEF IInv, TypeOK
<1>2. /\ pc'[r] = next /\ doc'[r] = d /\ held'[r] = entity /\ gone'[r] = {}
      /\ out'[r] = Null /\ op'[r] = what /\ gone[r] = {} /\ doc[r] = Null
      /\ UNCHANGED <<docs, lines, moved>> /\ raced \subseteq raced'
  BY DEF IInv, TypeOK, WorkInOrder, InOrder
<1>3. \A o \in Requests \ {r} : SameAs(o)
  BY DEF IInv, TypeOK, SameAs
<1>4. WorkInOrder'
  BY <1>2, <1>3 DEF IInv, WorkInOrder, InOrder, SameAs
<1>5. entity # Null
  BY ConstantsAssumption
<1>6. Touched(r)' = entity.lines /\ \A o \in Requests \ {r} : Touched(o)' = Touched(o)
  BY <1>2, <1>3, <1>5 DEF Touched, SameAs
<1>7. NamesAreFresh'
  BY <1>2, <1>3, <1>6, ConstantsAssumption DEF IInv, NamesAreFresh, SameAs
<1>8. LinesStayHome'
  <2>1. \A o \in Requests \ {r} : \A l \in Touched(o) : l \in entity.lines => doc[o] = d
    BY <1>5, ConstantsAssumption DEF IInv, LinesStayHome, NamesAreFresh, Entities
  <2>2. QED
    BY <1>2, <1>3, <1>6, <2>1 DEF IInv, LinesStayHome, SameAs
<1>9. SharedIsRaced'
  BY <1>2, <1>3 DEF IInv, SharedIsRaced, SameAs
<1>10. AloneKnows'
  BY <1>2, <1>3 DEF IInv, AloneKnows, Alone, SameAs
<1>11. QED
  BY <1>1, <1>2, <1>3, <1>4, <1>7, <1>8, <1>9, <1>10, NothingWritten DEF IInv

LEMMA CreateKeeps ==
  ASSUME IInv, NEW r \in Requests, NEW k \in Kinds, Create(r, k)
  PROVE  IInv'
<1>1. pc[r] = "idle"
  BY DEF Create
<1>2. CASE Refuse(r, "refused")
  BY <1>1, <1>2, RefuseKeeps
<1>3. CASE ~Refuse(r, "refused")
  <2> DEFINE Row(t) == [kind |-> k, tenant |-> t, number |-> Cardinality(OfTenant(t, k)) + 1,
                        status |-> "DRAFT"]
             New(t, ls) == [row |-> Row(t), lines |-> ls]
             ToDo(ls) == [insert |-> TRUE, status |-> FALSE, add |-> ls, detach |-> {}]
  <2>1. PICK t \in Tenants, ls \in {{}, {r}} :
          /\ Open(r, "create", r, New(t, ls), "write")
          /\ plan' = [plan EXCEPT ![r] = ToDo(ls)]
    BY <1>3 DEF Create
  <2> HIDE DEF Row, New, ToDo
  <2>2. Row(t) \in DocumentRows /\ Row(t).status = "DRAFT"
    <3>1. IsFiniteSet(Documents)
      BY ConstantsAssumption, FS_AddElement
    <3>2. Cardinality(OfTenant(t, k)) \in Nat
      BY <3>1, FS_Subset, FS_CardinalityType DEF OfTenant
    <3>3. QED
      BY <3>2 DEF Row, DocumentRows, Statuses
  <2>3. /\ New(t, ls) \in Entities /\ New(t, ls).lines = ls /\ New(t, ls).row = Row(t)
        /\ New(t, ls).lines \subseteq {r}
    BY <2>2 DEF New, Entities
  <2>4. /\ ToDo(ls) \in Plans /\ ToDo(ls) # Null /\ ToDo(ls).add = ls
        /\ ToDo(ls).insert = TRUE /\ ToDo(ls).status = FALSE
    <3>1. ToDo(ls) \in Plans
      BY DEF ToDo, Plans
    <3>2. ToDo(ls) # Null
      BY <3>1, ConstantsAssumption
    <3>3. QED
      BY <3>1, <3>2 DEF ToDo
  <2>5. /\ plan' \in [Requests -> Plans \cup {Null}] /\ plan'[r] = ToDo(ls)
        /\ \A o \in Others(r) : plan'[o] = plan[o]
    BY <2>1, <2>4 DEF IInv, TypeOK
  <2>6. /\ pc'[r] = "write" /\ doc'[r] = r /\ op'[r] = "create" /\ held'[r] = New(t, ls)
        /\ out'[r] = Null /\ gone'[r] = {} /\ UNCHANGED <<docs, lines>>
    BY <2>1, <1>1 DEF Open, committed, IInv, TypeOK, WorkInOrder, InOrder
  <2>7. InOrder(r)'
    BY <2>3, <2>4, <2>5, <2>6 DEF InOrder, Operations
  <2>8. lines[r] = Null /\ docs[r] = Null
    BY <1>1 DEF IInv, NamesAreFresh
  <2>9. Alone(r)'
    BY <2>2, <2>3, <2>4, <2>5, <2>6, <2>8 DEF Alone, LineUpdates
  <2>10. \A l \in New(t, ls).lines : l = r /\ lines[l] = Null
    BY <2>3, <2>8
  <2>11. "create" \in Operations /\ "write" \in Working \ {"commit"}
    BY DEF Operations
  <2>12. QED
    BY <1>1, <2>1, <2>3, <2>5, <2>7, <2>9, <2>10, <2>11, OpenKeeps
<1>4. QED
  BY <1>2, <1>3

LEMMA OnDocumentKeeps ==
  ASSUME IInv, NEW r \in Requests, NEW k \in Kinds, NEW what \in Operations,
         NEW allowed \in SUBSET Statuses, NEW next \in Working,
         OnDocument(r, k, what, allowed, next),
         "COMPLETED" \notin allowed,
         \/ what \in LineUpdates /\ next = IF what = "keep" THEN "select" ELSE "removeLines"
         \/ what = "complete" /\ next = "move"
         \/ what = "delete" /\ next = "remove"
  PROVE  IInv'
<1>1. pc[r] = "idle"
  BY DEF OnDocument
<1>2. CASE Refuse(r, "refused")
  BY <1>1, <1>2, RefuseKeeps
<1>3. CASE ~Refuse(r, "refused")
  <2> DEFINE Read(d) == [row |-> docs[d], lines |-> LinesOf(d)]
  <2>1. PICK d \in Documents, t \in Tenants :
          /\ d \in OfTenant(t, k) /\ docs[d].status \in allowed
          /\ Open(r, what, d, Read(d), next) /\ UNCHANGED plan
    BY <1>3 DEF OnDocument
  <2> HIDE DEF Read
  <2>2. Exists(d) /\ docs[d] \in DocumentRows
    BY <2>1 DEF OfTenant, IInv, TypeOK
  <2>3. docs[d].status = "DRAFT"
    BY <2>1 DEF Statuses
  <2>4. Read(d) \in Entities /\ Read(d).row = docs[d] /\ Read(d).lines = LinesOf(d)
    BY <2>2 DEF Read, Entities
  <2>5. /\ pc'[r] = next /\ doc'[r] = d /\ op'[r] = what /\ held'[r] = Read(d)
        /\ out'[r] = Null /\ gone'[r] = {} /\ UNCHANGED <<docs, lines>>
    BY <2>1, <1>1 DEF Open, committed, IInv, TypeOK, WorkInOrder, InOrder
  <2>6. InOrder(r)' /\ next # "commit" /\ next # "write"
    BY <2>4, <2>5 DEF InOrder, LineUpdates
  <2>7. Alone(r)'
    BY <2>2, <2>3, <2>4, <2>5, <2>6 DEF Alone, LineUpdates
  <2>8. lines[r] = Null
    BY <1>1 DEF IInv, NamesAreFresh
  <2>9. /\ \A o \in Requests : o # r => o # d \/ pc[o] # "idle"
        /\ r \notin LinesOf(d) /\ \A l \in LinesOf(d) : lines[l] = d
    BY <2>2, <2>8, ConstantsAssumption DEF IInv, NamesAreFresh
  <2>10. plan' \in [Requests -> Plans \cup {Null}] /\ \A o \in Others(r) : plan'[o] = plan[o]
    BY <2>1 DEF IInv, TypeOK
  <2>11. QED
    BY <1>1, <2>1, <2>4, <2>6, <2>7, <2>8, <2>9, <2>10, OpenKeeps
<1>4. QED
  BY <1>2, <1>3

LEMMA ReceiveKeeps ==
  ASSUME IInv, NEW r \in Requests, Receive(r)
  PROVE  IInv'
<1> "receipt" \in Kinds /\ "issue" \in Kinds
  BY DEF Kinds
<1>1. ASSUME NEW k \in Kinds, Create(r, k)
      PROVE  IInv'
  BY <1>1, CreateKeeps
<1>2. ASSUME NEW k \in Kinds, Update(r, k)
      PROVE  IInv'
  <2>1. PICK how \in LineUpdates :
          OnDocument(r, k, how, UpdatableStatuses, IF how = "keep" THEN "select" ELSE "removeLines")
    BY <1>2 DEF Update
  <2>2. QED
    BY <2>1, OnDocumentKeeps DEF Operations, UpdatableStatuses, Statuses
<1>3. ASSUME NEW k \in Kinds, OnDocument(r, k, "complete", {"DRAFT"}, "move")
      PROVE  IInv'
  BY <1>3, OnDocumentKeeps DEF Operations, Statuses
<1>4. ASSUME NEW k \in Kinds, OnDocument(r, k, "delete", Statuses \ {"COMPLETED"}, "remove")
      PROVE  IInv'
  BY <1>4, OnDocumentKeeps DEF Operations
<1>5. QED
  BY <1>1, <1>2, <1>3, <1>4
     DEF Receive, CreateReceipt, CreateIssue, UpdateReceipt, UpdateIssue, CompleteReceipt,
         CompleteIssue, DeleteReceipt, DeleteIssue

\* r goes on with the document it is at work on.
LEMMA GoOnKeeps ==
  ASSUME IInv, NEW r \in Requests, pc[r] \in Working \ {"commit"}, TypeOK',
         UNCHANGED <<docs, lines, moved, raced, op, doc, out>>,
         \A o \in Requests \ {r} : SameAs(o),
         pc'[r] \in Working \ {"commit", "removeLines"}, InOrder(r)',
         \/ Touched(r)' \subseteq Touched(r)
         \/ pc[r] = "removeLines" /\ Touched(r)' \subseteq Touched(r) \cup {r},
         doc[r] \notin raced => Alone(r)'
  PROVE  IInv'
<1>1. out'[r] = Null
  BY DEF IInv, WorkInOrder, InOrder
<1>2. \A o \in Requests \ {r} : Touched(o)' = Touched(o)
  BY DEF Touched, SameAs
<1>3. WorkInOrder'
  BY DEF IInv, WorkInOrder, InOrder, SameAs
<1>4. NamesAreFresh'
  <2>1. \A o \in Requests : pc'[o] = "idle" => pc[o] = "idle" /\ o # r
    BY DEF SameAs
  <2>2. \A o \in Requests : pc'[o] \in {"idle", "removeLines"} => pc'[o] = pc[o] /\ o # r
    BY DEF SameAs
  <2>3. QED
    BY <1>2, <2>1, <2>2 DEF IInv, NamesAreFresh
<1>5. LinesStayHome'
  <2>1. CASE Touched(r)' \subseteq Touched(r)
    BY <1>2, <2>1 DEF IInv, LinesStayHome
  <2>2. CASE pc[r] = "removeLines" /\ Touched(r)' \subseteq Touched(r) \cup {r}
    <3>1. lines[r] = Null /\ \A o \in Requests : r \notin Touched(o)
      BY <2>2 DEF IInv, NamesAreFresh
    <3>2. QED
      BY <1>2, <2>2, <3>1 DEF IInv, LinesStayHome
  <2>3. QED
    BY <2>1, <2>2
<1>6. SharedIsRaced'
  BY DEF IInv, SharedIsRaced
<1>7. AloneKnows'
  <2>1. \A o \in Requests \ {r} : Alone(o)' <=> Alone(o)
    BY DEF Alone, SameAs
  <2>2. QED
    BY <2>1 DEF IInv, AloneKnows, SameAs
<1>8. QED
  BY <1>1, <1>3, <1>4, <1>5, <1>6, <1>7, NothingWritten DEF IInv

LEMMA RemoveLinesKeeps ==
  ASSUME IInv, NEW r \in Requests, RemoveLines(r)
  PROVE  IInv'
<1> USE DEF RemoveLines, committed
<1> DEFINE new == IF op[r] = "clear" THEN {} ELSE {r}
<1>1. /\ held[r] \in Entities /\ held[r] # Null /\ gone[r] = {} /\ op[r] \in LineUpdates
      /\ doc[r] \in Documents /\ out[r] = Null
  BY ConstantsAssumption DEF IInv, WorkInOrder, InOrder
<1>2. /\ held'[r] = [held[r] EXCEPT !.lines = new] /\ held'[r] \in Entities
      /\ held'[r].lines = new /\ held'[r].row = held[r].row /\ held'[r] # Null
  <2>1. held'[r] = [held[r] EXCEPT !.lines = new]
    BY DEF IInv, TypeOK
  <2>2. new \in SUBSET LineIds
    OBVIOUS
  <2>3. held'[r] \in Entities /\ held'[r].lines = new /\ held'[r].row = held[r].row
    BY <1>1, <2>1, <2>2 DEF Entities
  <2>4. QED
    BY <2>1, <2>3, ConstantsAssumption
<1>3. /\ gone'[r] = {l \in held[r].lines : lines[l] # Null} /\ pc'[r] = "select"
      /\ held[r].lines \subseteq LineIds
  BY <1>1 DEF IInv, TypeOK, Entities
<1>4. TypeOK'
  BY <1>2, <1>3 DEF IInv, TypeOK
<1>5. \A o \in Requests \ {r} : SameAs(o)
  BY DEF IInv, TypeOK, SameAs
<1>6. InOrder(r)'
  BY <1>1, <1>2, <1>3 DEF InOrder, Operations
<1>7. Touched(r)' \subseteq Touched(r) \cup {r}
  BY <1>1, <1>2, <1>3 DEF Touched
<1>8. doc[r] \notin raced => Alone(r)'
  BY <1>1, <1>2, <1>3 DEF IInv, AloneKnows, Alone, LineUpdates
<1>9. QED
  BY <1>3, <1>4, <1>5, <1>6, <1>7, <1>8, GoOnKeeps

LEMMA MoveStockKeeps ==
  ASSUME IInv, NEW r \in Requests, MoveStock(r)
  PROVE  IInv'
<1> USE DEF MoveStock, committed
<1>1. CASE Refuse(r, "refused")
  BY <1>1, RefuseKeeps
<1>2. CASE ~Refuse(r, "refused")
  <2>1. /\ held[r] \in Entities /\ held[r] # Null /\ gone[r] = {} /\ op[r] = "complete"
        /\ doc[r] \in Documents /\ out[r] = Null
    BY ConstantsAssumption DEF IInv, WorkInOrder, InOrder
  <2>2. held'[r] = [held[r] EXCEPT !.row.status = "COMPLETED"]
    BY <1>2 DEF IInv, TypeOK, StatusOnCompletion
  <2>3. /\ held'[r] \in Entities /\ held'[r].lines = held[r].lines
        /\ held'[r].row.status = "COMPLETED" /\ held'[r] # Null
    <3>1. [held[r].row EXCEPT !.status = "COMPLETED"] \in DocumentRows
      BY <2>1 DEF Entities, DocumentRows, Statuses
    <3>2. held'[r] \in Entities
      BY <2>1, <2>2, <3>1 DEF Entities
    <3>3. held'[r].lines = held[r].lines /\ held'[r].row = [held[r].row EXCEPT !.status = "COMPLETED"]
      BY <2>1, <2>2 DEF Entities
    <3>4. held'[r].row.status = "COMPLETED"
      BY <2>1, <3>3 DEF Entities, DocumentRows
    <3>5. QED
      BY <3>2, <3>3, <3>4, ConstantsAssumption
  <2>4. TypeOK' /\ pc'[r] = "select" /\ gone'[r] = {}
    BY <1>2, <2>1, <2>3 DEF IInv, TypeOK
  <2>5. \A o \in Requests \ {r} : SameAs(o)
    BY <1>2 DEF IInv, TypeOK, SameAs
  <2>6. InOrder(r)'
    BY <1>2, <2>1, <2>3, <2>4 DEF InOrder, Operations
  <2>7. Touched(r)' \subseteq Touched(r)
    BY <1>2, <2>1, <2>3 DEF Touched
  <2>8. doc[r] \notin raced => Alone(r)'
    BY <1>2, <2>1, <2>3, <2>4 DEF IInv, AloneKnows, Alone, LineUpdates
  <2>9. QED
    BY <1>2, <2>4, <2>5, <2>6, <2>7, <2>8, GoOnKeeps
<1>3. QED
  BY <1>1, <1>2

LEMMA SelectForSaveKeeps ==
  ASSUME IInv, NEW r \in Requests, SelectForSave(r)
  PROVE  IInv'
<1> USE DEF SelectForSave, committed
<1>1. /\ held[r] \in Entities /\ held[r] # Null /\ op[r] \in LineUpdates \cup {"complete"}
      /\ doc[r] \in Documents /\ out[r] = Null
  BY ConstantsAssumption DEF IInv, WorkInOrder, InOrder
<1> DEFINE visible == LinesOf(doc[r]) \ gone[r]
           found == [insert |-> ~Exists(doc[r]),
                     status |-> Exists(doc[r]) /\ docs[doc[r]].status # held[r].row.status,
                     add |-> held[r].lines \ visible,
                     detach |-> visible \ held[r].lines]
<1>2. plan'[r] = found /\ pc'[r] = "write"
  BY DEF IInv, TypeOK
<1>3. found \in Plans /\ found # Null
  <2>1. found \in Plans
    BY <1>1 DEF Plans, Entities
  <2>2. QED
    BY <2>1, ConstantsAssumption
<1>4. TypeOK'
  BY <1>2, <1>3 DEF IInv, TypeOK
<1>5. \A o \in Requests \ {r} : SameAs(o)
  BY DEF IInv, TypeOK, SameAs
<1>6. InOrder(r)'
  BY <1>1, <1>2, <1>3 DEF InOrder, Operations
<1>7. Touched(r)' \subseteq Touched(r)
  BY DEF Touched
<1>8. ASSUME doc[r] \notin raced
      PROVE  Alone(r)'
  <2>1. Alone(r)
    BY <1>8 DEF IInv, AloneKnows
  <2>2. /\ Exists(doc[r]) /\ docs[doc[r]].status = "DRAFT"
        /\ op[r] = "complete" => held[r].lines = visible /\ held[r].row.status = "COMPLETED"
        /\ op[r] # "complete" => held[r].row.status = "DRAFT"
    BY <1>1, <2>1 DEF Alone, LineUpdates
  <2>3. /\ ~found.insert /\ found.status = (op[r] = "complete")
        /\ op[r] = "complete" => found.add = {}
    BY <2>2
  <2>4. QED
    BY <1>1, <1>2, <2>1, <2>3 DEF Alone, LineUpdates
<1>9. QED
  BY <1>2, <1>4, <1>5, <1>6, <1>7, <1>8, GoOnKeeps

--------------------------------------------------------------------------------
(* Steps that write the row.                                                    *)

LEMMA WriteRowKeeps ==
  ASSUME IInv, NEW r \in Requests, pc[r] \in {"write", "remove"}, ~RowLocked(r, doc[r]),
         pc' = [pc EXCEPT ![r] = "commit"], UNCHANGED <<docs, lines, moved, raced, op, doc, held, plan>>,
         NEW new \in Outs, out' = [out EXCEPT ![r] = new],
         NEW taken \in SUBSET (gone[r] \cup LinesOf(doc[r])), gone' = [gone EXCEPT ![r] = taken],
         new.add \subseteq held[r].lines,
         new.row # Null =>
           /\ \A d \in Documents \ {doc[r]} : Exists(d) => ~SameNumber(new.row, docs[d])
           /\ \A o \in Others(r) : RowOf(o) # Null => ~SameNumber(new.row, RowOf(o)),
         new.row = Null => new.add = {} /\ LinesOf(doc[r]) \subseteq taken,
         doc[r] \notin raced => Alone(r)'
  PROVE  IInv'
<1>1. new # Null
  BY ConstantsAssumption
<1>2. /\ pc'[r] = "commit" /\ out'[r] = new /\ gone'[r] = taken
      /\ doc[r] \in Documents /\ held[r] \in Entities /\ op[r] \in Operations /\ out[r] = Null
  BY DEF IInv, TypeOK, WorkInOrder, InOrder
<1>3. \A o \in Requests \ {r} : SameAs(o)
  BY DEF IInv, TypeOK, SameAs
<1>4. TypeOK'
  BY DEF IInv, TypeOK
<1>5. WorkInOrder'
  BY <1>1, <1>2, <1>3 DEF IInv, WorkInOrder, InOrder, SameAs
<1>6. OneWriter'
  BY <1>2, <1>3 DEF IInv, OneWriter, RowLocked, SameAs
<1>7. NumbersUnique' /\ LinesHaveDocuments'
  BY DEF IInv, NumbersUnique, SameNumber, LinesHaveDocuments
<1>8. NumbersReserved'
  <2>1. RowOf(r)' = new.row /\ \A o \in Others(r) : RowOf(o)' = RowOf(o)
    BY <1>1, <1>2, <1>3 DEF RowOf, SameAs
  <2>2. ASSUME NEW o \in Requests, RowOf(o)' # Null
        PROVE  /\ \A d \in Documents \ {doc[o]} : Exists(d) => ~SameNumber(RowOf(o)', docs[d])
               /\ \A p \in Others(o) : RowOf(p)' # Null => ~SameNumber(RowOf(o)', RowOf(p)')
    BY <2>1, <2>2 DEF IInv, NumbersReserved, SameNumber
  <2>3. QED
    BY <2>2 DEF NumbersReserved, SameNumber
<1>9. LinesGoWithRow'
  BY <1>2, <1>3 DEF IInv, LinesGoWithRow, SameAs
<1>10. /\ Touched(r)' \subseteq Touched(r) \cup LinesOf(doc[r])
       /\ \A o \in Requests \ {r} : Touched(o)' = Touched(o)
  BY <1>2, <1>3 DEF Touched, SameAs
<1>11. NamesAreFresh'
  BY <1>2, <1>3, <1>10, ConstantsAssumption DEF IInv, NamesAreFresh, SameAs
<1>12. LinesStayHome'
  BY <1>2, <1>3, <1>10, ConstantsAssumption DEF IInv, LinesStayHome, SameAs
<1>13. SharedIsRaced'
  BY DEF IInv, SharedIsRaced
<1>14. AloneKnows'
  <2>1. \A o \in Requests \ {r} : Alone(o)' <=> Alone(o)
    BY <1>3 DEF Alone, SameAs
  <2>2. QED
    BY <1>2, <1>3, <2>1 DEF IInv, AloneKnows, SameAs
<1>15. AllTell'
  BY DEF IInv, AllTell, Tells
<1>16. QED
  BY <1>4, <1>5, <1>6, <1>7, <1>8, <1>9, <1>11, <1>12, <1>13, <1>14, <1>15 DEF IInv

LEMMA WriteKeeps ==
  ASSUME IInv, NEW r \in Requests, Write(r)
  PROVE  IInv'
<1> USE DEF Write
<1>1. CASE \E how \in {"conflict", "refused"} : Refuse(r, how)
  BY <1>1, RefuseKeeps
<1>2. CASE ~\E how \in {"conflict", "refused"} : Refuse(r, how)
  <2> DEFINE new == [row |-> RowWritten(r), add |-> plan[r].add]
  <2>1. /\ ~Duplicate(r) /\ ~ConstraintViolated(r) /\ ~RowLocked(r, doc[r])
        /\ pc' = [pc EXCEPT ![r] = "commit"] /\ out' = [out EXCEPT ![r] = new]
        /\ UNCHANGED <<docs, lines, moved, raced, op, doc, held, plan, gone>>
        /\ plan[r].insert => ~NumberInUse(r, held[r].row)
    BY <1>2 DEF committed
  <2>2. /\ held[r] \in Entities /\ plan[r] \in Plans /\ doc[r] \in Documents
        /\ op[r] \in LineUpdates \cup {"create", "complete"}
        /\ plan[r].add \subseteq held[r].lines /\ out[r] = Null
    BY DEF IInv, TypeOK, WorkInOrder, InOrder
  <2>3. /\ plan[r].insert \in BOOLEAN /\ plan[r].status \in BOOLEAN
        /\ plan[r].add \in SUBSET LineIds /\ held[r].row \in DocumentRows
    BY <2>2 DEF Plans, Entities
  <2>4. RowWritten(r) \in DocumentRows \cup {Null}
    <3>1. Exists(doc[r]) => [docs[doc[r]] EXCEPT !.status = held[r].row.status] \in DocumentRows
      BY <2>2, <2>3 DEF IInv, TypeOK, DocumentRows
    <3>2. QED
      BY <2>2, <2>3, <3>1 DEF RowWritten, IInv, TypeOK
  <2>5. ~plan[r].insert /\ Exists(doc[r]) => RowWritten(r) # Null /\ SameNumber(RowWritten(r), docs[doc[r]])
    <3>1. Exists(doc[r]) =>
            SameNumber([docs[doc[r]] EXCEPT !.status = held[r].row.status], docs[doc[r]])
      BY <2>2 DEF SameNumber, IInv, TypeOK, DocumentRows
    <3>2. Exists(doc[r]) => [docs[doc[r]] EXCEPT !.status = held[r].row.status] \in DocumentRows
      BY <2>2, <2>3 DEF IInv, TypeOK, DocumentRows
    <3>3. QED
      BY <3>1, <3>2, ConstantsAssumption DEF RowWritten, SameNumber
  <2>6. /\ plan[r].insert => RowWritten(r) = held[r].row
        /\ ~plan[r].insert /\ ~Exists(doc[r]) => RowWritten(r) = Null
    BY DEF RowWritten
  <2>7. new \in Outs /\ new.row = RowWritten(r) /\ new.add = plan[r].add
    BY <2>3, <2>4 DEF Outs
  <2>8. ASSUME new.row # Null
        PROVE  /\ \A d \in Documents \ {doc[r]} : Exists(d) => ~SameNumber(new.row, docs[d])
               /\ \A o \in Others(r) : RowOf(o) # Null => ~SameNumber(new.row, RowOf(o))
    <3>1. CASE plan[r].insert
      BY <2>1, <2>6, <3>1 DEF Duplicate, NumberTaken, NumberInUse, RowOf, SameNumber
    <3>2. CASE ~plan[r].insert
      <4>1. Exists(doc[r]) /\ SameNumber(RowWritten(r), docs[doc[r]])
        BY <2>5, <2>6, <2>8, <3>2
      <4>2. \A o \in Others(r) : RowOf(o) # Null => doc[o] # doc[r]
        BY <2>1 DEF RowLocked, RowOf
      <4>3. QED
        BY <2>2, <4>1, <4>2 DEF IInv, NumbersUnique, NumbersReserved, SameNumber
    <3>3. QED
      BY <3>1, <3>2
  <2>9. new.row = Null => new.add = {} /\ LinesOf(doc[r]) \subseteq gone[r]
    <3>1. new.row = Null => ~plan[r].insert /\ ~Exists(doc[r])
      BY <2>3, <2>5, <2>6, ConstantsAssumption
    <3>2. ~Exists(doc[r]) => LinesOf(doc[r]) = {}
      BY <2>2, ConstantsAssumption DEF IInv, LinesHaveDocuments
    <3>3. QED
      BY <2>1, <3>1, <3>2 DEF ConstraintViolated
  <2>10. ASSUME doc[r] \notin raced
         PROVE  Alone(r)'
    <3>1. Alone(r)
      BY <2>10 DEF IInv, AloneKnows
    <3>2. out'[r] = new /\ pc'[r] = "commit" /\ RowWritten(r) = new.row
      BY <2>1 DEF IInv, TypeOK
    <3>3. /\ op[r] = "complete" => new.row # Null /\ new.row.status = "COMPLETED" /\ new.add = {}
          /\ op[r] # "complete" => new.row # Null /\ new.row.status = "DRAFT"
      <4>1. CASE op[r] = "create"
        BY <2>3, <2>6, <3>1, <4>1, ConstantsAssumption DEF Alone
      <4>2. CASE op[r] = "complete"
        <5>1. /\ Exists(doc[r]) /\ ~plan[r].insert /\ plan[r].status /\ plan[r].add = {}
              /\ held[r].row.status = "COMPLETED"
          BY <3>1, <4>2 DEF Alone
        <5>2. RowWritten(r) = [docs[doc[r]] EXCEPT !.status = "COMPLETED"]
          BY <5>1 DEF RowWritten
        <5>3. RowWritten(r).status = "COMPLETED"
          BY <2>2, <5>1, <5>2 DEF IInv, TypeOK, DocumentRows
        <5>4. QED
          BY <2>5, <4>2, <5>1, <5>3
      <4>3. CASE op[r] \in LineUpdates
        <5>1. /\ Exists(doc[r]) /\ ~plan[r].insert /\ ~plan[r].status
              /\ docs[doc[r]].status = "DRAFT" /\ op[r] # "complete"
          BY <3>1, <4>3 DEF Alone, LineUpdates
        <5>2. RowWritten(r) = docs[doc[r]]
          BY <5>1 DEF RowWritten
        <5>3. QED
          BY <5>1, <5>2
      <4>4. QED
        BY <2>2, <4>1, <4>2, <4>3
    <3>4. QED
      BY <2>1, <2>2, <3>1, <3>2, <3>3 DEF Alone, LineUpdates
  <2>11. gone' = [gone EXCEPT ![r] = gone[r]] /\ gone[r] \in SUBSET (gone[r] \cup LinesOf(doc[r]))
    BY <2>1 DEF IInv, TypeOK
  <2>12. pc[r] \in {"write", "remove"} /\ new.add \subseteq held[r].lines
    BY <2>2, <2>7
  <2> HIDE DEF new, Write
  <2>13. QED
    BY <2>1, <2>7, <2>8, <2>9, <2>10, <2>11, <2>12, WriteRowKeeps
<1>3. QED
  BY <1>1, <1>2

LEMMA RemoveKeeps ==
  ASSUME IInv, NEW r \in Requests, Remove(r)
  PROVE  IInv'
<1> USE DEF Remove, committed
<1> DEFINE new == [row |-> Null, add |-> {}]
<1>1. new \in Outs /\ new.row = Null /\ new.add = {}
  BY DEF Outs
<1>2. gone' = [gone EXCEPT ![r] = LinesOf(doc[r])]
  BY DEF Cascade
<1>3. op[r] = "delete" /\ out'[r] = new /\ pc'[r] = "commit"
  BY DEF IInv, TypeOK, WorkInOrder, InOrder
<1>4. doc[r] \notin raced => Alone(r)'
  BY <1>1, <1>3 DEF IInv, AloneKnows, Alone, LineUpdates
<1>5. QED
  BY <1>1, <1>2, <1>4, WriteRowKeeps

--------------------------------------------------------------------------------
(* Commit, and the crash.                                                       *)

LEMMA CommitKeeps ==
  ASSUME IInv, NEW r \in Requests, Commit(r)
  PROVE  IInv'
<1> USE DEF Commit, Answer
<1>0. PICK d \in Documents : d = doc[r] /\ d # Null
  BY ConstantsAssumption DEF IInv, WorkInOrder, InOrder
<1>1. /\ d = doc[r] /\ d \in Documents /\ d # Null /\ held[r] \in Entities /\ op[r] \in Operations
      /\ out[r] \in Outs /\ out[r] # Null /\ out[r].add \subseteq held[r].lines
      /\ RowOf(r) = out[r].row /\ pc[r] = "commit"
  BY <1>0, ConstantsAssumption DEF IInv, TypeOK, WorkInOrder, InOrder, RowOf
<1>2. /\ out[r].row \in DocumentRows \cup {Null} /\ out[r].add \in SUBSET LineIds
      /\ held[r].lines \in SUBSET LineIds
  BY <1>1 DEF Outs, Entities
<1>3. /\ docs'[d] = out[r].row /\ \A e \in Documents \ {d} : docs'[e] = docs[e]
      /\ \A e \in Documents \ {d} : moved'[e] = moved[e]
      /\ moved'[d] = IF op[r] = "complete" THEN Append(moved[d], held[r].lines) ELSE moved[d]
      /\ raced' = raced
  BY <1>1 DEF IInv, TypeOK
<1>4. \A l \in LineIds : lines'[l] = IF l \in out[r].add THEN d
                                     ELSE IF l \in gone[r] THEN Null ELSE lines[l]
  BY <1>0
<1>5. /\ pc'[r] = "ok" /\ doc'[r] = Null /\ held'[r] = Null /\ gone'[r] = {}
      /\ out'[r] = Null /\ op'[r] = Null
      /\ \A o \in Requests \ {r} : SameAs(o)
  BY DEF IInv, TypeOK, SameAs
<1> HIDE DEF Commit, Answer
<1>6. TypeOK'
  <2>1. docs' \in [Documents -> DocumentRows \cup {Null}]
    BY <1>2 DEF IInv, TypeOK, Commit
  <2>2. lines' \in [LineIds -> Documents \cup {Null}]
    BY <1>1 DEF IInv, TypeOK, Commit
  <2>3. moved' \in [Documents -> Seq(SUBSET LineIds)]
    BY <1>1, <1>2 DEF IInv, TypeOK, Commit
  <2>4. QED
    BY <2>1, <2>2, <2>3 DEF IInv, TypeOK, Commit, Answer
<1>7. WorkInOrder'
  BY <1>5 DEF IInv, WorkInOrder, InOrder, SameAs
<1>8. OneWriter'
  BY <1>5 DEF IInv, OneWriter, SameAs
<1>9. NumbersUnique'
  BY <1>1, <1>3 DEF IInv, NumbersUnique, NumbersReserved, SameNumber
<1>10. \A o \in Requests \ {r} : RowOf(o)' = RowOf(o) /\ doc'[o] = doc[o]
  BY <1>5 DEF RowOf, SameAs
<1>11. RowOf(r)' = Null
  BY <1>5 DEF RowOf
<1>12. NumbersReserved'
  BY <1>1, <1>3, <1>10, <1>11 DEF IInv, NumbersReserved, SameNumber
<1>13. LinesHaveDocuments'
  <2>1. SUFFICES ASSUME NEW l \in LineIds, lines'[l] # Null
                 PROVE  docs'[lines'[l]] # Null
    BY DEF LinesHaveDocuments
  <2>2. CASE l \in out[r].add
    BY <1>1, <1>3, <1>4, <2>2 DEF IInv, LinesGoWithRow
  <2>3. CASE l \notin out[r].add
    <3>1. l \notin gone[r] /\ lines'[l] = lines[l]
      BY <1>4, <2>1, <2>3
    <3>2. lines[l] \in Documents /\ docs[lines[l]] # Null
      BY <2>1, <3>1 DEF IInv, TypeOK, LinesHaveDocuments
    <3>3. lines[l] = d => out[r].row # Null
      BY <1>1, <3>1 DEF IInv, LinesGoWithRow
    <3>4. QED
      BY <1>3, <3>1, <3>2, <3>3
  <2>4. QED
    BY <2>2, <2>3
<1>14. Touched(r) = held[r].lines \cup gone[r]
  BY <1>1, ConstantsAssumption DEF Touched
\* The lines of other documents stay as they are.
<1>15. \A e \in Documents \ {d} : LinesOf(e)' = LinesOf(e)
  BY <1>1, <1>4, <1>14, ConstantsAssumption DEF IInv, LinesStayHome
<1>16. LinesGoWithRow'
  <2>1. SUFFICES ASSUME NEW o \in Requests, (out[o] # Null /\ out[o].row = Null)'
                 PROVE  (out[o].add = {} /\ LinesOf(doc[o]) \subseteq gone[o])'
    BY DEF LinesGoWithRow
  <2>2. o # r /\ out'[o] = out[o] /\ doc'[o] = doc[o] /\ gone'[o] = gone[o]
    BY <1>5, <2>1 DEF SameAs
  <2>3. PICK e \in Documents \ {d} : e = doc[o]
    BY <1>1, <2>1, <2>2 DEF IInv, OneWriter, WorkInOrder, InOrder
  <2>4. LinesOf(e) \subseteq gone[o] /\ out[o].add = {}
    BY <2>1, <2>2, <2>3 DEF IInv, LinesGoWithRow
  <2>5. LinesOf(e)' \subseteq gone'[o]
    BY <1>15, <2>2, <2>3, <2>4
  <2>6. QED
    BY <2>2, <2>3, <2>4, <2>5
<1>17. Touched(r)' = {} /\ \A o \in Requests \ {r} : Touched(o)' = Touched(o)
  BY <1>5 DEF Touched, SameAs
<1>18. NamesAreFresh'
  BY <1>1, <1>3, <1>4, <1>5, <1>14, <1>17, ConstantsAssumption DEF IInv, NamesAreFresh, SameAs
<1>19. LinesStayHome'
  <2>1. Touched(r) \subseteq LineIds /\ \A o \in Requests : Touched(o) \subseteq LineIds
    BY DEF Touched, IInv, TypeOK, Entities
  <2>2. \A o \in Requests \ {r} : \A l \in Touched(o) : lines'[l] \in {Null, doc[o]}
    BY <1>1, <1>4, <1>14, <2>1 DEF IInv, LinesStayHome
  <2>3. QED
    BY <1>5, <1>17, <2>2 DEF IInv, LinesStayHome, SameAs
<1>20. SharedIsRaced'
  BY <1>3, <1>5 DEF IInv, SharedIsRaced, SameAs
<1>21. AloneKnows'
  <2>1. SUFFICES ASSUME NEW o \in Requests, pc'[o] \in Working, doc'[o] \notin raced'
                 PROVE  Alone(o)'
    BY DEF AloneKnows
  <2>2. o # r /\ SameAs(o) /\ doc[o] \in Documents /\ doc[o] # Null
    BY <1>5, <2>1, ConstantsAssumption DEF IInv, WorkInOrder, InOrder, SameAs
  <2>3. PICK e \in Documents \ {d} : e = doc[o] /\ e = doc'[o]
    BY <1>1, <1>3, <2>1, <2>2 DEF IInv, SharedIsRaced, SameAs
  <2>4. Alone(o)
    BY <1>3, <2>1, <2>2 DEF IInv, AloneKnows, SameAs
  <2>5. docs'[e] = docs[e] /\ LinesOf(e)' = LinesOf(e)
    BY <1>3, <1>15
  <2>6. QED
    BY <2>2, <2>3, <2>4, <2>5 DEF Alone, SameAs
<1>22. AllTell'
  <2>1. SUFFICES ASSUME NEW e \in Documents \ raced
                 PROVE  Tells(e)'
    BY <1>3 DEF AllTell
  <2>2. CASE e # d
    BY <1>3, <1>15, <2>2 DEF IInv, AllTell, Tells
  <2>3. CASE e = d
    <3>1. Alone(r) /\ moved[d] = <<>>
      BY <1>1, <2>1, <2>3 DEF IInv, AloneKnows, Alone, AllTell, Tells
    <3>2. CASE op[r] = "complete"
      <4>1. /\ held[r].lines = LinesOf(d) /\ gone[r] = {} /\ out[r].add = {}
            /\ out[r].row # Null /\ out[r].row.status = "COMPLETED"
        BY <1>1, <3>1, <3>2 DEF Alone
      <4>2. LinesOf(d)' = LinesOf(d)
        BY <1>4, <4>1
      <4>3. moved'[d] = <<LinesOf(d)>>
        BY <1>3, <3>1, <3>2, <4>1
      <4>4. QED
        BY <1>3, <2>3, <4>1, <4>2, <4>3 DEF Tells
    <3>3. CASE op[r] # "complete"
      <4>1. out[r].row = Null \/ out[r].row.status = "DRAFT"
        BY <1>1, <3>1, <3>3 DEF Alone
      <4>2. QED
        BY <1>3, <2>3, <3>1, <3>3, <4>1 DEF Tells
    <3>4. QED
      BY <3>2, <3>3
  <2>4. QED
    BY <2>2, <2>3
<1>23. QED
  BY <1>6, <1>7, <1>8, <1>9, <1>12, <1>13, <1>16, <1>18, <1>19, <1>20, <1>21, <1>22 DEF IInv

LEMMA CrashKeeps ==
  ASSUME IInv, ServerCrash
  PROVE  IInv'
<1> USE DEF ServerCrash, committed
<1>1. TypeOK'
  BY DEF IInv, TypeOK
<1>2. \A r \in Requests :
        /\ doc'[r] = Null /\ held'[r] = Null /\ gone'[r] = {} /\ out'[r] = Null /\ op'[r] = Null
        /\ pc'[r] \notin Working /\ (pc'[r] = "idle" => pc[r] = "idle")
  BY DEF IInv, TypeOK
<1>3. UNCHANGED <<docs, lines, moved, raced>>
  OBVIOUS
<1> HIDE DEF ServerCrash
<1>4. WorkInOrder' /\ OneWriter' /\ AloneKnows'
  BY <1>2 DEF WorkInOrder, InOrder, OneWriter, AloneKnows
<1>5. NumbersReserved' /\ LinesGoWithRow'
  BY <1>2 DEF NumbersReserved, RowOf, LinesGoWithRow
<1>6. NumbersUnique' /\ LinesHaveDocuments' /\ AllTell'
  BY <1>3 DEF IInv, NumbersUnique, SameNumber, LinesHaveDocuments, AllTell, Tells
<1>7. \A r \in Requests : Touched(r)' = {}
  BY <1>2 DEF Touched
<1>8. NamesAreFresh' /\ LinesStayHome' /\ SharedIsRaced'
  BY <1>2, <1>3, <1>7, ConstantsAssumption DEF IInv, NamesAreFresh, LinesStayHome, SharedIsRaced
<1>9. QED
  BY <1>1, <1>4, <1>5, <1>6, <1>8 DEF IInv

--------------------------------------------------------------------------------
(* The theorems.                                                               *)

\* The server starts with an inductive invariant: the state of an idle server,
\* with one draft and its line, is in order.
THEOREM InitHolds == Init => IInv
<1> SUFFICES ASSUME Init PROVE IInv
  OBVIOUS
<1> USE DEF Init
<1>1. Null \notin Documents /\ Null \notin DocumentRows /\ Old \notin Requests /\ OldTenant \in Tenants
  BY ConstantsAssumption
<1>2. PICK row \in DocumentRows :
        /\ row.status = "DRAFT"
        /\ docs = [d \in Documents |-> IF d = Old THEN row ELSE Null]
  BY <1>1 DEF DocumentRows, Statuses
<1>3. /\ \A r \in Requests : pc[r] = "idle" /\ op[r] = Null /\ doc[r] = Null /\ held[r] = Null
      /\ \A r \in Requests : gone[r] = {} /\ out[r] = Null
      /\ \A r \in Requests : ~Exists(r) /\ lines[r] = Null
      /\ \A d \in Documents : moved[d] = <<>>
  BY <1>1
<1>4. Exists(Old) /\ docs[Old].status = "DRAFT" /\ lines[Old] = Old
  BY <1>1, <1>2
<1> HIDE DEF Init
<1>5. TypeOK
  BY <1>1, <1>2 DEF TypeOK, Init
<1>6. WorkInOrder /\ OneWriter /\ SharedIsRaced /\ AloneKnows
  BY <1>3 DEF WorkInOrder, InOrder, OneWriter, SharedIsRaced, AloneKnows
<1>7. NumbersUnique /\ NumbersReserved /\ LinesGoWithRow
  BY <1>3 DEF NumbersUnique, NumbersReserved, RowOf, LinesGoWithRow
<1>8. LinesHaveDocuments /\ AllTell
  BY <1>3, <1>4 DEF LinesHaveDocuments, AllTell, Tells
<1>9. NamesAreFresh /\ LinesStayHome
  BY <1>1, <1>3 DEF NamesAreFresh, LinesStayHome, Touched
<1>10. QED
  BY <1>5, <1>6, <1>7, <1>8, <1>9 DEF IInv

\* Every step of createReceipt, updateReceipt, completeReceipt, deleteReceipt and
\* their counterparts for issues, with the deadlock that the database resolves
\* and the crash, keeps that invariant.
THEOREM StepsKeep == IInv /\ [Next]_vars => IInv'
<1> SUFFICES ASSUME IInv, [Next]_vars PROVE IInv'
  OBVIOUS
<1>1. ASSUME NEW r \in Requests, Receive(r) PROVE IInv'
  BY <1>1, ReceiveKeeps
<1>2. ASSUME NEW r \in Requests, Step(r) PROVE IInv'
  BY <1>2, RemoveLinesKeeps, MoveStockKeeps, SelectForSaveKeeps, WriteKeeps, RemoveKeeps,
     CommitKeeps DEF Step
<1>3. ASSUME NEW r \in Requests, NEW u \in Others(r), Deadlock(r, u) PROVE IInv'
  BY <1>3, RefuseKeeps DEF Deadlock
<1>4. CASE ServerCrash
  BY <1>4, CrashKeeps
<1>5. CASE UNCHANGED vars
  BY <1>5 DEF vars, IInv, TypeOK, WorkInOrder, InOrder, OneWriter, NumbersUnique, SameNumber,
     NumbersReserved, RowOf, LinesHaveDocuments, LinesGoWithRow, NamesAreFresh, Touched,
     LinesStayHome, SharedIsRaced, AloneKnows, Alone, AllTell, Tells
<1>6. QED
  BY <1>1, <1>2, <1>3, <1>4, <1>5 DEF Next, Settled

\* The invariant holds in every reachable state.
THEOREM Invariance == Spec => []IInv
BY InitHolds, StepsKeep, PTL DEF Spec

\* Documents, lines, entities and plans keep their types: in particular a number
\* is always a natural number, and a line is of a document of the model.
THEOREM TypeCorrect == Spec => []TypeOK
<1>1. IInv => TypeOK
  BY DEF IInv
<1>2. QED
  BY <1>1, Invariance, PTL

\* No two receipts and no two issues that are committed have one number, for any
\* number of requests and tenants: what the unique index and its waiting secure.
THEOREM NumbersAreUnique == Spec => []NumbersUnique
<1>1. IInv => NumbersUnique
  BY DEF IInv
<1>2. QED
  BY <1>1, Invariance, PTL

\* Every committed line is of a committed document, whatever updates, completions
\* and deletions are at work on it: each holds the row from its write to its commit.
THEOREM NoLineIsLeftBehind == Spec => []LinesHaveDocuments
<1>1. IInv => LinesHaveDocuments
  BY DEF IInv
<1>2. QED
  BY <1>1, Invariance, PTL

\* A document that no two requests were ever at work on at once has moved its stock
\* once if it is COMPLETED and never otherwise: what the status checks secure.
THEOREM TheStatusTellsTheStock == Spec => []StatusTellsStock
<1>1. IInv => StatusTellsStock
  BY DEF IInv, AllTell, Tells, StatusTellsStock
<1>2. QED
  BY <1>1, Invariance, PTL
===============================================================================
