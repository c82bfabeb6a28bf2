------------------------------ MODULE Trade_proofs ------------------------------
(* Theorems about Trade: type correctness, tickets stored whole and once, what  *)
(* a batch reports, and the two refinements of OrderLife.                       *)
EXTENDS Trade, FiniteSetTheorems, SequenceTheorems, TLAPS

USE DEF Working, Answered, Exists, Others

(* What the invariants rest on: first, what holds of each request.             *)

\* The stages at which a request is at work on a document.
Busy == {"charge", "select", "write", "commit"}
Own(r) == {<<"SO", r>>, <<"PO", r>>, <<"INV", r>>, <<"BILL", r>>}
ChargeOf(r) == IF doc[r] \in SalesOrders THEN <<"INV", r>> ELSE <<"BILL", r>>
ChargedStatus(d) == IF d \in SalesOrders THEN "INVOICED" ELSE "BILLED"
CreatedStatuses(d) == IF d \in SalesOrders THEN {"DRAFT", "CONFIRMED"} ELSE {"RFQ"}

OutOk(r) ==
  /\ out[r] = [d \in DOMAIN out[r] |-> out[r][d]]
  /\ DOMAIN out[r] \subseteq {doc[r], ChargeOf(r)}
  /\ \A d \in DOMAIN out[r] : out[r][d].status \in StatusesOf(d)

\* Where it is, and what it then has in hand.
InOrder(r) ==
  /\ IF pc[r] \in Busy
       THEN doc[r] \in Documents /\ held[r] \in Rows /\ held[r].status \in StatusesOf(doc[r])
       ELSE doc[r] = Null /\ held[r] = Null /\ out[r] = NoRows /\ ~bare[r]
  /\ pc[r] \in {"idle", "charge"} => batch[r] = <<>> /\ out[r] = NoRows
  /\ pc[r] = "charge" => doc[r] \in Orders /\ held[r].status = ChargedStatus(doc[r]) /\ Exists(doc[r])
  /\ pc[r] = "write" => plan[r] # Null
  /\ pc[r] = "commit" => ~bare[r]
  /\ batch[r] = <<>> => ~bare[r]

\* The document at hand exists, or it is to be created, by a create or a sync.
Creates(r) ==
  /\ doc[r] \in {<<"SO", r>>, <<"PO", r>>} /\ batch[r] = <<>>
  /\ pc[r] \in {"write", "commit"}
  /\ pc[r] = "write" => plan[r] = "insert" /\ out[r] = NoRows
Syncs(r) ==
  /\ batch[r] # <<>> /\ pc[r] # "charge" /\ doc[r] = <<"SO", Head(batch[r])>>
  /\ held[r].status = "CONFIRMED" /\ DOMAIN out[r] \subseteq {doc[r]}
  /\ bare[r] => DOMAIN out[r] = {}
  /\ ~bare[r] => doc[r] \in DOMAIN out[r] \/ Exists(doc[r])
  /\ pc[r] = "commit" => lines[Head(batch[r])] = {}
KnowsDocument(r) ==
  pc[r] \in Busy =>
    /\ (Exists(doc[r]) /\ batch[r] = <<>>) \/ Creates(r) \/ Syncs(r)
    /\ pc[r] = "write" /\ plan[r] # "insert" => Sees(r, doc[r]) # Null
    /\ pc[r] = "commit" => Exists(doc[r]) \/ doc[r] \in DOMAIN out[r]
    /\ ~Exists(doc[r]) => held[r].status \in CreatedStatuses(doc[r])
    /\ ~Exists(doc[r]) /\ doc[r] \in DOMAIN out[r] =>
         /\ out[r][doc[r]] = held[r]
         /\ pc[r] = "write" => plan[r] = "nothing"

\* An uncommitted invoice or bill is of the order that is given its charged status.
ChargeFits(r) ==
  ChargeOf(r) \in DOMAIN out[r] =>
    /\ doc[r] \in Orders /\ Exists(doc[r]) /\ batch[r] = <<>>
    /\ out[r][ChargeOf(r)].of = doc[r] /\ held[r].status = ChargedStatus(doc[r])

\* What a document is of stays.
OfStays(r) == \A d \in DOMAIN out[r] : Exists(d) => out[r][d].of = docs[d].of

\* What it knows if it is alone with an order that exists.
Moves(d, from, to) ==
  \/ from = "DRAFT" /\ to = "DRAFT"
  \/ <<from, to>> \in IF d \in SalesOrders THEN SalesFlow ELSE PurchaseFlow
KnowsStatus(r) ==
  pc[r] \in Busy /\ doc[r] \in Orders \ raced /\ Exists(doc[r]) =>
    /\ batch[r] = <<>>
    /\ Moves(doc[r], docs[doc[r]].status, held[r].status)
    /\ pc[r] # "commit" => doc[r] \notin DOMAIN out[r]
    /\ pc[r] # "charge" /\ held[r].status = ChargedStatus(doc[r]) => ChargeOf(r) \in DOMAIN out[r]
    /\ pc[r] = "write" =>
         plan[r] = IF docs[doc[r]].status = held[r].status THEN "touch" ELSE "update"
    /\ pc[r] = "commit" => doc[r] \in DOMAIN out[r] /\ out[r][doc[r]].status = held[r].status

Local(r) ==
  /\ OutOk(r) /\ InOrder(r) /\ KnowsDocument(r) /\ ChargeFits(r) /\ OfStays(r) /\ KnowsStatus(r)
WorkInOrder == \A r \in Requests : Local(r)

--------------------------------------------------------------------------------
(* Then, what holds between them.                                              *)

\* One transaction at most has written the row of a document.
OneWriter ==
  \A r, o \in Requests : r # o => DOMAIN out[r] \cap DOMAIN out[o] = {}

\* A request that is not answered has made nothing that another one may find.
NamesAreFresh ==
  \A r \in Requests : pc[r] \notin Answered =>
    \A d \in Own(r) : ~Exists(d) /\ \A o \in Requests \ {r} : doc[o] # d

SharedIsRaced ==
  \A r, o \in Requests : r # o /\ doc[r] # Null /\ doc[r] = doc[o] => doc[r] \in raced

\* TicketsWhole, with the sending that stored the lines.
LinesOfTickets ==
  \A c \in Tickets :
    IF Exists(<<"SO", c>>) /\ c \notin EmptyTickets THEN \E r \in Requests : lines[c] = {r}
    ELSE lines[c] = {}

SyncedExist == \A r \in Requests : \A c \in synced[r] : Exists(<<"SO", c>>)

OutIsFunction == out = [r \in Requests |-> out[r]]

IInv ==
  /\ TypeOK /\ OutIsFunction /\ WorkInOrder
  /\ OneWriter /\ NamesAreFresh /\ SharedIsRaced
  /\ LinesOfTickets /\ SyncedExist

--------------------------------------------------------------------------------
(* Names.                                                                       *)

LEMMA Names ==
  /\ \A r \in Requests :
       /\ <<"SO", r>> \in SalesOrders /\ <<"PO", r>> \in PurchaseOrders
       /\ <<"INV", r>> \in Invoices /\ <<"BILL", r>> \in Bills
       /\ Own(r) \subseteq Documents /\ Own(r) \cap StartOrders = {}
       /\ \A o \in Requests \ {r} : Own(r) \cap Own(o) = {}
       /\ \A c \in Tickets : <<"SO", c>> \notin Own(r)
       /\ Own(r) \cap SalesOrders = {<<"SO", r>>} /\ Own(r) \cap PurchaseOrders = {<<"PO", r>>}
  /\ SalesOrders \cap PurchaseOrders = {} /\ Invoices \cap Bills = {}
  /\ Orders \cap (Invoices \cup Bills) = {}
  /\ Orders = SalesOrders \cup PurchaseOrders
  /\ Documents = Orders \cup Invoices \cup Bills
  /\ StartOrders \subseteq Orders
  /\ Null \notin Documents
BY TradeAssumption
   DEF SalesOrders, PurchaseOrders, Invoices, Bills, Orders, Documents, StartOrders, Own

LEMMA TicketNames ==
  /\ \A c \in Tickets : <<"SO", c>> \in SalesOrders /\ IsTicket(<<"SO", c>>) /\ <<"SO", c>>[2] = c
  /\ \A d \in Documents : IsTicket(d) => d[2] \in Tickets /\ d = <<"SO", d[2]>>
  /\ \A r \in Requests : \A d \in Own(r) : ~IsTicket(d)
  /\ \A c \in Tickets : <<"SO", c>> \notin StartOrders
BY TradeAssumption
   DEF SalesOrders, PurchaseOrders, Invoices, Bills, Orders, Documents, StartOrders, IsTicket, Own

LEMMA StatusNames ==
  /\ SalesStatuses \cup PurchaseStatuses \cup InvoiceStatuses \cup BillStatuses = Statuses
  /\ \A d \in Documents : StatusesOf(d) \subseteq Statuses
  /\ \A d \in SalesOrders : StatusesOf(d) = SalesStatuses
  /\ \A d \in PurchaseOrders : StatusesOf(d) = PurchaseStatuses
  /\ \A d \in Invoices : StatusesOf(d) = InvoiceStatuses
  /\ \A d \in Bills : StatusesOf(d) = BillStatuses
BY Names DEF StatusesOf, Statuses

--------------------------------------------------------------------------------
(* Steps that commit nothing.                                                   *)

SameAs(o) ==
  /\ pc'[o] = pc[o] /\ doc'[o] = doc[o] /\ held'[o] = held[o] /\ bare'[o] = bare[o]
  /\ plan'[o] = plan[o] /\ out'[o] = out[o]
  /\ batch'[o] = batch[o] /\ synced'[o] = synced[o] /\ failed'[o] = failed[o]

LEMMA LocalStays ==
  ASSUME NEW o, Local(o), SameAs(o), UNCHANGED committed, raced \subseteq raced'
  PROVE  Local(o)'
<1> USE DEF SameAs, committed, ChargeOf
<1>1. OutOk(o)' /\ InOrder(o)'
  BY DEF Local, OutOk, InOrder, StatusesOf, ChargedStatus
<1>2. KnowsDocument(o)'
  BY DEF Local, KnowsDocument, Creates, Syncs, Sees, CreatedStatuses
<1>3. ChargeFits(o)' /\ OfStays(o)'
  BY DEF Local, ChargeFits, OfStays, ChargedStatus
<1>4. KnowsStatus(o)'
  BY DEF Local, KnowsStatus, Moves, ChargedStatus
<1>5. QED
  BY <1>1, <1>2, <1>3, <1>4 DEF Local

LEMMA NoCommitKeeps ==
  ASSUME IInv, NEW r \in Requests, UNCHANGED committed, raced \subseteq raced',
         \A o \in Requests \ {r} : SameAs(o),
         TypeOK', OutIsFunction', Local(r)', pc[r] \notin Answered,
         \A o \in Requests \ {r} : DOMAIN out'[r] \cap DOMAIN out[o] = {},
         doc'[r] \in {Null, doc[r]} \/ \A o \in Requests \ {r} :
           /\ pc[o] \notin Answered => doc'[r] \notin Own(o)
           /\ doc'[r] = doc[o] => doc'[r] \in raced',
         \A c \in synced'[r] : Exists(<<"SO", c>>)
  PROVE  IInv'
<1>1. WorkInOrder'
  BY LocalStays DEF IInv, WorkInOrder
<1>2. OneWriter'
  BY DEF IInv, OneWriter, SameAs
<1>3. NamesAreFresh'
  <2>1. \A o \in Requests \ {r} : Null \notin Own(o)
    BY Names
  <2>2. \A o, q \in Requests : o # q /\ pc'[o] \notin Answered =>
          pc[o] \notin Answered /\ doc'[q] \notin Own(o)
    BY <2>1 DEF IInv, NamesAreFresh, SameAs
  <2>3. QED
    BY <2>2 DEF IInv, NamesAreFresh, committed
<1>4. SharedIsRaced'
  BY DEF IInv, SharedIsRaced, SameAs
<1>5. LinesOfTickets'
  BY DEF IInv, LinesOfTickets, committed
<1>6. SyncedExist'
  BY DEF IInv, SyncedExist, SameAs, committed
<1>7. QED
  BY <1>1, <1>2, <1>3, <1>4, <1>5, <1>6 DEF IInv

LEMMA ReleaseKeeps ==
  ASSUME IInv, NEW r \in Requests, pc[r] \notin Answered, NEW to \in {"refused", "sync"},
         pc' = [pc EXCEPT ![r] = to], Release(r), UNCHANGED <<committed, raced>>,
         NEW b \in Seq(Tickets), batch' = [batch EXCEPT ![r] = b],
         NEW s \in SUBSET Tickets, synced' = [synced EXCEPT ![r] = s],
         NEW f \in SUBSET Tickets, failed' = [failed EXCEPT ![r] = f],
         \A c \in s : Exists(<<"SO", c>>)
  PROVE  IInv'
<1> USE DEF Release, committed
<1>1. /\ pc'[r] = to /\ doc'[r] = Null /\ held'[r] = Null /\ bare'[r] = FALSE
      /\ out'[r] = NoRows /\ batch'[r] = b /\ synced'[r] = s
  BY DEF IInv, TypeOK, OutIsFunction
<1>2. \A o \in Requests \ {r} : SameAs(o)
  BY DEF IInv, TypeOK, OutIsFunction, SameAs
<1>3. DOMAIN out'[r] = {} /\ out'[r] = [d \in DOMAIN out'[r] |-> out'[r][d]]
  BY <1>1 DEF NoRows
<1>4. TypeOK'
  BY <1>2, <1>3 DEF IInv, TypeOK, SameAs, StatusesOf
<1>5. OutIsFunction'
  BY DEF IInv, OutIsFunction
<1>6. Local(r)'
  BY <1>1, <1>3
     DEF Local, OutOk, InOrder, KnowsDocument, ChargeFits, OfStays, KnowsStatus, Busy
<1>7. QED
  BY <1>1, <1>2, <1>3, <1>4, <1>5, <1>6, NoCommitKeeps

LEMMA RefuseKeeps ==
  ASSUME IInv, NEW r \in Requests, pc[r] \notin Answered, Refuse(r)
  PROVE  IInv'
<1>1. /\ batch' = [batch EXCEPT ![r] = batch[r]] /\ synced' = [synced EXCEPT ![r] = synced[r]]
      /\ failed' = [failed EXCEPT ![r] = failed[r]]
      /\ batch[r] \in Seq(Tickets) /\ synced[r] \in SUBSET Tickets /\ failed[r] \in SUBSET Tickets
  BY DEF Refuse, counts, IInv, TypeOK
<1>2. QED
  BY <1>1, ReleaseKeeps DEF Refuse, IInv, SyncedExist

\* A ticket of the batch is done with, and counted as synced or as failed.
LEMMA NextTicketKeeps ==
  ASSUME IInv, NEW r \in Requests, pc[r] \notin Answered, batch[r] # <<>>,
         NextTicket(r), UNCHANGED <<committed, raced>>,
         (Counted(r) /\ Exists(<<"SO", Head(batch[r])>>)) \/ Uncounted(r)
  PROVE  IInv'
<1>1. batch[r] \in Seq(Tickets) /\ Head(batch[r]) \in Tickets /\ Tail(batch[r]) \in Seq(Tickets)
  BY HeadTailProperties DEF IInv, TypeOK
<1>2. /\ pc' = [pc EXCEPT ![r] = "sync"] /\ Release(r)
      /\ batch' = [batch EXCEPT ![r] = Tail(batch[r])]
  BY DEF NextTicket
<1>3. synced[r] \in SUBSET Tickets /\ failed[r] \in SUBSET Tickets
  BY DEF IInv, TypeOK
<1>4. CASE Counted(r) /\ Exists(<<"SO", Head(batch[r])>>)
  <2>1. /\ synced' = [synced EXCEPT ![r] = synced[r] \cup {Head(batch[r])}]
        /\ failed' = [failed EXCEPT ![r] = failed[r]]
    BY <1>4 DEF Counted, IInv, TypeOK
  <2>2. \A c \in synced[r] \cup {Head(batch[r])} : Exists(<<"SO", c>>)
    BY <1>4 DEF IInv, SyncedExist
  <2>3. QED
    BY <1>1, <1>2, <1>3, <2>1, <2>2, ReleaseKeeps
<1>5. CASE Uncounted(r)
  <2>1. /\ failed' = [failed EXCEPT ![r] = failed[r] \cup {Head(batch[r])}]
        /\ synced' = [synced EXCEPT ![r] = synced[r]]
    BY <1>5 DEF Uncounted, IInv, TypeOK
  <2>2. \A c \in synced[r] : Exists(<<"SO", c>>)
    BY DEF IInv, SyncedExist
  <2>3. failed[r] \cup {Head(batch[r])} \in SUBSET Tickets
    BY <1>1, <1>3
  <2>4. QED
    BY <1>1, <1>2, <1>3, <2>1, <2>2, <2>3, ReleaseKeeps
<1>6. QED
  BY <1>4, <1>5

LEMMA FailKeeps ==
  ASSUME IInv, NEW r \in Requests, pc[r] \notin Answered, Fail(r)
  PROVE  IInv'
BY RefuseKeeps, NextTicketKeeps DEF Fail, Syncing

--------------------------------------------------------------------------------
(* A request comes in, or a sync takes up its next ticket.                      *)

LEMMA OpenKeeps ==
  ASSUME IInv, NEW r \in Requests, pc[r] \in {"idle", "sync"},
         NEW d \in Documents, NEW row \in Rows, NEW next \in {"charge", "select", "write"},
         Open(r, d, row, next),
         NEW b \in BOOLEAN, bare' = [bare EXCEPT ![r] = b],
         NEW p \in Plans \cup {Null}, plan' = [plan EXCEPT ![r] = p],
         UNCHANGED counts,
         \A o \in Requests \ {r} : pc[o] \notin Answered => d \notin Own(o),
         Local(r)'
  PROVE  IInv'
<1> USE DEF Open, committed, counts
<1>1. /\ pc'[r] = next /\ doc'[r] = d /\ out' = out /\ synced' = synced
      /\ raced' = raced \cup {e \in {d} : \E o \in Requests \ {r} : doc[o] = e}
  BY DEF IInv, TypeOK
<1>2. \A o \in Requests \ {r} : SameAs(o)
  BY DEF IInv, TypeOK, SameAs
<1>3. TypeOK'
  BY DEF IInv, TypeOK, StatusesOf
<1>4. OutIsFunction'
  BY DEF IInv, OutIsFunction
<1>5. \A o \in Requests \ {r} : DOMAIN out'[r] \cap DOMAIN out[o] = {}
  BY <1>1 DEF IInv, OneWriter
<1>6. \A o \in Requests \ {r} :
        /\ pc[o] \notin Answered => doc'[r] \notin Own(o)
        /\ doc'[r] = doc[o] => doc'[r] \in raced'
  BY <1>1
<1>7. \A c \in synced'[r] : Exists(<<"SO", c>>)
  BY <1>1 DEF IInv, SyncedExist
<1>8. raced \subseteq raced' /\ pc[r] \notin Answered
  BY <1>1
<1> HIDE DEF Open, counts
<1>9. QED
  BY <1>2, <1>3, <1>4, <1>5, <1>6, <1>7, <1>8, NoCommitKeeps DEF Open

\* What an idle request has: nothing.
LEMMA Idle ==
  ASSUME IInv, NEW r \in Requests, pc[r] = "idle"
  PROVE  /\ doc[r] = Null /\ held[r] = Null /\ ~bare[r] /\ out[r] = NoRows /\ batch[r] = <<>>
         /\ \A d \in Own(r) : ~Exists(d)
BY DEF IInv, WorkInOrder, Local, InOrder, Busy, NamesAreFresh

LEMMA OnDocumentKeeps ==
  ASSUME IInv, NEW r \in Requests, NEW d \in Documents, NEW allowed, NEW to \in StatusesOf(d),
         NEW next \in {"charge", "select"}, OnDocument(r, d, allowed, to, next),
         d \in Orders => \A from \in allowed : Moves(d, from, to),
         next = "charge" => d \in Orders /\ to = ChargedStatus(d),
         next = "select" /\ d \in Orders => to # ChargedStatus(d)
  PROVE  IInv'
<1>1. pc[r] = "idle"
  BY DEF OnDocument
<1>2. CASE Refuse(r)
  BY <1>1, <1>2, RefuseKeeps
<1>3. CASE /\ Exists(d) /\ docs[d].status \in allowed
           /\ Open(r, d, [docs[d] EXCEPT !.status = to], next)
           /\ UNCHANGED <<bare, plan, counts>>
  <2>1. docs[d] \in Rows /\ to \in Statuses /\ d # Null
    BY <1>3, StatusNames, Names DEF IInv, TypeOK
  <2> DEFINE row == [docs[d] EXCEPT !.status = to]
  <2>2. row \in Rows /\ row.status = to
    BY <2>1 DEF Rows
  <2>3. \A o \in Requests \ {r} : pc[o] \notin Answered => d \notin Own(o)
    BY <1>3 DEF IInv, NamesAreFresh
  <2>4. /\ bare[r] \in BOOLEAN /\ bare' = [bare EXCEPT ![r] = bare[r]]
        /\ plan[r] \in Plans \cup {Null} /\ plan' = [plan EXCEPT ![r] = plan[r]]
        /\ UNCHANGED counts
    BY <1>3 DEF IInv, TypeOK
  <2>5. /\ doc'[r] = d /\ held'[r] = row /\ pc'[r] = next
        /\ docs' = docs /\ out'[r] = NoRows /\ batch'[r] = <<>> /\ ~bare'[r]
    BY <1>1, <1>3, <2>4, Idle DEF Open, committed, counts, IInv, TypeOK
  <2> HIDE DEF row
  <2>6. OutOk(r)' /\ ChargeFits(r)' /\ OfStays(r)'
    BY <2>5 DEF OutOk, ChargeFits, OfStays, NoRows
  <2>7. InOrder(r)'
    BY <1>3, <2>2, <2>5 DEF InOrder, Busy, StatusesOf, ChargedStatus
  <2>8. KnowsDocument(r)'
    BY <1>3, <2>5 DEF KnowsDocument
  <2>9. KnowsStatus(r)'
    BY <1>3, <2>2, <2>5 DEF KnowsStatus, Moves, ChargedStatus, NoRows
  <2>10. Local(r)'
    BY <2>6, <2>7, <2>8, <2>9 DEF Local
  <2>11. QED
    BY <1>1, <1>3, <2>2, <2>3, <2>4, <2>10, OpenKeeps DEF row
<1>4. QED
  BY <1>2, <1>3 DEF OnDocument

LEMMA CreateKeeps ==
  ASSUME IInv, NEW r \in Requests, NEW d \in {<<"SO", r>>, <<"PO", r>>}, NEW row \in Rows,
         Create(r, d, row), row.status \in CreatedStatuses(d)
  PROVE  IInv'
<1>1. pc[r] = "idle" /\ Open(r, d, row, "write") /\ plan' = [plan EXCEPT ![r] = "insert"]
      /\ UNCHANGED <<bare, counts>>
  BY DEF Create
<1>2. d \in Own(r) /\ d \in Orders /\ d # Null
  <2>1. <<"SO", r>> \in SalesOrders /\ <<"PO", r>> \in PurchaseOrders
    BY Names
  <2>2. d \in Orders
    BY <2>1 DEF Orders
  <2>3. QED
    BY <2>2, TradeAssumption DEF Own, Documents
<1>3. ~Exists(d)
  BY <1>1, <1>2, Idle
<1>4. \A o \in Requests \ {r} : d \notin Own(o)
  BY <1>2, Names
<1>5. bare[r] \in BOOLEAN /\ bare' = [bare EXCEPT ![r] = bare[r]] /\ "insert" \in Plans \cup {Null}
  BY <1>1 DEF IInv, TypeOK, Plans
<1>6. /\ doc'[r] = d /\ held'[r] = row /\ pc'[r] = "write" /\ plan'[r] = "insert"
      /\ docs' = docs /\ out'[r] = NoRows /\ batch'[r] = <<>> /\ ~bare'[r]
  BY <1>1, Idle DEF Open, committed, counts, IInv, TypeOK
<1>7. row.status \in StatusesOf(d)
  <2>1. CASE d = <<"SO", r>>
    <3>1. d \in SalesOrders /\ StatusesOf(d) = SalesStatuses
      BY <2>1, Names, StatusNames
    <3>2. QED
      BY <3>1 DEF CreatedStatuses, SalesStatuses
  <2>2. CASE d = <<"PO", r>>
    <3>1. d \in PurchaseOrders /\ d \notin SalesOrders /\ StatusesOf(d) = PurchaseStatuses
      BY <2>2, Names, StatusNames
    <3>2. QED
      BY <3>1 DEF CreatedStatuses, PurchaseStatuses
  <2>3. QED
    BY <2>1, <2>2
<1>8. OutOk(r)' /\ ChargeFits(r)' /\ OfStays(r)'
  BY <1>6 DEF OutOk, ChargeFits, OfStays, NoRows
<1>9. InOrder(r)'
  BY <1>2, <1>6, <1>7, TradeAssumption DEF InOrder, Busy, StatusesOf, Documents, Plans
<1>10. KnowsDocument(r)'
  BY <1>3, <1>6 DEF KnowsDocument, Creates, CreatedStatuses, NoRows
<1>11. KnowsStatus(r)'
  BY <1>3, <1>6 DEF KnowsStatus
<1>12. Local(r)'
  BY <1>8, <1>9, <1>10, <1>11 DEF Local
<1>13. QED
  <2>1. d \in Documents
    BY <1>2 DEF Documents
  <2>2. QED
    BY <1>1, <1>4, <1>5, <1>12, <2>1, OpenKeeps

LEMMA SyncOrdersKeeps ==
  ASSUME IInv, NEW r \in Requests, SyncOrders(r)
  PROVE  IInv'
<1> USE DEF committed, work
<1>1. PICK b \in Batches : batch' = [batch EXCEPT ![r] = b]
  BY DEF SyncOrders
<1>2. b \in Seq(Tickets) /\ pc[r] = "idle" /\ pc' = [pc EXCEPT ![r] = "sync"]
  BY <1>1, TradeAssumption DEF SyncOrders
<1>3. /\ UNCHANGED <<committed, raced, doc, held, bare, plan, out, synced, failed>>
      /\ pc'[r] = "sync" /\ doc'[r] = Null /\ held'[r] = Null /\ ~bare'[r] /\ out'[r] = NoRows
  BY <1>2, Idle DEF SyncOrders, IInv, TypeOK
<1>4. \A o \in Requests \ {r} : SameAs(o)
  BY <1>1, <1>2, <1>3 DEF IInv, TypeOK, SameAs
<1>5. TypeOK' /\ OutIsFunction'
  BY <1>1, <1>2, <1>3 DEF IInv, TypeOK, StatusesOf, OutIsFunction
<1>6. Local(r)'
  BY <1>3 DEF Local, OutOk, InOrder, KnowsDocument, ChargeFits, OfStays, KnowsStatus, Busy, NoRows
<1>7. /\ \A o \in Requests \ {r} : DOMAIN out'[r] \cap DOMAIN out[o] = {}
      /\ \A c \in synced'[r] : Exists(<<"SO", c>>)
      /\ doc'[r] \in {Null, doc[r]} /\ pc[r] \notin Answered /\ raced \subseteq raced'
  BY <1>2, <1>3 DEF IInv, OneWriter, SyncedExist
<1>8. QED
  BY <1>3, <1>4, <1>5, <1>6, <1>7, NoCommitKeeps

\* What a request in its loop has: nothing but its batch.
LEMMA InLoop ==
  ASSUME IInv, NEW r \in Requests, pc[r] = "sync"
  PROVE  doc[r] = Null /\ held[r] = Null /\ ~bare[r] /\ out[r] = NoRows
BY DEF IInv, WorkInOrder, Local, InOrder, Busy

LEMMA SyncNextKeeps ==
  ASSUME IInv, NEW r \in Requests, SyncNext(r)
  PROVE  IInv'
<1>1. pc[r] = "sync" /\ batch[r] # <<>>
  BY DEF SyncNext
<1>2. PICK c : c = Head(batch[r])
  OBVIOUS
<1>3. c \in Tickets
  BY <1>1, <1>2, HeadTailProperties DEF IInv, TypeOK
<1>4. CASE Exists(<<"SO", c>>) /\ NextTicket(r) /\ Counted(r) /\ UNCHANGED <<committed, raced>>
  BY <1>1, <1>2, <1>4, NextTicketKeeps
<1>5. CASE /\ ~Exists(<<"SO", c>>)
           /\ Open(r, <<"SO", c>>, [number |-> <<"POS", PrefixOf[c]>>, status |-> "CONFIRMED",
                                    of |-> Null], "select")
           /\ bare' = [bare EXCEPT ![r] = TRUE]
           /\ UNCHANGED <<plan, counts>>
  <2> DEFINE d == <<"SO", c>>
             row == [number |-> <<"POS", PrefixOf[c]>>, status |-> "CONFIRMED", of |-> Null]
  <2>1. d \in SalesOrders /\ d \in Documents /\ IsTicket(d) /\ StatusesOf(d) = SalesStatuses
    BY <1>3, TicketNames, Names, StatusNames
  <2>2. row \in Rows /\ row.status = "CONFIRMED"
    <3>1. <<"POS", PrefixOf[c]>> \in {"SO", "PO", "INV", "POS"} \X (Ticks \cup {PrefixOf[e] : e \in Tickets})
      BY <1>3
    <3>2. "CONFIRMED" \in Statuses
      BY DEF Statuses, SalesStatuses
    <3>3. QED
      BY <3>1, <3>2 DEF Rows
  <2>3. \A o \in Requests : d \notin Own(o)
    BY <1>3, Names
  <2>4. /\ doc'[r] = d /\ held'[r] = row /\ pc'[r] = "select" /\ bare'[r] = TRUE
        /\ docs' = docs /\ out'[r] = NoRows /\ batch'[r] = batch[r]
    BY <1>1, <1>5, InLoop DEF Open, committed, counts, IInv, TypeOK
  <2>5. plan[r] \in Plans \cup {Null} /\ plan' = [plan EXCEPT ![r] = plan[r]]
    BY <1>5 DEF IInv, TypeOK
  <2>6. d = <<"SO", Head(batch[r])>> /\ ~Exists(d) /\ Open(r, d, row, "select")
    BY <1>2, <1>5
  <2>7. row.status \in StatusesOf(d) /\ row.status \in CreatedStatuses(d)
    BY <2>1, <2>2 DEF SalesStatuses, CreatedStatuses
  <2> HIDE DEF d, row
  <2>8. OutOk(r)' /\ ChargeFits(r)' /\ OfStays(r)'
    BY <2>4 DEF OutOk, ChargeFits, OfStays, NoRows
  <2>9. InOrder(r)'
    BY <1>1, <2>1, <2>2, <2>4, <2>7 DEF InOrder, Busy, StatusesOf
  <2>10. Syncs(r)'
    BY <1>1, <2>2, <2>4, <2>6 DEF Syncs, NoRows
  <2>11. KnowsDocument(r)'
    BY <2>4, <2>6, <2>7, <2>10 DEF KnowsDocument, CreatedStatuses, NoRows
  <2>12. KnowsStatus(r)'
    BY <2>4, <2>6 DEF KnowsStatus
  <2>13. Local(r)'
    BY <2>8, <2>9, <2>11, <2>12 DEF Local
  <2>14. pc[r] \in {"idle", "sync"} /\ TRUE \in BOOLEAN /\ UNCHANGED counts
    BY <1>1, <1>5
  <2>15. bare' = [bare EXCEPT ![r] = TRUE]
    BY <1>5
  <2>16. QED
    BY <2>1, <2>2, <2>3, <2>5, <2>6, <2>13, <2>14, <2>15, OpenKeeps
<1>6. QED
  BY <1>2, <1>4, <1>5 DEF SyncNext

LEMMA SyncDoneKeeps ==
  ASSUME IInv, NEW r \in Requests, SyncDone(r)
  PROVE  IInv'
<1> USE DEF committed, work, counts
<1>1. /\ pc[r] = "sync" /\ batch[r] = <<>> /\ pc' = [pc EXCEPT ![r] = "ok"]
      /\ UNCHANGED <<committed, raced, work, counts>>
  BY DEF SyncDone
<1>2. doc'[r] = Null /\ held'[r] = Null /\ ~bare'[r] /\ out'[r] = NoRows /\ pc'[r] = "ok"
  BY <1>1, InLoop DEF IInv, TypeOK
<1>3. \A o \in Requests \ {r} : SameAs(o)
  BY <1>1 DEF IInv, TypeOK, SameAs
<1>4. TypeOK' /\ OutIsFunction'
  BY <1>1 DEF IInv, TypeOK, StatusesOf, OutIsFunction
<1>5. Local(r)'
  BY <1>2 DEF Local, OutOk, InOrder, KnowsDocument, ChargeFits, OfStays, KnowsStatus, Busy, NoRows
<1>6. /\ \A o \in Requests \ {r} : DOMAIN out'[r] \cap DOMAIN out[o] = {}
      /\ \A c \in synced'[r] : Exists(<<"SO", c>>)
      /\ doc'[r] \in {Null, doc[r]} /\ pc[r] \notin Answered /\ raced \subseteq raced'
  BY <1>1 DEF IInv, OneWriter, SyncedExist
<1>7. QED
  BY <1>1, <1>3, <1>4, <1>5, <1>6, NoCommitKeeps

--------------------------------------------------------------------------------
(* The statements of a transaction.                                             *)

LEMMA WritesOne ==
  ASSUME OutIsFunction, NEW r \in Requests, NEW d, NEW row, Writes(r, d, row)
  PROVE  /\ OutIsFunction' /\ \A o \in Requests \ {r} : out'[o] = out[o]
         /\ DOMAIN out'[r] = DOMAIN out[r] \cup {d} /\ out'[r][d] = row
         /\ \A e \in DOMAIN out[r] \ {d} : out'[r][e] = out[r][e]
         /\ out'[r] = [e \in DOMAIN out'[r] |-> out'[r][e]]
<1>1. out'[r] = [e \in DOMAIN out[r] \cup {d} |-> IF e = d THEN row ELSE out[r][e]]
  BY DEF Writes, OutIsFunction
<1>2. DOMAIN out'[r] = DOMAIN out[r] \cup {d}
  BY <1>1
<1>3. out'[r] = [e \in DOMAIN out'[r] |-> out'[r][e]]
  BY <1>1, <1>2
<1>4. OutIsFunction' /\ \A o \in Requests \ {r} : out'[o] = out[o]
  BY DEF Writes, OutIsFunction
<1>5. QED
  BY <1>1, <1>2, <1>3, <1>4

\* The document at hand is not the charge of the request.
LEMMA ChargeIsOwn ==
  ASSUME IInv, NEW r \in Requests, pc[r] \notin Answered
  PROVE  /\ ChargeOf(r) \in Own(r) /\ ChargeOf(r) \in Invoices \cup Bills /\ ~Exists(ChargeOf(r))
         /\ pc[r] \in Busy => doc[r] # ChargeOf(r)
         /\ \A o \in Requests \ {r} : ChargeOf(r) \notin DOMAIN out[o]
<1>1. ChargeOf(r) \in Own(r) /\ ChargeOf(r) \in Invoices \cup Bills
  <2>1. <<"INV", r>> \in Invoices /\ <<"BILL", r>> \in Bills
    BY Names
  <2>2. QED
    BY <2>1 DEF ChargeOf, Own
<1>2. ~Exists(ChargeOf(r)) /\ ChargeOf(r) \notin Orders
  BY <1>1, Names DEF IInv, NamesAreFresh
<1>3. ASSUME pc[r] \in Busy PROVE doc[r] # ChargeOf(r)
  <2>1. Exists(doc[r]) \/ Creates(r) \/ Syncs(r)
    BY <1>3 DEF IInv, WorkInOrder, Local, KnowsDocument
  <2>2. ASSUME Creates(r) PROVE doc[r] \in Orders
    <3>1. <<"SO", r>> \in Orders /\ <<"PO", r>> \in Orders
      BY Names
    <3>2. QED
      BY <2>2, <3>1 DEF Creates
  <2>3. ASSUME Syncs(r) PROVE doc[r] \in Orders
    <3>1. Head(batch[r]) \in Tickets
      BY <2>3, HeadTailProperties DEF Syncs, IInv, TypeOK
    <3>2. QED
      BY <2>3, <3>1, TicketNames, Names DEF Syncs
  <2>4. QED
    BY <1>2, <2>1, <2>2, <2>3
<1>4. ASSUME NEW o \in Requests \ {r} PROVE ChargeOf(r) \notin DOMAIN out[o]
  <2>1. DOMAIN out[o] \subseteq {doc[o], ChargeOf(o)}
    BY DEF IInv, WorkInOrder, Local, OutOk
  <2>2. doc[o] # ChargeOf(r)
    BY <1>1 DEF IInv, NamesAreFresh
  <2>3. ChargeOf(o) \in Own(o) /\ Own(r) \cap Own(o) = {}
    BY Names DEF ChargeOf, Own
  <2>4. QED
    BY <1>1, <2>1, <2>2, <2>3
<1>5. QED
  BY <1>1, <1>2, <1>3, <1>4

LEMMA InsertChargeKeeps ==
  ASSUME IInv, NEW r \in Requests, InsertCharge(r)
  PROVE  IInv'
<1>1. pc[r] = "charge"
  BY DEF InsertCharge
<1>2. PICK c \in Charge(r) :
        \/ Refuse(r)
        \/ /\ Writes(r, c.doc, c.row)
           /\ pc' = [pc EXCEPT ![r] = "select"]
           /\ UNCHANGED <<committed, raced, doc, held, bare, plan, counts>>
  BY DEF InsertCharge
<1>3. CASE Refuse(r)
  BY <1>1, <1>3, RefuseKeeps
<1>4. CASE /\ Writes(r, c.doc, c.row)
           /\ pc' = [pc EXCEPT ![r] = "select"]
           /\ UNCHANGED <<committed, raced, doc, held, bare, plan, counts>>
  <2>1. /\ batch[r] = <<>> /\ out[r] = NoRows /\ doc[r] \in Orders
        /\ held[r].status = ChargedStatus(doc[r]) /\ Exists(doc[r]) /\ ~bare[r]
        /\ doc[r] \in Documents /\ held[r] \in Rows /\ held[r].status \in StatusesOf(doc[r])
    BY <1>1 DEF IInv, WorkInOrder, Local, InOrder, Busy
  <2>2. c.doc = ChargeOf(r) /\ c.row \in Rows /\ c.row.of = doc[r] /\ c.row.status = "DRAFT"
    <3>1. "DRAFT" \in Statuses /\ doc[r] \in Orders \cup {Null}
      BY <2>1 DEF Statuses, SalesStatuses
    <3>2. CASE doc[r] \in SalesOrders
      <4>1. PICK n \in Ticks : c = [doc |-> <<"INV", r>>,
                row |-> [number |-> <<"INV", n>>, status |-> "DRAFT", of |-> doc[r]]]
        BY <3>2 DEF Charge
      <4>2. QED
        BY <3>1, <3>2, <4>1 DEF Rows, ChargeOf
    <3>3. CASE doc[r] \notin SalesOrders
      <4>1. c = [doc |-> <<"BILL", r>>,
                row |-> [number |-> Null, status |-> "DRAFT", of |-> doc[r]]]
        BY <3>3 DEF Charge
      <4>2. QED
        BY <3>1, <3>3, <4>1 DEF Rows, ChargeOf
    <3>4. QED
      BY <3>2, <3>3
  <2>3. /\ ChargeOf(r) \in Own(r) /\ ~Exists(ChargeOf(r)) /\ doc[r] # ChargeOf(r)
        /\ ChargeOf(r) \in Invoices \cup Bills /\ ChargeOf(r) \in Documents
        /\ \A o \in Requests \ {r} : ChargeOf(r) \notin DOMAIN out[o]
    BY <1>1, ChargeIsOwn, Names DEF Busy
  <2>4. "DRAFT" \in StatusesOf(ChargeOf(r))
    BY <2>3, StatusNames DEF InvoiceStatuses, BillStatuses
  <2>5. /\ OutIsFunction' /\ \A o \in Requests \ {r} : out'[o] = out[o]
        /\ DOMAIN out'[r] = {ChargeOf(r)} /\ out'[r][ChargeOf(r)] = c.row
        /\ out'[r] = [e \in DOMAIN out'[r] |-> out'[r][e]]
    BY <1>4, <2>1, <2>2, WritesOne DEF IInv, NoRows
  <2>6. /\ pc'[r] = "select" /\ doc'[r] = doc[r] /\ held'[r] = held[r] /\ bare'[r] = bare[r]
        /\ batch'[r] = batch[r] /\ docs' = docs /\ raced' = raced /\ synced'[r] = synced[r]
    BY <1>4 DEF committed, counts, IInv, TypeOK
  <2>7. \A o \in Requests \ {r} : SameAs(o)
    BY <1>4, <2>5 DEF counts, SameAs, IInv, TypeOK
  <2>8. TypeOK'
    BY <1>4, <2>2, <2>3, <2>5 DEF committed, counts, IInv, TypeOK, StatusesOf
  <2>9. OutOk(r)' /\ InOrder(r)'
    BY <2>1, <2>2, <2>4, <2>5, <2>6 DEF OutOk, InOrder, StatusesOf, Busy, ChargeOf
  <2>10. KnowsDocument(r)'
    BY <2>1, <2>6 DEF KnowsDocument
  <2>11. ChargeFits(r)' /\ OfStays(r)'
    BY <2>1, <2>2, <2>3, <2>5, <2>6 DEF ChargeFits, OfStays, ChargeOf, ChargedStatus
  <2>12. KnowsStatus(r)'
    <3>1. KnowsStatus(r)
      BY DEF IInv, WorkInOrder, Local
    <3>2. QED
      BY <1>1, <2>1, <2>3, <2>5, <2>6, <3>1 DEF KnowsStatus, Busy, Moves, ChargeOf, ChargedStatus
  <2>13. \A o \in Requests \ {r} : DOMAIN out'[r] \cap DOMAIN out[o] = {}
    BY <2>3, <2>5
  <2>14. \A d \in synced'[r] : Exists(<<"SO", d>>)
    BY <2>6 DEF IInv, SyncedExist
  <2>15. /\ doc'[r] \in {Null, doc[r]} /\ pc[r] \notin Answered /\ raced \subseteq raced'
         /\ UNCHANGED committed
    BY <1>1, <1>4, <2>6
  <2>16. Local(r)'
    BY <2>9, <2>10, <2>11, <2>12 DEF Local
  <2>17. QED
    BY <2>5, <2>7, <2>8, <2>13, <2>14, <2>15, <2>16, NoCommitKeeps
<1>5. QED
  BY <1>2, <1>3, <1>4

\* What a request sees of the document at hand is a row, or Null.
LEMMA Seen ==
  ASSUME IInv, NEW r \in Requests, NEW d \in Documents
  PROVE  /\ Sees(r, d) \in Rows \cup {Null}
         /\ Sees(r, d) # Null => Sees(r, d).status \in StatusesOf(d)
         /\ d \in DOMAIN out[r] => Sees(r, d) # Null
<1>1. CASE d \in DOMAIN out[r]
  <2>1. out[r][d] \in Rows /\ out[r][d] # Null
    BY <1>1, TradeAssumption DEF IInv, TypeOK
  <2>2. out[r][d].status \in StatusesOf(d)
    BY <1>1 DEF IInv, WorkInOrder, Local, OutOk
  <2>3. QED
    BY <1>1, <2>1, <2>2 DEF Sees
<1>2. CASE d \notin DOMAIN out[r]
  BY <1>2 DEF Sees, IInv, TypeOK
<1>3. QED
  BY <1>1, <1>2

LEMMA SelectKeeps ==
  ASSUME IInv, NEW r \in Requests, Select(r)
  PROVE  IInv'
<1> USE DEF committed, counts
<1>1. /\ pc[r] = "select" /\ pc' = [pc EXCEPT ![r] = "write"]
      /\ UNCHANGED <<committed, raced, doc, held, bare, out, counts>>
  BY DEF Select
<1>2. PICK p : p = IF Sees(r, doc[r]) = Null THEN "insert"
                   ELSE IF Sees(r, doc[r]).status # held[r].status THEN "update"
                   ELSE IF held[r].status = "DRAFT" THEN "touch"
                   ELSE "nothing"
  OBVIOUS
<1>3. plan' = [plan EXCEPT ![r] = p] /\ p \in Plans /\ p # Null
  BY <1>2, TradeAssumption DEF Select, Plans
<1>4. /\ pc'[r] = "write" /\ plan'[r] = p /\ doc'[r] = doc[r] /\ held'[r] = held[r]
      /\ bare'[r] = bare[r] /\ batch'[r] = batch[r] /\ docs' = docs /\ raced' = raced
      /\ out' = out /\ synced'[r] = synced[r] /\ lines' = lines
  BY <1>1, <1>3 DEF IInv, TypeOK
<1>5. \A o \in Requests \ {r} : SameAs(o)
  BY <1>1, <1>3 DEF SameAs, IInv, TypeOK
<1>6. TypeOK' /\ OutIsFunction'
  BY <1>1, <1>3 DEF IInv, TypeOK, StatusesOf, OutIsFunction
<1>7. doc[r] \in Documents /\ held[r] \in Rows
  BY <1>1 DEF IInv, WorkInOrder, Local, InOrder, Busy
<1>8. OutOk(r)' /\ ChargeFits(r)' /\ OfStays(r)'
  BY <1>4 DEF IInv, WorkInOrder, Local, OutOk, ChargeFits, OfStays, StatusesOf, ChargeOf, ChargedStatus
<1>9. InOrder(r)'
  <2>1. InOrder(r)
    BY DEF IInv, WorkInOrder, Local
  <2>2. QED
    BY <1>1, <1>3, <1>4, <2>1 DEF InOrder, StatusesOf, Busy
<1>10. KnowsDocument(r)'
  <2>1. KnowsDocument(r)
    BY DEF IInv, WorkInOrder, Local
  <2>2. (Exists(doc[r]) /\ batch[r] = <<>>) \/ Syncs(r)
    BY <1>1, <2>1 DEF KnowsDocument, Creates, Busy
  <2>3. Syncs(r) => Syncs(r)'
    BY <1>1, <1>4 DEF Syncs
  <2>4. p # "insert" => Sees(r, doc[r]) # Null
    BY <1>2
  <2>5. ASSUME ~Exists(doc[r]), doc[r] \in DOMAIN out[r]
        PROVE  out[r][doc[r]] = held[r] /\ p = "nothing"
    <3>1. out[r][doc[r]] = held[r] /\ held[r].status = "CONFIRMED"
      BY <1>1, <2>1, <2>2, <2>5 DEF KnowsDocument, Busy, Syncs
    <3>2. QED
      BY <1>2, <1>7, <2>5, <3>1, TradeAssumption DEF Sees
  <2>6. ~Exists(doc[r]) => held[r].status \in CreatedStatuses(doc[r])
    BY <1>1, <2>1 DEF KnowsDocument, Busy
  <2>7. QED
    BY <1>4, <2>2, <2>3, <2>4, <2>5, <2>6 DEF KnowsDocument, Sees, CreatedStatuses
<1>11. KnowsStatus(r)'
  <2>1. KnowsStatus(r)
    BY DEF IInv, WorkInOrder, Local
  <2>2. SUFFICES ASSUME doc[r] \in Orders \ raced, Exists(doc[r])
                 PROVE  KnowsStatus(r)'
    BY <1>4 DEF KnowsStatus
  <2>3. /\ batch[r] = <<>> /\ Moves(doc[r], docs[doc[r]].status, held[r].status)
        /\ doc[r] \notin DOMAIN out[r]
        /\ held[r].status = ChargedStatus(doc[r]) => ChargeOf(r) \in DOMAIN out[r]
    BY <1>1, <2>1, <2>2 DEF KnowsStatus, Busy
  <2>4. p = IF docs[doc[r]].status = held[r].status THEN "touch" ELSE "update"
    BY <1>2, <2>2, <2>3 DEF Sees, Moves, SalesFlow, PurchaseFlow
  <2>5. QED
    BY <1>4, <2>3, <2>4 DEF KnowsStatus, Moves, ChargedStatus, ChargeOf
<1>12. Local(r)'
  BY <1>8, <1>9, <1>10, <1>11 DEF Local
<1>13. \A o \in Requests \ {r} : DOMAIN out'[r] \cap DOMAIN out[o] = {}
  BY <1>4 DEF IInv, OneWriter
<1>14. \A c \in synced'[r] : Exists(<<"SO", c>>)
  BY <1>4 DEF IInv, SyncedExist
<1>15. /\ doc'[r] \in {Null, doc[r]} /\ pc[r] \notin Answered /\ raced \subseteq raced'
       /\ UNCHANGED committed
  BY <1>1, <1>4
<1> HIDE DEF committed, counts
<1>16. QED
  BY <1>5, <1>6, <1>12, <1>13, <1>14, <1>15, NoCommitKeeps

\* The ticket at hand is that of the document at hand.
LEMMA TicketAtHand ==
  ASSUME IInv, NEW r \in Requests, Syncs(r)
  PROVE  /\ Head(batch[r]) \in Tickets /\ doc[r] \in SalesOrders /\ Syncing(r)
         /\ doc[r][2] = Head(batch[r])
<1>1. Head(batch[r]) \in Tickets
  BY HeadTailProperties DEF Syncs, IInv, TypeOK
<1>2. doc[r] \in SalesOrders /\ IsTicket(doc[r]) /\ doc[r][2] = Head(batch[r])
  BY <1>1, TicketNames DEF Syncs
<1>3. doc[r] # Null
  BY <1>2, Names
<1>4. QED
  BY <1>1, <1>2, <1>3 DEF Syncs, Syncing

\* A write that is not refused: what it knows before, and what holds after.
LEMMA WrittenRow ==
  ASSUME IInv, NEW r \in Requests, pc[r] = "write", ~ConstraintViolated(r)
  PROVE  /\ plan[r] # "nothing" =>
              RowWritten(r) \in Rows /\ RowWritten(r).status \in StatusesOf(doc[r])
         /\ plan[r] # "insert" => Sees(r, doc[r]) # Null
         /\ plan[r] = "insert" => ~Exists(doc[r]) /\ RowWritten(r) = held[r]
         /\ plan[r] \in {"touch", "update"} =>
              /\ RowWritten(r).of = Sees(r, doc[r]).of
              /\ plan[r] = "touch" => RowWritten(r).status = Sees(r, doc[r]).status
              /\ plan[r] = "update" => RowWritten(r).status = held[r].status
         /\ plan[r] \in Plans
<1>1. /\ doc[r] \in Documents /\ held[r] \in Rows /\ held[r].status \in StatusesOf(doc[r])
      /\ plan[r] # Null
  BY DEF IInv, WorkInOrder, Local, InOrder, Busy
<1>2. plan[r] # "insert" => Sees(r, doc[r]) # Null
  BY DEF IInv, WorkInOrder, Local, KnowsDocument, Busy
<1>3. plan[r] = "insert" => ~Exists(doc[r]) /\ RowWritten(r) = held[r]
  BY DEF ConstraintViolated, RowWritten
<1>4. plan[r] \in Plans
  BY <1>1 DEF IInv, TypeOK
<1>5. CASE plan[r] = "insert"
  BY <1>1, <1>3, <1>4, <1>5
<1>6. CASE plan[r] = "touch"
  BY <1>1, <1>2, <1>4, <1>6, Seen DEF RowWritten
<1>7. CASE plan[r] = "update"
  <2>1. RowWritten(r) = [Sees(r, doc[r]) EXCEPT !.status = held[r].status]
    BY <1>7 DEF RowWritten
  <2>2. Sees(r, doc[r]) \in Rows /\ held[r].status \in Statuses
    BY <1>1, <1>2, <1>7, Seen, StatusNames
  <2>3. /\ RowWritten(r) \in Rows /\ RowWritten(r).status = held[r].status
        /\ RowWritten(r).of = Sees(r, doc[r]).of
    BY <2>1, <2>2 DEF Rows
  <2>4. QED
    BY <1>1, <1>2, <1>4, <1>7, <2>3
<1>8. QED
  BY <1>2, <1>4, <1>5, <1>6, <1>7 DEF Plans

LEMMA WriteKeeps ==
  ASSUME IInv, NEW r \in Requests, Write(r)
  PROVE  IInv'
<1>1. /\ pc[r] = "write" /\ pc[r] \in Busy
      /\ plan[r] = "nothing" \/ ~RowLocked(r, doc[r])
  BY DEF Write, Busy
<1>2. CASE ConstraintViolated(r) /\ Fail(r)
  BY <1>1, <1>2, FailKeeps
<1>3. CASE /\ ~ConstraintViolated(r)
           /\ IF plan[r] = "nothing" THEN UNCHANGED out ELSE Writes(r, doc[r], RowWritten(r))
           /\ pc' = [pc EXCEPT ![r] = AfterWrite(r)]
           /\ bare' = [bare EXCEPT ![r] = @ /\ AfterWrite(r) = "commit"]
           /\ plan' = [plan EXCEPT ![r] = Null]
           /\ UNCHANGED <<committed, raced, doc, held, counts>>
  <2> DEFINE d == doc[r]
  <2>1. Local(r)
    BY DEF IInv, WorkInOrder
  <2>2. d \in Documents /\ held[r] \in Rows /\ held[r].status \in StatusesOf(d)
    BY <1>1, <2>1 DEF Local, InOrder
  <2>3. bare[r] => Syncs(r) /\ AfterWrite(r) = "select"
    <3>1. ASSUME bare[r] PROVE Syncs(r)
      BY <1>1, <2>1, <3>1 DEF Local, InOrder, KnowsDocument, Creates
    <3>2. QED
      BY <3>1, TicketAtHand DEF AfterWrite
  <2>4. /\ AfterWrite(r) \in {"select", "commit"}
        /\ pc'[r] = AfterWrite(r) /\ pc'[r] \in Busy /\ bare'[r] = FALSE
        /\ doc'[r] = d /\ held'[r] = held[r] /\ batch'[r] = batch[r]
        /\ docs' = docs /\ raced' = raced /\ synced'[r] = synced[r] /\ lines' = lines
    BY <1>3, <2>3 DEF committed, counts, IInv, TypeOK, AfterWrite, Busy
  <2>5. /\ plan[r] = "nothing" => out'[r] = out[r]
        /\ plan[r] # "nothing" =>
             /\ DOMAIN out'[r] = DOMAIN out[r] \cup {d} /\ out'[r][d] = RowWritten(r)
             /\ \A e \in DOMAIN out[r] \ {d} : out'[r][e] = out[r][e]
        /\ \A o \in Requests \ {r} : out'[o] = out[o]
        /\ OutIsFunction' /\ out'[r] = [e \in DOMAIN out'[r] |-> out'[r][e]]
    <3>1. CASE plan[r] = "nothing"
      BY <1>3, <2>1, <3>1 DEF IInv, OutIsFunction, Local, OutOk
    <3>2. CASE plan[r] # "nothing"
      BY <1>3, <3>2, WritesOne DEF IInv
    <3>3. QED
      BY <3>1, <3>2
  <2>6. /\ plan[r] # "nothing" =>
              RowWritten(r) \in Rows /\ RowWritten(r).status \in StatusesOf(d)
        /\ plan[r] # "insert" => Sees(r, d) # Null
        /\ plan[r] = "insert" => ~Exists(d) /\ RowWritten(r) = held[r]
        /\ plan[r] \in {"touch", "update"} =>
              /\ RowWritten(r).of = Sees(r, d).of
              /\ plan[r] = "touch" => RowWritten(r).status = Sees(r, d).status
              /\ plan[r] = "update" => RowWritten(r).status = held[r].status
        /\ plan[r] \in Plans
    BY <1>1, <1>3, WrittenRow
  <2>7. ChargeOf(r) # d
    BY <1>1, ChargeIsOwn
  <2>8. \A o \in Requests \ {r} : SameAs(o)
    BY <1>3, <2>5 DEF counts, SameAs, IInv, TypeOK
  <2>9. TypeOK'
    <3>1. /\ DOMAIN out'[r] \subseteq Documents /\ \A e \in DOMAIN out'[r] : out'[r][e] \in Rows
      BY <2>2, <2>5, <2>6 DEF IInv, TypeOK
    <3>2. \A o \in Requests : DOMAIN out'[o] \subseteq Documents /\ \A e \in DOMAIN out'[o] : out'[o][e] \in Rows
      BY <2>5, <3>1 DEF IInv, TypeOK
    <3>3. pc' \in [Requests -> {"idle"} \cup Working \cup Answered]
      BY <1>3, <2>4 DEF IInv, TypeOK
    <3>4. bare' \in [Requests -> BOOLEAN] /\ plan' \in [Requests -> Plans \cup {Null}]
      BY <1>3 DEF IInv, TypeOK
    <3>5. QED
      BY <1>3, <3>2, <3>3, <3>4 DEF committed, counts, IInv, TypeOK, StatusesOf
  <2>10. OutOk(r)' /\ InOrder(r)'
    BY <1>1, <2>1, <2>2, <2>4, <2>5, <2>6
       DEF Local, OutOk, InOrder, StatusesOf, Busy, ChargeOf
  <2>11. d \in DOMAIN out'[r] \/ Exists(d)
    BY <2>5, <2>6, <2>2 DEF Sees
  <2>12. Syncs(r) => Syncs(r)'
    <3>1. SUFFICES ASSUME Syncs(r) PROVE Syncs(r)'
      OBVIOUS
    <3>2. Syncing(r) /\ d[2] = Head(batch[r])
      BY <3>1, TicketAtHand
    <3>3. AfterWrite(r) = "commit" => lines[Head(batch[r])] = {}
      BY <1>3, <3>2 DEF AfterWrite, ConstraintViolated
    <3>4. DOMAIN out'[r] \subseteq {d}
      BY <2>5, <3>1 DEF Syncs
    <3>5. QED
      BY <2>4, <2>11, <3>1, <3>3, <3>4 DEF Syncs
  <2>13. Creates(r) => Creates(r)'
    BY <1>1, <2>4 DEF Creates, AfterWrite, Syncing
  <2>14. ~Exists(d) /\ d \in DOMAIN out'[r] => out'[r][d] = held[r]
    BY <1>1, <2>1, <2>5, <2>6 DEF Local, KnowsDocument, Sees
  <2>15. KnowsDocument(r)'
    BY <1>1, <2>1, <2>4, <2>11, <2>12, <2>13, <2>14 DEF Local, KnowsDocument, CreatedStatuses
  <2>16. ChargeFits(r)'
    BY <2>1, <2>4, <2>5, <2>7 DEF Local, ChargeFits, ChargeOf, ChargedStatus
  <2>17. OfStays(r)'
    BY <2>1, <2>4, <2>5, <2>6 DEF Local, OfStays, Sees, Plans
  <2>18. KnowsStatus(r)'
    <3>1. SUFFICES ASSUME d \in Orders \ raced, Exists(d) PROVE KnowsStatus(r)'
      BY <2>4 DEF KnowsStatus
    <3>2. /\ batch[r] = <<>> /\ Moves(d, docs[d].status, held[r].status)
          /\ d \notin DOMAIN out[r]
          /\ held[r].status = ChargedStatus(d) => ChargeOf(r) \in DOMAIN out[r]
          /\ plan[r] = IF docs[d].status = held[r].status THEN "touch" ELSE "update"
      BY <1>1, <2>1, <3>1 DEF Local, KnowsStatus
    <3>3. AfterWrite(r) = "commit"
      BY <3>2 DEF AfterWrite, Syncing
    <3>4. /\ d \in DOMAIN out'[r] /\ out'[r][d].status = held[r].status
          /\ held[r].status = ChargedStatus(d) => ChargeOf(r) \in DOMAIN out'[r]
      BY <2>5, <2>6, <3>2 DEF Sees
    <3>5. QED
      BY <2>4, <3>2, <3>3, <3>4 DEF KnowsStatus, Moves, ChargedStatus, ChargeOf
  <2>19. Local(r)'
    BY <2>10, <2>15, <2>16, <2>17, <2>18 DEF Local
  <2>20. \A o \in Requests \ {r} : DOMAIN out'[r] \cap DOMAIN out[o] = {}
    BY <1>1, <2>5 DEF RowLocked, IInv, OneWriter
  <2>21. \A c \in synced'[r] : Exists(<<"SO", c>>)
    BY <2>4 DEF IInv, SyncedExist
  <2>22. /\ doc'[r] \in {Null, doc[r]} /\ pc[r] \notin Answered /\ raced \subseteq raced'
         /\ UNCHANGED committed
    BY <1>1, <1>3, <2>4
  <2> HIDE DEF d
  <2>23. QED
    BY <2>5, <2>8, <2>9, <2>19, <2>20, <2>21, <2>22, NoCommitKeeps
<1>4. QED
  BY <1>2, <1>3 DEF Write

--------------------------------------------------------------------------------
(* A transaction commits.                                                       *)

\* What a commit does: it changes the document at hand and the request's charge,
\* of no document it makes none, and the request has nothing in hand any more.
LEMMA CommitEffect ==
  ASSUME IInv, NEW r \in Requests, Commit(r)
  PROVE  /\ doc[r] \in Documents /\ docs'[doc[r]] # Null
         /\ \A e \in Documents : docs'[e] = Sees(r, e) /\ (Exists(e) => Exists(e)')
         /\ \A e \in Documents \ DOMAIN out[r] : docs'[e] = docs[e]
         /\ \A e \in Orders \ {doc[r]} : docs'[e] = docs[e]
         /\ \A o \in Requests \ {r} : SameAs(o) /\ \A e \in DOMAIN out[o] : docs'[e] = docs[e]
         /\ pc'[r] \in {"ok", "sync"} /\ doc'[r] = Null /\ held'[r] = Null /\ bare'[r] = FALSE
         /\ out'[r] = NoRows /\ raced' = raced /\ filled' = filled
         /\ OutIsFunction'
<1>1. /\ pc[r] = "commit" /\ pc[r] \in Busy /\ docs' = [d \in Documents |-> Sees(r, d)]
      /\ Release(r) /\ raced' = raced /\ filled' = filled
  BY DEF Commit, NextTicket, Busy
<1>2. PICK to \in {"ok", "sync"} : pc' = [pc EXCEPT ![r] = to]
  BY DEF Commit, NextTicket
<1>3. /\ batch'[r] = batch'[r] /\ \A o \in Requests \ {r} :
           batch'[o] = batch[o] /\ synced'[o] = synced[o] /\ failed'[o] = failed[o]
  BY DEF Commit, NextTicket, Counted, counts, IInv, TypeOK
<1>4. \A o \in Requests \ {r} : SameAs(o)
  BY <1>1, <1>2, <1>3 DEF Release, SameAs, IInv, TypeOK, OutIsFunction
<1>5. Local(r)
  BY DEF IInv, WorkInOrder
<1>6. /\ doc[r] \in Documents /\ DOMAIN out[r] \subseteq {doc[r], ChargeOf(r)}
      /\ Exists(doc[r]) \/ doc[r] \in DOMAIN out[r]
  BY <1>1, <1>5 DEF Local, OutOk, InOrder, KnowsDocument
<1>7. \A e \in Documents : docs'[e] = Sees(r, e)
  BY <1>1
<1>8. \A e \in Documents \ DOMAIN out[r] : docs'[e] = docs[e]
  BY <1>7 DEF Sees
<1>9. \A e \in Documents : e \in DOMAIN out[r] => Exists(e)'
  BY <1>7, Seen
<1>10. /\ docs'[doc[r]] # Null
       /\ \A e \in Documents : Exists(e) => Exists(e)'
  <2>1. ASSUME NEW e \in Documents, Exists(e) \/ e \in DOMAIN out[r] PROVE Exists(e)'
    BY <1>8, <1>9, <2>1
  <2>2. QED
    BY <1>6, <2>1
<1>11. ChargeOf(r) \notin Orders /\ Orders \subseteq Documents
  BY <1>1, ChargeIsOwn, Names
<1>12. \A e \in Orders \ {doc[r]} : docs'[e] = docs[e]
  BY <1>6, <1>8, <1>11
<1>13. \A o \in Requests \ {r} : \A e \in DOMAIN out[o] : docs'[e] = docs[e]
  <2>1. \A o \in Requests \ {r} : DOMAIN out[o] \subseteq Documents \ DOMAIN out[r]
    BY DEF IInv, TypeOK, OneWriter
  <2>2. QED
    BY <1>8, <2>1
<1>14. /\ pc'[r] \in {"ok", "sync"} /\ doc'[r] = Null /\ held'[r] = Null /\ bare'[r] = FALSE
       /\ out'[r] = NoRows /\ OutIsFunction'
  BY <1>1, <1>2 DEF Release, IInv, TypeOK, OutIsFunction
<1>15. QED
  BY <1>1, <1>4, <1>6, <1>7, <1>8, <1>10, <1>12, <1>13, <1>14

\* A commit of a batch's order stores the ticket at hand; the others touch no lines.
LEMMA CommitOfTicket ==
  ASSUME IInv, NEW r \in Requests, Commit(r)
  PROVE  /\ batch[r] # <<>> => Syncs(r) /\ Syncing(r) /\ lines[Head(batch[r])] = {}
         /\ batch[r] = <<>> => ~Syncing(r) /\ (Exists(doc[r]) \/ Creates(r))
         /\ lines' = IF batch[r] # <<>> /\ Head(batch[r]) \notin EmptyTickets
                       THEN [lines EXCEPT ![Head(batch[r])] = {r}] ELSE lines
         /\ pc'[r] = "sync" => batch[r] # <<>>
         /\ IF batch[r] # <<>> THEN NextTicket(r) /\ Counted(r) ELSE UNCHANGED counts
<1>1. pc[r] = "commit" /\ pc[r] \in Busy
  BY DEF Commit, Busy
<1>2. Local(r) /\ ~bare[r]
  BY <1>1 DEF IInv, WorkInOrder, Local, InOrder
<1>3. /\ batch[r] # <<>> => Syncs(r)
      /\ batch[r] = <<>> => ~Syncing(r) /\ (Exists(doc[r]) \/ Creates(r))
  BY <1>1, <1>2 DEF Local, KnowsDocument, Creates, Syncs, Syncing
<1>4. batch[r] # <<>> => Syncing(r) /\ doc[r][2] = Head(batch[r]) /\ lines[Head(batch[r])] = {}
  BY <1>1, <1>3, TicketAtHand DEF Syncs
<1>5. IF batch[r] # <<>> THEN NextTicket(r) /\ Counted(r)
                         ELSE UNCHANGED counts /\ pc' = [pc EXCEPT ![r] = "ok"]
  BY <1>3, <1>4 DEF Commit
<1>6. pc'[r] = "sync" => batch[r] # <<>>
  BY <1>5 DEF IInv, TypeOK
<1>7. lines' = IF batch[r] # <<>> /\ Head(batch[r]) \notin EmptyTickets
                 THEN [lines EXCEPT ![Head(batch[r])] = {r}] ELSE lines
  BY <1>2, <1>3, <1>4 DEF Commit
<1>8. QED
  BY <1>3, <1>4, <1>5, <1>6, <1>7

\* What the others know when a request commits stays so.
LEMMA CommitLeavesOthers ==
  ASSUME IInv, NEW r \in Requests, Commit(r), NEW o \in Requests \ {r}
  PROVE  Local(o)'
<1> DEFINE f == doc[o]
<1>1. Local(o) /\ Local(r)
  BY DEF IInv, WorkInOrder
<1>2. /\ SameAs(o) /\ \A e \in DOMAIN out[o] : docs'[e] = docs[e]
      /\ \A e \in Documents : Exists(e) => docs'[e] # Null
      /\ \A e \in Orders \ {doc[r]} : docs'[e] = docs[e]
      /\ raced' = raced /\ doc[r] \in Documents
  BY CommitEffect
<1>3. /\ doc'[o] = f /\ pc'[o] = pc[o] /\ held'[o] = held[o] /\ bare'[o] = bare[o]
      /\ plan'[o] = plan[o] /\ out'[o] = out[o] /\ batch'[o] = batch[o]
  BY <1>2 DEF SameAs
<1>4. pc[o] \in Busy => f \in Documents
  BY <1>1 DEF Local, InOrder
<1>5. OutOk(o)' /\ InOrder(o)'
  <2>1. pc[o] = "charge" => docs'[f] # Null
    BY <1>1, <1>2, <1>4 DEF Local, InOrder, Busy
  <2>2. QED
    BY <1>1, <1>3, <2>1 DEF Local, OutOk, InOrder, StatusesOf, ChargeOf, ChargedStatus
<1>6. ChargeFits(o)' /\ OfStays(o)'
  <2>1. f \in Orders /\ Exists(f) => docs'[f] # Null
    BY <1>2, Names
  <2>2. QED
    BY <1>1, <1>2, <1>3, <2>1 DEF Local, ChargeFits, OfStays, ChargeOf, ChargedStatus
<1>7. KnowsDocument(o)'
  <2>1. SUFFICES ASSUME pc[o] \in Busy PROVE KnowsDocument(o)'
    BY <1>3 DEF KnowsDocument
  <2>2. f \in Documents /\ (Exists(f) => docs'[f] # Null)
    BY <1>2, <1>4, <2>1
  <2>3. KnowsDocument(o)
    BY <1>1 DEF Local
  <2>4. Creates(o) => Creates(o)'
    BY <1>3 DEF Creates
  <2>5. Syncs(o) => Syncs(o)'
    <3>1. SUFFICES ASSUME Syncs(o) PROVE Syncs(o)'
      OBVIOUS
    <3>2. Head(batch[o]) \in Tickets /\ f = <<"SO", Head(batch[o])>>
      BY <3>1, TicketAtHand DEF Syncs
    <3>3. ASSUME pc[o] = "commit" PROVE lines'[Head(batch[o])] = {}
      <4>1. lines[Head(batch[o])] = {}
        BY <3>1, <3>3 DEF Syncs
      <4>2. ASSUME batch[r] # <<>>, Head(batch[r]) \notin EmptyTickets PROVE Head(batch[o]) # Head(batch[r])
        <5>1. SUFFICES ASSUME Head(batch[o]) = Head(batch[r]) PROVE FALSE
          OBVIOUS
        <5>2. Syncs(r) /\ doc[r] = f
          BY <3>2, <4>2, <5>1, CommitOfTicket DEF Syncs
        <5>3. ~Exists(f)
          BY <3>2, <4>1, <4>2, <5>1 DEF IInv, LinesOfTickets
        <5>4. f \in DOMAIN out[o]
          BY <1>1, <2>1, <2>3, <3>3, <5>3 DEF KnowsDocument
        <5>5. f \in DOMAIN out[r]
          BY <1>1, <5>2, <5>3 DEF Syncs, Local, InOrder, Commit
        <5>6. QED
          BY <5>4, <5>5 DEF IInv, OneWriter
      <4>3. QED
        BY <3>2, <4>1, <4>2, CommitOfTicket DEF IInv, TypeOK
    <3>4. QED
      BY <1>3, <2>2, <3>1, <3>3 DEF Syncs
  <2>6. Sees(o, f) # Null => (f \in DOMAIN out[o] /\ out'[o][f] # Null) \/ docs'[f] # Null
    BY <1>3, <2>2 DEF Sees
  <2>7. QED
    BY <1>3, <2>1, <2>2, <2>3, <2>4, <2>5, <2>6 DEF KnowsDocument, CreatedStatuses, Sees
<1>8. KnowsStatus(o)'
  <2>1. SUFFICES ASSUME pc[o] \in Busy, f \in Orders \ raced PROVE KnowsStatus(o)'
    BY <1>2, <1>3 DEF KnowsStatus
  <2>2. f # doc[r]
    BY <2>1, Names, <1>4 DEF IInv, SharedIsRaced
  <2>3. docs'[f] = docs[f]
    BY <1>2, <2>1, <2>2
  <2>4. QED
    BY <1>1, <1>2, <1>3, <2>3 DEF Local, KnowsStatus, Moves, ChargeOf, ChargedStatus
<1>9. QED
  BY <1>5, <1>6, <1>7, <1>8 DEF Local

LEMMA CommitKeeps ==
  ASSUME IInv, NEW r \in Requests, Commit(r)
  PROVE  IInv'
<1>1. /\ doc[r] \in Documents /\ docs'[doc[r]] # Null
      /\ \A e \in Documents : docs'[e] = Sees(r, e) /\ (Exists(e) => docs'[e] # Null)
      /\ \A e \in Documents \ DOMAIN out[r] : docs'[e] = docs[e]
      /\ \A e \in Orders \ {doc[r]} : docs'[e] = docs[e]
      /\ \A o \in Requests \ {r} : SameAs(o)
      /\ pc'[r] \in {"ok", "sync"} /\ doc'[r] = Null /\ held'[r] = Null /\ bare'[r] = FALSE
      /\ out'[r] = NoRows /\ raced' = raced /\ filled' = filled /\ OutIsFunction'
  BY CommitEffect
<1>2. /\ batch[r] # <<>> => Syncs(r) /\ Syncing(r) /\ lines[Head(batch[r])] = {}
      /\ batch[r] = <<>> => ~Syncing(r) /\ (Exists(doc[r]) \/ Creates(r))
      /\ lines' = IF batch[r] # <<>> /\ Head(batch[r]) \notin EmptyTickets
                    THEN [lines EXCEPT ![Head(batch[r])] = {r}] ELSE lines
      /\ pc'[r] = "sync" => batch[r] # <<>>
      /\ IF batch[r] # <<>> THEN NextTicket(r) /\ Counted(r) ELSE UNCHANGED counts
  BY CommitOfTicket
<1>3. batch[r] # <<>> => /\ Head(batch[r]) \in Tickets /\ Tail(batch[r]) \in Seq(Tickets)
                         /\ doc[r] = <<"SO", Head(batch[r])>>
  BY <1>2, HeadTailProperties DEF IInv, TypeOK, Syncs
<1>4. TypeOK'
  <2>1. docs' = [d \in Documents |-> Sees(r, d)]
    BY DEF Commit
  <2>2. docs' \in [Documents -> Rows \cup {Null}]
    BY <2>1, Seen
  <2>3. \A d \in Documents : docs'[d] # Null => docs'[d].status \in StatusesOf(d)
    BY <1>1, Seen
  <2>4. lines' \in [Tickets -> SUBSET Requests]
    BY <1>2, <1>3 DEF IInv, TypeOK
  <2>5. /\ pc' \in [Requests -> {"idle"} \cup Working \cup Answered]
        /\ doc' \in [Requests -> Documents \cup {Null}] /\ held' \in [Requests -> Rows \cup {Null}]
        /\ bare' \in [Requests -> BOOLEAN] /\ plan' \in [Requests -> Plans \cup {Null}]
    <3>1. Release(r) /\ \E to \in {"ok", "sync"} : pc' = [pc EXCEPT ![r] = to]
      BY DEF Commit, NextTicket
    <3>2. pc' \in [Requests -> {"idle"} \cup Working \cup Answered]
      BY <3>1 DEF IInv, TypeOK
    <3>3. QED
      BY <3>1, <3>2 DEF Release, IInv, TypeOK
  <2>6. /\ batch' \in [Requests -> Seq(Tickets)] /\ synced' \in [Requests -> SUBSET Tickets]
        /\ failed' \in [Requests -> SUBSET Tickets]
    <3>1. CASE batch[r] # <<>>
      <4>1. /\ batch' = [batch EXCEPT ![r] = Tail(batch[r])] /\ failed' = failed
            /\ synced' = [synced EXCEPT ![r] = synced[r] \cup {Head(batch[r])}]
        BY <1>2, <3>1 DEF NextTicket, Counted, IInv, TypeOK
      <4>2. synced[r] \cup {Head(batch[r])} \in SUBSET Tickets
        BY <1>3, <3>1 DEF IInv, TypeOK
      <4>3. QED
        BY <1>3, <3>1, <4>1, <4>2 DEF IInv, TypeOK
    <3>2. CASE batch[r] = <<>>
      BY <1>2, <3>2 DEF counts, IInv, TypeOK
    <3>3. QED
      BY <3>1, <3>2
  <2>7. \A o \in Requests : /\ DOMAIN out'[o] \subseteq Documents
                            /\ \A d \in DOMAIN out'[o] : out'[o][d] \in Rows
    BY <1>1 DEF SameAs, NoRows, IInv, TypeOK
  <2>8. filled' \in BOOLEAN /\ raced' \subseteq Documents
    BY <1>1 DEF IInv, TypeOK
  <2>9. QED
    BY <2>2, <2>3, <2>4, <2>5, <2>6, <2>7, <2>8 DEF TypeOK, StatusesOf
<1>5. Local(r)'
  BY <1>1 DEF Local, OutOk, InOrder, KnowsDocument, ChargeFits, OfStays, KnowsStatus, Busy, NoRows
<1>6. WorkInOrder'
  BY <1>5, CommitLeavesOthers DEF WorkInOrder
<1>7. OneWriter'
  BY <1>1 DEF SameAs, NoRows, IInv, OneWriter
<1>8. NamesAreFresh'
  <2>1. SUFFICES ASSUME NEW o \in Requests, pc'[o] \notin Answered, NEW e \in Own(o)
                 PROVE  docs'[e] = Null /\ \A q \in Requests \ {o} : doc'[q] # e
    BY DEF NamesAreFresh, Own
  <2>2. pc[o] \notin Answered /\ e \in Documents
    BY <1>1, <2>1, Names DEF SameAs, Commit
  <2>3. ~Exists(e) /\ \A q \in Requests \ {o} : doc[q] # e
    BY <2>1, <2>2 DEF IInv, NamesAreFresh
  <2>4. \A q \in Requests \ {o} : doc'[q] # e
    BY <1>1, <2>2, <2>3, Names DEF SameAs
  <2>5. e \notin DOMAIN out[r]
    <3>1. DOMAIN out[r] \subseteq {doc[r], ChargeOf(r)}
      BY DEF IInv, WorkInOrder, Local, OutOk
    <3>2. CASE o = r
      <4>1. Syncs(r)
        BY <1>1, <1>2, <2>1, <3>2
      <4>2. DOMAIN out[r] \subseteq {<<"SO", Head(batch[r])>>}
        BY <4>1 DEF Syncs
      <4>3. QED
        <5>1. Head(batch[r]) \in Tickets
          BY <1>3, <4>1 DEF Syncs
        <5>2. <<"SO", Head(batch[r])>> \notin Own(r)
          BY <5>1, Names
        <5>3. QED
          BY <2>1, <3>2, <4>2, <5>2
    <3>3. CASE o # r
      <4>1. ChargeOf(r) \in Own(r)
        BY ChargeIsOwn DEF Commit
      <4>2. ChargeOf(r) \notin Own(o)
        BY <3>3, <4>1, Names
      <4>3. QED
        BY <2>1, <2>3, <3>1, <3>3, <4>2
    <3>4. QED
      BY <3>2, <3>3
  <2>6. QED
    BY <1>1, <2>2, <2>3, <2>4, <2>5
<1>9. SharedIsRaced'
  BY <1>1 DEF SameAs, IInv, SharedIsRaced
<1>10. LinesOfTickets'
  <2>1. SUFFICES ASSUME NEW c \in Tickets
                 PROVE  IF docs'[<<"SO", c>>] # Null /\ c \notin EmptyTickets
                          THEN \E o \in Requests : lines'[c] = {o} ELSE lines'[c] = {}
    BY DEF LinesOfTickets
  <2>2. <<"SO", c>> \in Orders /\ <<"SO", c>> \notin Own(r) /\ <<"SO", c>> \in Documents
    BY TicketNames, Names
  <2>3. CASE batch[r] # <<>> /\ Head(batch[r]) = c
    BY <1>1, <1>2, <1>3, <2>3 DEF IInv, TypeOK
  <2>4. CASE ~(batch[r] # <<>> /\ Head(batch[r]) = c)
    <3>1. lines'[c] = lines[c]
      BY <1>2, <1>3, <2>4 DEF IInv, TypeOK
    <3>2. docs'[<<"SO", c>>] # Null <=> Exists(<<"SO", c>>)
      <4>1. CASE doc[r] # <<"SO", c>>
        BY <1>1, <2>2, <4>1
      <4>2. CASE doc[r] = <<"SO", c>>
        <5>1. ~Creates(r)
          BY <2>2, <4>2 DEF Creates, Own
        <5>2. batch[r] # <<>> => Head(batch[r]) = c
          BY <1>3, <4>2
        <5>3. QED
          BY <1>1, <1>2, <2>4, <4>2, <5>1, <5>2
      <4>3. QED
        BY <4>1, <4>2
    <3>3. QED
      BY <3>1, <3>2 DEF IInv, LinesOfTickets
  <2>5. QED
    BY <2>3, <2>4
<1>11. SyncedExist'
  <2>1. \A o \in Requests : \A c \in synced'[o] :
          c \in synced[o] \/ (batch[r] # <<>> /\ c = Head(batch[r]))
    <3>1. ASSUME NEW c \in synced'[r] PROVE c \in synced[r] \/ (batch[r] # <<>> /\ c = Head(batch[r]))
      <4>1. CASE batch[r] # <<>>
        BY <1>2, <3>1, <4>1 DEF Counted, IInv, TypeOK
      <4>2. CASE batch[r] = <<>>
        BY <1>2, <3>1, <4>2 DEF counts
      <4>3. QED
        BY <4>1, <4>2
    <3>2. QED
      BY <1>1, <3>1 DEF SameAs
  <2>2. \A o \in Requests : \A c \in synced'[o] : c \in Tickets
    BY <1>4 DEF TypeOK
  <2>3. \A c \in Tickets : <<"SO", c>> \in Documents
    BY TicketNames, Names
  <2>4. \A o \in Requests : \A c \in synced'[o] : docs'[<<"SO", c>>] # Null
    BY <1>1, <1>3, <2>1, <2>2, <2>3 DEF IInv, SyncedExist
  <2>5. QED
    BY <2>4 DEF SyncedExist
<1>12. QED
  BY <1>1, <1>4, <1>6, <1>7, <1>8, <1>9, <1>10, <1>11 DEF IInv

--------------------------------------------------------------------------------
(* The invariant.                                                               *)

LEMMA CrashKeeps ==
  ASSUME IInv, ServerCrash
  PROVE  IInv'
<1> USE DEF committed, counts
<1>1. /\ UNCHANGED <<committed, raced, counts>>
      /\ \A r \in Requests :
           /\ pc'[r] = IF pc[r] \in Working THEN "lost" ELSE pc[r]
           /\ doc'[r] = Null /\ held'[r] = Null /\ bare'[r] = FALSE /\ plan'[r] = Null
           /\ out'[r] = NoRows
      /\ OutIsFunction'
  BY DEF ServerCrash, OutIsFunction
<1>2. TypeOK'
  <2>1. pc' \in [Requests -> {"idle"} \cup Working \cup Answered]
    BY DEF ServerCrash, IInv, TypeOK
  <2>2. /\ doc' \in [Requests -> Documents \cup {Null}] /\ held' \in [Requests -> Rows \cup {Null}]
        /\ bare' \in [Requests -> BOOLEAN] /\ plan' \in [Requests -> Plans \cup {Null}]
    BY DEF ServerCrash
  <2>3. QED
    BY <1>1, <2>1, <2>2 DEF IInv, TypeOK, StatusesOf, NoRows
<1>3. WorkInOrder'
  <2>1. SUFFICES ASSUME NEW r \in Requests PROVE Local(r)'
    BY DEF WorkInOrder
  <2>2. pc'[r] \notin Busy /\ (pc'[r] \in {"idle", "charge"} => pc[r] = "idle")
    BY <1>1 DEF Busy, IInv, TypeOK
  <2>3. pc'[r] \in {"idle", "charge"} => batch'[r] = <<>>
    BY <1>1, <2>2, Idle
  <2>4. QED
    BY <1>1, <2>2, <2>3
       DEF Local, OutOk, InOrder, KnowsDocument, ChargeFits, OfStays, KnowsStatus, Busy, NoRows
<1>4. OneWriter' /\ SharedIsRaced'
  BY <1>1 DEF OneWriter, SharedIsRaced, NoRows
<1>5. NamesAreFresh'
  <2>1. \A r \in Requests : Null \notin Own(r) /\ (pc'[r] \notin Answered => pc[r] \notin Answered)
    BY <1>1, Names
  <2>2. QED
    BY <1>1, <2>1 DEF IInv, NamesAreFresh
<1>6. LinesOfTickets' /\ SyncedExist'
  BY <1>1 DEF IInv, LinesOfTickets, SyncedExist
<1>7. QED
  BY <1>1, <1>2, <1>3, <1>4, <1>5, <1>6 DEF IInv

LEMMA StutterKeeps ==
  ASSUME IInv, UNCHANGED vars
  PROVE  IInv'
<1> USE DEF vars, committed, work, counts
<1>1. \A o \in Requests : SameAs(o)
  BY DEF SameAs
<1>2. WorkInOrder'
  BY <1>1, LocalStays DEF IInv, WorkInOrder
<1>3. QED
  BY <1>2 DEF IInv, TypeOK, OutIsFunction, OneWriter, NamesAreFresh, SharedIsRaced,
              LinesOfTickets, SyncedExist, StatusesOf

LEMMA InitHolds ==
  ASSUME Init
  PROVE  IInv
<1>1. PICK s \in [StartOrders -> UNION {Initially(d) : d \in StartOrders}] :
        /\ \A d \in StartOrders : s[d] \in Initially(d)
        /\ docs = [d \in Documents |->
             IF d \in StartOrders THEN [number |-> Null, status |-> s[d], of |-> Null] ELSE Null]
  BY DEF Init
<1>2. \A d \in Documents \ StartOrders : ~Exists(d)
  BY <1>1
<1>3. ASSUME NEW d \in StartOrders PROVE docs[d] \in Rows /\ docs[d].status \in StatusesOf(d)
  <2>1. d \in Documents /\ d \in SalesOrders \cup PurchaseOrders
    BY Names
  <2>2. docs[d] = [number |-> Null, status |-> s[d], of |-> Null] /\ s[d] \in Initially(d)
    BY <1>1, <2>1
  <2>3. s[d] \in StatusesOf(d)
    <3>1. CASE d \in SalesOrders
      BY <2>2, <3>1, StatusNames DEF Initially, SalesStatuses
    <3>2. CASE d \in PurchaseOrders
      <4>1. d \notin SalesOrders /\ StatusesOf(d) = PurchaseStatuses
        BY <3>2, Names, StatusNames
      <4>2. QED
        BY <2>2, <4>1 DEF Initially, PurchaseStatuses
    <3>3. QED
      BY <2>1, <3>1, <3>2
  <2>4. s[d] \in Statuses
    BY <2>1, <2>3, StatusNames
  <2>5. QED
    BY <2>2, <2>3, <2>4 DEF Rows
<1>4. /\ pc = [r \in Requests |-> "idle"] /\ lines = [c \in Tickets |-> {}]
      /\ doc = [r \in Requests |-> Null] /\ held = [r \in Requests |-> Null]
      /\ bare = [r \in Requests |-> FALSE] /\ plan = [r \in Requests |-> Null]
      /\ out = [r \in Requests |-> NoRows]
      /\ batch = [r \in Requests |-> <<>>] /\ filled \in BOOLEAN /\ raced = {}
      /\ synced = [r \in Requests |-> {}] /\ failed = [r \in Requests |-> {}]
  BY DEF Init
<1>5. TypeOK
  <2>1. docs \in [Documents -> Rows \cup {Null}] /\ \A d \in Documents : Exists(d) => docs[d].status \in StatusesOf(d)
    BY <1>1, <1>2, <1>3
  <2>2. batch \in [Requests -> Seq(Tickets)] /\ lines \in [Tickets -> SUBSET Requests]
    BY <1>4
  <2>3. \A r \in Requests : DOMAIN out[r] \subseteq Documents /\ \A d \in DOMAIN out[r] : out[r][d] \in Rows
    BY <1>4 DEF NoRows
  <2>4. QED
    BY <1>4, <2>1, <2>2, <2>3 DEF TypeOK
<1>6. WorkInOrder /\ OutIsFunction
  BY <1>4 DEF WorkInOrder, OutIsFunction, Local, OutOk, InOrder, KnowsDocument, ChargeFits, OfStays,
              KnowsStatus, Busy, NoRows
<1>7. OneWriter /\ SharedIsRaced /\ SyncedExist
  BY <1>4 DEF OneWriter, SharedIsRaced, SyncedExist, NoRows
<1>8. NamesAreFresh
  <2>1. ASSUME NEW r \in Requests, NEW d \in Own(r) PROVE d \in Documents \ StartOrders /\ d # Null
    <3>1. Own(r) \subseteq Documents /\ Own(r) \cap StartOrders = {} /\ Null \notin Documents
      BY Names
    <3>2. QED
      BY <3>1
  <2>2. QED
    BY <1>2, <1>4, <2>1 DEF NamesAreFresh
<1>9. LinesOfTickets
  <2>1. \A c \in Tickets : <<"SO", c>> \in Documents \ StartOrders
    BY TicketNames, Names
  <2>2. QED
    BY <1>2, <1>4, <2>1 DEF LinesOfTickets
<1>10. QED
  BY <1>5, <1>6, <1>7, <1>8, <1>9 DEF IInv

\* What the handlers that advance a document take it from, and to what.
LEMMA HandlersMove ==
  /\ \A d \in SalesOrders :
       /\ {"DRAFT", "CONFIRMED", "SENT", "CANCELLED", "INVOICED"} \subseteq StatusesOf(d)
       /\ d \in Documents /\ ChargedStatus(d) = "INVOICED" /\ d \in Orders
       /\ \A to \in {"DRAFT", "CONFIRMED", "SENT"} : Moves(d, "DRAFT", to)
       /\ \A from \in Cancellable : Moves(d, from, "CANCELLED")
       /\ Moves(d, "CONFIRMED", "INVOICED")
  /\ \A d \in PurchaseOrders :
       /\ {"PURCHASE_ORDER", "BILLED"} \subseteq StatusesOf(d)
       /\ d \in Documents /\ ChargedStatus(d) = "BILLED" /\ d \in Orders
       /\ \A from \in {"RFQ", "RFQ_SENT"} : Moves(d, from, "PURCHASE_ORDER")
       /\ \A from \in Billable : Moves(d, from, "BILLED")
  /\ \A d \in Invoices : "SENT" \in StatusesOf(d) /\ d \in Documents /\ d \notin Orders
  /\ \A d \in Bills : "POSTED" \in StatusesOf(d) /\ d \in Documents /\ d \notin Orders
<1>1. ASSUME NEW d \in SalesOrders
      PROVE  /\ {"DRAFT", "CONFIRMED", "SENT", "CANCELLED", "INVOICED"} \subseteq StatusesOf(d)
             /\ d \in Documents /\ ChargedStatus(d) = "INVOICED" /\ d \in Orders
             /\ \A to \in {"DRAFT", "CONFIRMED", "SENT"} : Moves(d, "DRAFT", to)
             /\ \A from \in Cancellable : Moves(d, from, "CANCELLED")
             /\ Moves(d, "CONFIRMED", "INVOICED")
  <2>1. d \in Documents /\ d \in Orders /\ StatusesOf(d) = SalesStatuses
    BY Names, StatusNames
  <2>2. QED
    BY <2>1 DEF SalesStatuses, ChargedStatus, Moves, SalesFlow, Cancellable
<1>2. ASSUME NEW d \in PurchaseOrders
      PROVE  /\ {"PURCHASE_ORDER", "BILLED"} \subseteq StatusesOf(d)
             /\ d \in Documents /\ ChargedStatus(d) = "BILLED" /\ d \in Orders
             /\ \A from \in {"RFQ", "RFQ_SENT"} : Moves(d, from, "PURCHASE_ORDER")
             /\ \A from \in Billable : Moves(d, from, "BILLED")
  <2>1. d \in Documents /\ d \in Orders /\ d \notin SalesOrders /\ StatusesOf(d) = PurchaseStatuses
    BY Names, StatusNames
  <2>2. QED
    BY <2>1 DEF PurchaseStatuses, ChargedStatus, Moves, PurchaseFlow, Billable
<1>3. QED
  BY <1>1, <1>2, Names, StatusNames DEF InvoiceStatuses, BillStatuses

LEMMA ReceiveKeeps ==
  ASSUME IInv, NEW r \in Requests, Receive(r)
  PROVE  IInv'
<1>1. CASE CreateOrder(r)
  <2>1. CASE pc[r] = "idle" /\ Refuse(r)
    BY <2>1, RefuseKeeps
  <2>2. CASE \E n \in Ticks :
         Create(r, <<"SO", r>>, [number |-> <<"SO", n>>, status |-> "DRAFT", of |-> Null])
    <3>1. PICK n \in Ticks :
         Create(r, <<"SO", r>>, [number |-> <<"SO", n>>, status |-> "DRAFT", of |-> Null])
      BY <2>2
    <3>2. "DRAFT" \in Statuses /\ "DRAFT" \in CreatedStatuses(<<"SO", r>>)
      BY Names DEF Statuses, SalesStatuses, CreatedStatuses
    <3>3. [number |-> <<"SO", n>>, status |-> "DRAFT", of |-> Null] \in Rows
      BY <3>2 DEF Rows
    <3>4. QED
      BY <3>1, <3>2, <3>3, CreateKeeps
  <2>3. QED
    BY <1>1, <2>1, <2>2 DEF CreateOrder
<1>2. CASE CreateRFQ(r)
  <2>1. CASE pc[r] = "idle" /\ Refuse(r)
    BY <2>1, RefuseKeeps
  <2>2. CASE \E n \in Ticks :
         Create(r, <<"PO", r>>, [number |-> <<"PO", n>>, status |-> "RFQ", of |-> Null])
    <3>1. PICK n \in Ticks :
         Create(r, <<"PO", r>>, [number |-> <<"PO", n>>, status |-> "RFQ", of |-> Null])
      BY <2>2
    <3>2. <<"PO", r>> \in PurchaseOrders /\ <<"PO", r>> \notin SalesOrders
      BY Names
    <3>3. "RFQ" \in Statuses /\ "RFQ" \in CreatedStatuses(<<"PO", r>>)
      BY <3>2 DEF Statuses, PurchaseStatuses, CreatedStatuses
    <3>4. [number |-> <<"PO", n>>, status |-> "RFQ", of |-> Null] \in Rows
      BY <3>3 DEF Rows
    <3>5. QED
      BY <3>1, <3>3, <3>4, CreateKeeps
  <2>3. QED
    BY <1>2, <2>1, <2>2 DEF CreateRFQ
<1>3. CASE UpdateOrder(r)
  <2>1. PICK d \in SalesOrders : OnDocument(r, d, {"DRAFT"}, "DRAFT", "select")
    BY <1>3 DEF UpdateOrder
  <2>2. QED
    BY <2>1, HandlersMove, OnDocumentKeeps
<1>4. CASE ConfirmOrder(r)
  <2>1. PICK d \in SalesOrders : OnDocument(r, d, {"DRAFT"}, "CONFIRMED", "select")
    BY <1>4 DEF ConfirmOrder
  <2>2. QED
    BY <2>1, HandlersMove, OnDocumentKeeps
<1>5. CASE SendQuote(r)
  <2>1. PICK d \in SalesOrders : OnDocument(r, d, {"DRAFT"}, "SENT", "select")
    BY <1>5 DEF SendQuote
  <2>2. QED
    BY <2>1, HandlersMove, OnDocumentKeeps
<1>6. CASE CancelOrder(r)
  <2>1. PICK d \in SalesOrders : OnDocument(r, d, Cancellable, "CANCELLED", "select")
    BY <1>6 DEF CancelOrder
  <2>2. QED
    BY <2>1, HandlersMove, OnDocumentKeeps
<1>7. CASE CreateInvoice(r)
  <2>1. PICK d \in SalesOrders : OnDocument(r, d, {"CONFIRMED"}, "INVOICED", "charge")
    BY <1>7 DEF CreateInvoice
  <2>2. QED
    BY <2>1, HandlersMove, OnDocumentKeeps
<1>8. CASE PostInvoice(r)
  <2>1. PICK d \in Invoices : OnDocument(r, d, {"DRAFT"}, "SENT", "select")
    BY <1>8 DEF PostInvoice
  <2>2. QED
    BY <2>1, HandlersMove, OnDocumentKeeps
<1>9. CASE ConfirmPurchase(r)
  <2>1. PICK d \in PurchaseOrders :
          OnDocument(r, d, {"RFQ", "RFQ_SENT"}, "PURCHASE_ORDER", "select")
    BY <1>9 DEF ConfirmPurchase
  <2>2. QED
    BY <2>1, HandlersMove, OnDocumentKeeps
<1>10. CASE CreateBill(r)
  <2>1. PICK d \in PurchaseOrders : OnDocument(r, d, Billable, "BILLED", "charge")
    BY <1>10 DEF CreateBill
  <2>2. QED
    BY <2>1, HandlersMove, OnDocumentKeeps
<1>11. CASE PostBill(r)
  <2>1. PICK d \in Bills : OnDocument(r, d, {"DRAFT"}, "POSTED", "select")
    BY <1>11 DEF PostBill
  <2>2. QED
    BY <2>1, HandlersMove, OnDocumentKeeps
<1>12. CASE SyncOrders(r)
  BY <1>12, SyncOrdersKeeps
<1>13. QED
  BY <1>1, <1>2, <1>3, <1>4, <1>5, <1>6, <1>7, <1>8, <1>9, <1>10, <1>11, <1>12 DEF Receive

\* Every step keeps the invariant.
THEOREM StepsKeep ==
  ASSUME IInv, [Next]_vars
  PROVE  IInv'
<1>1. ASSUME NEW r \in Requests, Receive(r) PROVE IInv'
  BY <1>1, ReceiveKeeps
<1>2. ASSUME NEW r \in Requests, Step(r) PROVE IInv'
  BY <1>2, InsertChargeKeeps, SyncNextKeeps, SyncDoneKeeps, SelectKeeps, WriteKeeps, CommitKeeps
     DEF Step
<1>3. CASE ServerCrash
  BY <1>3, CrashKeeps
<1>4. CASE Settled \/ UNCHANGED vars
  BY <1>4, StutterKeeps DEF Settled
<1>5. QED
  BY <1>1, <1>2, <1>3, <1>4 DEF Next

\* The inductive invariant: what each request knows of the document it works on,
\* that one of them at most has written its row, that whoever shares a document
\* is marked as racing, and who stored each ticket's lines.
THEOREM Invariance == Spec => []IInv
<1>1. Init => IInv
  BY InitHolds
<1>2. IInv /\ [Next]_vars => IInv'
  BY StepsKeep
<1>3. QED
  BY <1>1, <1>2, PTL DEF Spec

\* The variables keep their types, and every committed document has a status of
\* its kind.
THEOREM TradeTypes == Spec => []TypeOK
<1>1. IInv => TypeOK
  BY DEF IInv
<1>2. QED
  BY <1>1, Invariance, PTL

\* However often and however much at once an order of a terminal is sent, it is
\* stored once, with its lines (syncOrders).
THEOREM TicketsAreWhole == Spec => []TicketsWhole
<1>1. IInv => TicketsWhole
  BY FS_EmptySet, FS_Singleton DEF IInv, LinesOfTickets, TicketsWhole
<1>2. QED
  BY <1>1, Invariance, PTL

--------------------------------------------------------------------------------
(* What a batch reports.                                                        *)

\* No terminal sends an order twice in one batch.
NoRepeats == \A b \in Batches : \A i, j \in 1..Len(b) : b[i] = b[j] => i = j

\* What is left of a batch is not counted yet, and nothing is counted twice.
CountedApart(r) ==
  /\ pc[r] = "idle" => synced[r] = {} /\ failed[r] = {}
  /\ \A i, j \in 1..Len(batch[r]) : batch[r][i] = batch[r][j] => i = j
  /\ \A i \in 1..Len(batch[r]) : batch[r][i] \notin synced[r] \cup failed[r]
  /\ synced[r] \cap failed[r] = {}

\* What a step does to the counters of a request.
LEMMA CountsChange ==
  ASSUME IInv, [Next]_vars, NEW r \in Requests
  PROVE  \/ /\ batch'[r] = batch[r] /\ synced'[r] = synced[r] /\ failed'[r] = failed[r]
            /\ pc'[r] = "idle" => pc[r] = "idle"
         \/ /\ pc[r] = "idle" /\ batch'[r] \in Batches /\ pc'[r] # "idle"
            /\ synced'[r] = synced[r] /\ failed'[r] = failed[r]
         \/ /\ batch[r] # <<>> /\ batch'[r] = Tail(batch[r]) /\ pc'[r] # "idle"
            /\ \/ synced'[r] = synced[r] \cup {Head(batch[r])} /\ failed'[r] = failed[r]
               \/ failed'[r] = failed[r] \cup {Head(batch[r])} /\ synced'[r] = synced[r]
<1> DEFINE Kept == /\ batch'[r] = batch[r] /\ synced'[r] = synced[r] /\ failed'[r] = failed[r]
                   /\ pc'[r] = "idle" => pc[r] = "idle"
           Took == /\ pc[r] = "idle" /\ batch'[r] \in Batches /\ pc'[r] # "idle"
                   /\ synced'[r] = synced[r] /\ failed'[r] = failed[r]
           Did == /\ batch[r] # <<>> /\ batch'[r] = Tail(batch[r]) /\ pc'[r] # "idle"
                  /\ \/ synced'[r] = synced[r] \cup {Head(batch[r])} /\ failed'[r] = failed[r]
                     \/ failed'[r] = failed[r] \cup {Head(batch[r])} /\ synced'[r] = synced[r]
<1> USE DEF counts
<1>1. ASSUME NEW o \in Requests, UNCHANGED counts, NEW to, to # "idle", pc' = [pc EXCEPT ![o] = to]
      PROVE  Kept
  BY <1>1 DEF IInv, TypeOK
<1>2. ASSUME NEW o \in Requests, Refuse(o) PROVE Kept
  BY <1>1, <1>2 DEF Refuse
<1>3. ASSUME NEW o \in Requests, batch[o] # <<>>, NextTicket(o), Counted(o) \/ Uncounted(o)
      PROVE  Kept \/ Did
  <2>1. /\ pc' = [pc EXCEPT ![o] = "sync"] /\ batch' = [batch EXCEPT ![o] = Tail(batch[o])]
        /\ \/ /\ synced' = [synced EXCEPT ![o] = synced[o] \cup {Head(batch[o])}]
              /\ failed' = failed
           \/ /\ failed' = [failed EXCEPT ![o] = failed[o] \cup {Head(batch[o])}]
              /\ synced' = synced
    BY <1>3 DEF NextTicket, Counted, Uncounted, IInv, TypeOK
  <2>2. QED
    BY <1>3, <2>1 DEF IInv, TypeOK
<1> HIDE DEF Kept, Took, Did
<1>4. ASSUME NEW o \in Requests, Receive(o) PROVE Kept \/ Took
  <2>1. CASE SyncOrders(o)
    <3>1. PICK b \in Batches : batch' = [batch EXCEPT ![o] = b]
      BY <2>1 DEF SyncOrders
    <3>2. QED
      BY <2>1, <3>1 DEF SyncOrders, Kept, Took, IInv, TypeOK
  <2>2. ASSUME NEW d, NEW row, NEW next \in Working, Open(o, d, row, next), UNCHANGED counts
        PROVE  Kept
    BY <1>1, <2>2 DEF Open
  <2>3. ASSUME NEW d, NEW allowed, NEW to, NEW next \in Working, OnDocument(o, d, allowed, to, next)
        PROVE  Kept
    BY <1>2, <2>2, <2>3 DEF OnDocument
  <2>4. ASSUME NEW d, NEW row, Create(o, d, row) PROVE Kept
    BY <2>2, <2>4 DEF Create
  <2>5. ASSUME ~SyncOrders(o) PROVE Kept
    BY <1>2, <1>4, <2>3, <2>4, <2>5
       DEF Receive, CreateOrder, UpdateOrder, ConfirmOrder, SendQuote, CancelOrder, CreateInvoice,
           PostInvoice, CreateRFQ, ConfirmPurchase, CreateBill, PostBill
  <2>6. QED
    BY <2>1, <2>5
<1>5. ASSUME NEW o \in Requests, Step(o) PROVE Kept \/ Did
  <2>1. CASE InsertCharge(o)
    BY <1>1, <1>2, <2>1 DEF InsertCharge
  <2>2. CASE SyncNext(o)
    BY <1>1, <1>3, <2>2 DEF SyncNext, Open
  <2>3. CASE SyncDone(o)
    BY <1>1, <2>3 DEF SyncDone
  <2>4. CASE Select(o)
    BY <1>1, <2>4 DEF Select
  <2>5. CASE Write(o)
    <3>1. CASE Fail(o)
      BY <1>2, <1>3, <3>1 DEF Fail, Syncing
    <3>2. CASE ~Fail(o)
      <4>1. pc' = [pc EXCEPT ![o] = AfterWrite(o)] /\ UNCHANGED counts /\ AfterWrite(o) # "idle"
        BY <2>5, <3>2 DEF Write, AfterWrite
      <4>2. QED
        BY <1>1, <4>1
    <3>3. QED
      BY <3>1, <3>2
  <2>6. CASE Commit(o)
    BY <1>1, <1>3, <2>6 DEF Commit, Syncing
  <2>7. QED
    BY <1>5, <2>1, <2>2, <2>3, <2>4, <2>5, <2>6 DEF Step
<1>6. CASE ServerCrash
  BY <1>6 DEF ServerCrash, Kept
<1>7. CASE Settled \/ UNCHANGED vars
  BY <1>7 DEF Settled, vars, Kept
<1>8. QED
  BY <1>4, <1>5, <1>6, <1>7 DEF Next, Kept, Took, Did

LEMMA CountedApartStays ==
  ASSUME NoRepeats, IInv, [Next]_vars, NEW r \in Requests, CountedApart(r)
  PROVE  CountedApart(r)'
<1>1. CASE /\ batch'[r] = batch[r] /\ synced'[r] = synced[r] /\ failed'[r] = failed[r]
           /\ pc'[r] = "idle" => pc[r] = "idle"
  BY <1>1 DEF CountedApart
<1>2. CASE /\ pc[r] = "idle" /\ batch'[r] \in Batches /\ pc'[r] # "idle"
           /\ synced'[r] = synced[r] /\ failed'[r] = failed[r]
  BY <1>2 DEF CountedApart, NoRepeats
<1>3. CASE /\ batch[r] # <<>> /\ batch'[r] = Tail(batch[r]) /\ pc'[r] # "idle"
           /\ \/ synced'[r] = synced[r] \cup {Head(batch[r])} /\ failed'[r] = failed[r]
              \/ failed'[r] = failed[r] \cup {Head(batch[r])} /\ synced'[r] = synced[r]
  <2>1. batch[r] \in Seq(Tickets)
    BY DEF IInv, TypeOK
  <2>2. /\ Head(batch[r]) = batch[r][1] /\ 1 \in 1..Len(batch[r])
        /\ Len(batch'[r]) = Len(batch[r]) - 1 /\ Len(batch[r]) \in Nat
        /\ \A i \in 1..Len(batch'[r]) : batch'[r][i] = batch[r][i + 1] /\ i + 1 \in 1..Len(batch[r])
    BY <1>3, <2>1
  <2>3. \A i, j \in 1..Len(batch'[r]) : batch'[r][i] = batch'[r][j] => i = j
    BY <2>2 DEF CountedApart
  <2>4. \A i \in 1..Len(batch'[r]) : batch'[r][i] # Head(batch[r])
    BY <2>2 DEF CountedApart
  <2>5. Head(batch[r]) \notin synced[r] \cup failed[r]
    BY <2>2 DEF CountedApart
  <2>6. \A i \in 1..Len(batch'[r]) : batch'[r][i] \notin synced'[r] \cup failed'[r]
    BY <1>3, <2>2, <2>4 DEF CountedApart
  <2>7. synced'[r] \cap failed'[r] = {}
    BY <1>3, <2>5 DEF CountedApart
  <2>8. QED
    BY <1>3, <2>3, <2>6, <2>7 DEF CountedApart
<1>4. QED
  BY <1>1, <1>2, <1>3, CountsChange

\* What a batch reports as synced is stored, and is not reported as failed, too,
\* if a terminal sends no order twice in one batch (syncOrders).
THEOREM SyncedAreStored ==
  ASSUME NoRepeats
  PROVE  Spec => []SyncedStored
<1> DEFINE Apart == \A r \in Requests : CountedApart(r)
<1>1. Init => Apart
  BY DEF Init, CountedApart
<1>2. IInv /\ Apart /\ [Next]_vars => Apart'
  BY CountedApartStays
<1>3. IInv /\ Apart => SyncedStored
  BY DEF IInv, SyncedExist, CountedApart, SyncedStored
<1>4. QED
  BY <1>1, <1>2, <1>3, Invariance, PTL DEF Spec

--------------------------------------------------------------------------------
(* The refinements of OrderLife: what the steps do to what it sees.             *)

\* Of the steps that are no commit it sees at most that an order is contested.
LEMMA OnlyCommitsShow ==
  ASSUME IInv, [Next]_vars, ~\E r \in Requests : Commit(r)
  PROVE  docs' = docs /\ (raced' = raced \/ \E d : raced' = raced \cup {d})
<1> DEFINE Quiet == docs' = docs /\ (raced' = raced \/ \E d : raced' = raced \cup {d})
<1> USE DEF committed
<1>1. ASSUME UNCHANGED <<committed, raced>> PROVE Quiet
  BY <1>1
<1>2. ASSUME NEW r, NEW d, NEW row, NEW next, Open(r, d, row, next) PROVE Quiet
  <2>1. raced' = raced \cup {e \in {d} : \E o \in Others(r) : doc[o] = e} /\ docs' = docs
    BY <1>2 DEF Open
  <2>2. CASE \E o \in Others(r) : doc[o] = d
    BY <2>1, <2>2
  <2>3. CASE ~\E o \in Others(r) : doc[o] = d
    BY <2>1, <2>3
  <2>4. QED
    BY <2>2, <2>3
<1> HIDE DEF Quiet
<1>3. ASSUME NEW r \in Requests, Receive(r) PROVE Quiet
  <2>1. ASSUME NEW d, NEW allowed, NEW to, NEW next, OnDocument(r, d, allowed, to, next)
        PROVE  Quiet
    BY <1>1, <1>2, <2>1 DEF OnDocument, Refuse
  <2>2. ASSUME NEW d, NEW row, Create(r, d, row) PROVE Quiet
    BY <1>2, <2>2 DEF Create
  <2>3. QED
    BY <1>1, <1>3, <2>1, <2>2
       DEF Receive, CreateOrder, UpdateOrder, ConfirmOrder, SendQuote, CancelOrder, CreateInvoice,
           PostInvoice, CreateRFQ, ConfirmPurchase, CreateBill, PostBill, SyncOrders, Refuse
<1>4. ASSUME NEW r \in Requests, InsertCharge(r) \/ SyncNext(r) \/ SyncDone(r) \/ Select(r) \/ Write(r)
      PROVE  Quiet
  BY <1>1, <1>2, <1>4 DEF InsertCharge, SyncNext, SyncDone, Select, Write, Fail, Refuse
<1>5. CASE ServerCrash \/ Settled \/ UNCHANGED vars
  BY <1>1, <1>5 DEF ServerCrash, Settled, vars
<1>6. ASSUME NEW r \in Requests, Step(r) PROVE Quiet
  BY <1>4, <1>6 DEF Step
<1>7. CASE \E r \in Requests : Receive(r) \/ Step(r)
  BY <1>3, <1>6, <1>7 DEF Quiet
<1>8. QED
  BY <1>5, <1>7 DEF Next, Quiet

LEMMA ViewsStay ==
  ASSUME NEW S, docs' = docs
  PROVE  StatusIn(S)' = StatusIn(S) /\ ChargesIn(S)' = ChargesIn(S)
BY DEF StatusIn, ChargesIn, StatusOf, ChargesOf

LEMMA FinitelyManyCharges ==
  ASSUME NEW o
  PROVE  IsFiniteSet(ChargesOf(o)) /\ Cardinality(ChargesOf(o)) \in Nat
<1>1. IsFiniteSet(Invoices) /\ IsFiniteSet(Bills)
  BY FS_Singleton, FS_Product, TradeAssumption DEF Invoices, Bills
<1>2. IsFiniteSet(Invoices \cup Bills)
  BY <1>1, FS_Union
<1>3. IsFiniteSet(ChargesOf(o))
  BY <1>2, FS_Subset DEF ChargesOf
<1>4. QED
  BY <1>3, FS_CardinalityType

\* A commit charges the order at hand, if it has written a charge, and no other.
LEMMA CommitCharges ==
  ASSUME IInv, NEW r \in Requests, Commit(r), NEW o \in Orders
  PROVE  /\ ChargesOf(o)' = IF o = doc[r] /\ ChargeOf(r) \in DOMAIN out[r]
                              THEN ChargesOf(o) \cup {ChargeOf(r)} ELSE ChargesOf(o)
         /\ ChargeOf(r) \notin ChargesOf(o)
<1> DEFINE c == ChargeOf(r)
           Of(e, row) == row # Null /\ row.of = o
<1>1. /\ \A e \in Documents : docs'[e] = Sees(r, e)
      /\ \A e \in Documents \ DOMAIN out[r] : docs'[e] = docs[e]
  BY CommitEffect
<1>2. /\ c \in Invoices \cup Bills /\ ~Exists(c) /\ c \in Documents
  BY ChargeIsOwn, Names DEF Commit
<1>3. Local(r)
  BY DEF IInv, WorkInOrder
<1>4. DOMAIN out[r] \subseteq {doc[r], c}
  BY <1>3 DEF Local, OutOk
<1>5. ASSUME NEW e \in Invoices \cup Bills, e # c PROVE Of(e, docs'[e]) <=> Of(e, docs[e])
  <2>1. e \in Documents /\ e \notin Orders
    BY Names
  <2>2. CASE e \notin DOMAIN out[r]
    BY <1>1, <2>1, <2>2
  <2>3. CASE e \in DOMAIN out[r]
    <3>1. e = doc[r]
      BY <1>4, <1>5, <2>3
    <3>2. ~Creates(r)
      <4>1. <<"SO", r>> \in Orders /\ <<"PO", r>> \in Orders
        BY Names
      <4>2. QED
        BY <2>1, <3>1, <4>1 DEF Creates
    <3>3. ~Syncs(r)
      BY <2>1, <3>1, TicketAtHand, Names
    <3>4. Exists(e)
      BY <1>3, <3>1, <3>2, <3>3 DEF Local, KnowsDocument, Commit, Busy
    <3>5. docs'[e] = out[r][e] /\ docs'[e] # Null
      BY <1>1, <2>1, <2>3, Seen DEF Sees
    <3>6. docs'[e].of = docs[e].of
      BY <1>3, <2>3, <3>4, <3>5 DEF Local, OfStays
    <3>7. QED
      BY <3>4, <3>5, <3>6
  <2>4. QED
    BY <2>2, <2>3
<1>6. Of(c, docs'[c]) <=> (o = doc[r] /\ c \in DOMAIN out[r])
  <2>1. CASE c \in DOMAIN out[r]
    <3>1. docs'[c] = out[r][c] /\ docs'[c] # Null
      BY <1>1, <1>2, <2>1, Seen DEF Sees
    <3>2. out[r][c].of = doc[r]
      BY <1>3, <2>1 DEF Local, ChargeFits
    <3>3. QED
      BY <2>1, <3>1, <3>2
  <2>2. CASE c \notin DOMAIN out[r]
    BY <1>1, <1>2, <2>2
  <2>3. QED
    BY <2>1, <2>2
<1>7. /\ ChargesOf(o)' = {e \in Invoices \cup Bills : Of(e, docs'[e])}
      /\ ChargesOf(o) = {e \in Invoices \cup Bills : Of(e, docs[e])}
  BY DEF ChargesOf
<1>8. ~Of(c, docs[c])
  BY <1>2
<1> HIDE DEF c, Of
<1>9. /\ ChargesOf(o)' = IF o = doc[r] /\ c \in DOMAIN out[r] THEN ChargesOf(o) \cup {c} ELSE ChargesOf(o)
      /\ c \notin ChargesOf(o)
  <2>1. c \notin ChargesOf(o)
    BY <1>7, <1>8
  <2>2. \A e : e # c => (e \in ChargesOf(o)' <=> e \in ChargesOf(o))
    BY <1>5, <1>7
  <2>3. c \in ChargesOf(o)' <=> (o = doc[r] /\ c \in DOMAIN out[r])
    BY <1>2, <1>6, <1>7
  <2>4. QED
    BY <2>1, <2>2, <2>3
<1>10. QED
  BY <1>9 DEF c

\* What a commit of an order shows of it: it is created, or it advances along its
\* flow and is charged when it takes its charged status, or it is contested.
LEMMA CommitOfOrder ==
  ASSUME IInv, NEW r \in Requests, Commit(r), NEW S \in {SalesOrders, PurchaseOrders},
         NEW d \in S, d = doc[r]
  PROVE  \E s \in StatusesOf(d) :
           /\ StatusIn(S)' = [StatusIn(S) EXCEPT ![d] = s]
           /\ \/ /\ StatusIn(S)[d] = Null /\ s \in CreatedStatuses(d)
                 /\ ChargesIn(S)' = ChargesIn(S)
              \/ /\ StatusIn(S)[d] # Null /\ d \in raced
                 /\ ChargesIn(S)' \in {ChargesIn(S), [ChargesIn(S) EXCEPT ![d] = @ + 1]}
              \/ /\ StatusIn(S)[d] = s /\ ChargesIn(S)' = ChargesIn(S)
              \/ /\ d \notin raced
                 /\ <<StatusIn(S)[d], s>> \in IF d \in SalesOrders THEN SalesFlow ELSE PurchaseFlow
                 /\ ChargesIn(S)' =
                      [ChargesIn(S) EXCEPT ![d] = IF s = ChargedStatus(d) THEN @ + 1 ELSE @]
<1>1. /\ d \in Documents /\ docs'[d] # Null /\ docs'[d] = Sees(r, d)
      /\ \A e \in Orders \ {d} : docs'[e] = docs[e]
  BY CommitEffect
<1>2. S \subseteq Orders
  BY Names
<1>3. docs'[d].status \in StatusesOf(d)
  BY <1>1, Seen
<1>4. PICK s \in StatusesOf(d) : s = docs'[d].status
  BY <1>3
<1>5. StatusIn(S)' = [StatusIn(S) EXCEPT ![d] = s]
  BY <1>1, <1>2, <1>4 DEF StatusIn, StatusOf
<1>6. StatusIn(S)[d] = IF Exists(d) THEN docs[d].status ELSE Null
  BY DEF StatusIn, StatusOf
<1>7. ASSUME Exists(d) PROVE StatusIn(S)[d] # Null
  <2>1. docs[d] \in Rows /\ docs[d].status \in Statuses
    BY <1>1, <1>7, StatusNames DEF IInv, TypeOK
  <2>2. QED
    BY <1>6, <1>7, <2>1, TradeAssumption
<1>8. ASSUME ChargeOf(r) \notin DOMAIN out[r]
      PROVE  ChargesIn(S)' = ChargesIn(S)
  BY <1>2, <1>8, CommitCharges DEF ChargesIn
<1>9. ASSUME ChargeOf(r) \in DOMAIN out[r]
      PROVE  ChargesIn(S)' = [ChargesIn(S) EXCEPT ![d] = @ + 1]
  <2>1. \A o \in S \ {d} : ChargesOf(o)' = ChargesOf(o)
    BY <1>2, CommitCharges
  <2>2. Cardinality(ChargesOf(d)') = Cardinality(ChargesOf(d)) + 1
    BY <1>2, <1>9, CommitCharges, FinitelyManyCharges, FS_AddElement
  <2>3. QED
    BY <2>1, <2>2 DEF ChargesIn
<1>10. Local(r) /\ pc[r] = "commit" /\ pc[r] \in Busy
  BY DEF IInv, WorkInOrder, Commit, Busy
<1>11. CASE ~Exists(d)
  <2>1. d \in DOMAIN out[r] /\ out[r][d] = held[r] /\ held[r].status \in CreatedStatuses(d)
    BY <1>10, <1>11 DEF Local, KnowsDocument
  <2>2. s \in CreatedStatuses(d)
    BY <1>1, <1>4, <2>1 DEF Sees
  <2>3. ChargeOf(r) \notin DOMAIN out[r]
    BY <1>10, <1>11 DEF Local, ChargeFits
  <2>4. QED
    BY <1>5, <1>6, <1>8, <1>11, <2>2, <2>3
<1>12. CASE Exists(d) /\ d \in raced
  BY <1>5, <1>7, <1>8, <1>9, <1>12
<1>13. CASE Exists(d) /\ d \notin raced
  <2>1. /\ Moves(d, docs[d].status, held[r].status) /\ d \in DOMAIN out[r]
        /\ out[r][d].status = held[r].status
        /\ held[r].status = ChargedStatus(d) => ChargeOf(r) \in DOMAIN out[r]
    BY <1>2, <1>10, <1>13 DEF Local, KnowsStatus
  <2>2. s = held[r].status /\ Moves(d, StatusIn(S)[d], s)
    BY <1>1, <1>4, <1>6, <1>13, <2>1 DEF Sees
  <2>3. ChargeOf(r) \in DOMAIN out[r] <=> s = ChargedStatus(d)
    BY <1>10, <2>1, <2>2 DEF Local, ChargeFits
  <2>4. CASE StatusIn(S)[d] = "DRAFT" /\ s = "DRAFT"
    BY <1>5, <1>8, <2>3, <2>4 DEF ChargedStatus
  <2>5. CASE <<StatusIn(S)[d], s>> \in IF d \in SalesOrders THEN SalesFlow ELSE PurchaseFlow
    <3>1. ChargesIn(S) = [ChargesIn(S) EXCEPT ![d] = ChargesIn(S)[d]]
      BY DEF ChargesIn
    <3>2. ChargesIn(S)' = [ChargesIn(S) EXCEPT ![d] = IF s = ChargedStatus(d) THEN @ + 1 ELSE @]
      BY <1>8, <1>9, <2>3, <3>1
    <3>3. QED
      BY <1>5, <1>13, <2>5, <3>2
  <2>6. QED
    BY <2>2, <2>4, <2>5 DEF Moves
<1>14. QED
  BY <1>11, <1>12, <1>13

\* A commit of another document shows nothing of an order.
LEMMA CommitOfOther ==
  ASSUME IInv, NEW r \in Requests, Commit(r), NEW S \in {SalesOrders, PurchaseOrders}, doc[r] \notin S
  PROVE  StatusIn(S)' = StatusIn(S) /\ ChargesIn(S)' = ChargesIn(S)
<1>1. \A o \in S : o \in Orders \ {doc[r]}
  BY Names
<1>2. ASSUME NEW o \in S PROVE docs'[o] = docs[o] /\ ChargesOf(o)' = ChargesOf(o)
  <2>1. o \in Orders \ {doc[r]}
    BY <1>1
  <2>2. docs'[o] = docs[o]
    BY <2>1, CommitEffect
  <2>3. QED
    BY <2>1, <2>2, CommitCharges
<1>3. QED
  BY <1>2 DEF StatusIn, StatusOf, ChargesIn

\* At the start every order has a status it may be created with, and no charge.
LEMMA StartViews ==
  ASSUME Init, NEW S \in {SalesOrders, PurchaseOrders}
  PROVE  /\ \A o \in S : StatusIn(S)[o] \in StatusesOf(o) \cup {Null} /\ StatusIn(S)[o] # ChargedStatus(o)
         /\ ChargesIn(S) = [o \in S |-> 0] /\ raced = {}
<1>1. PICK s \in [StartOrders -> UNION {Initially(d) : d \in StartOrders}] :
        /\ \A d \in StartOrders : s[d] \in Initially(d)
        /\ docs = [d \in Documents |->
             IF d \in StartOrders THEN [number |-> Null, status |-> s[d], of |-> Null] ELSE Null]
  BY DEF Init
<1>2. S \subseteq Orders /\ S \subseteq Documents
  BY Names
<1>3. IInv
  BY InitHolds
<1>4. ASSUME NEW o \in S
      PROVE  /\ StatusIn(S)[o] \in StatusesOf(o) \cup {Null} /\ StatusIn(S)[o] # ChargedStatus(o)
             /\ ChargesOf(o) = {}
  <2>1. StatusIn(S)[o] = IF Exists(o) THEN docs[o].status ELSE Null
    BY DEF StatusIn, StatusOf
  <2>2. StatusIn(S)[o] \in StatusesOf(o) \cup {Null}
    BY <1>2, <1>3, <2>1 DEF IInv, TypeOK
  <2>3. StatusIn(S)[o] # ChargedStatus(o)
    <3>1. CASE Exists(o)
      <4>1. o \in StartOrders /\ docs[o].status = s[o]
        BY <1>1, <1>2, <3>1
      <4>2. QED
        BY <1>1, <2>1, <3>1, <4>1 DEF Initially, ChargedStatus
    <3>2. CASE ~Exists(o)
      BY <2>1, <3>2, TradeAssumption
         DEF ChargedStatus, Statuses, SalesStatuses, PurchaseStatuses
    <3>3. QED
      BY <3>1, <3>2
  <2>4. ChargesOf(o) = {}
    <3>1. \A e \in Invoices \cup Bills : e \in Documents \ StartOrders
      BY Names
    <3>2. QED
      BY <1>1, <3>1 DEF ChargesOf
  <2>5. QED
    BY <2>2, <2>3, <2>4
<1>5. QED
  BY <1>4, FS_EmptySet DEF ChargesIn, Init

LEMMA SalesInit == Init => SalesLife!Init
<1> SUFFICES ASSUME Init PROVE SalesLife!Init
  OBVIOUS
<1>1. /\ \A o \in SalesOrders : StatusIn(SalesOrders)[o] \in StatusesOf(o) \cup {Null}
                              /\ StatusIn(SalesOrders)[o] # ChargedStatus(o)
      /\ ChargesIn(SalesOrders) = [o \in SalesOrders |-> 0] /\ raced = {}
  BY StartViews
<1>2. \A o \in SalesOrders : StatusesOf(o) = SalesStatuses /\ ChargedStatus(o) = "INVOICED"
  BY StatusNames, Names DEF ChargedStatus
<1>3. StatusIn(SalesOrders) = [o \in SalesOrders |-> StatusIn(SalesOrders)[o]]
  BY DEF StatusIn
<1>4. StatusIn(SalesOrders) \in [SalesOrders -> SalesStatuses \cup {Null}]
  BY <1>1, <1>2, <1>3
<1>5. ChargesIn(SalesOrders) = [o \in SalesOrders |-> IF StatusIn(SalesOrders)[o] = "INVOICED" THEN 1 ELSE 0]
  BY <1>1, <1>2
<1>6. raced \cap SalesOrders = {}
  BY <1>1
<1>7. QED
  BY <1>4, <1>5, <1>6 DEF SalesLife!Init

LEMMA SalesStep == IInv /\ [Next]_vars => [SalesLife!Next]_SalesLife!vars
<1> SUFFICES ASSUME IInv, [Next]_vars PROVE [SalesLife!Next]_SalesLife!vars
  OBVIOUS
<1> DEFINE S == SalesOrders
<1>1. CASE ~\E r \in Requests : Commit(r)
  <2>1. docs' = docs /\ (raced' = raced \/ \E d : raced' = raced \cup {d})
    BY <1>1, OnlyCommitsShow
  <2>2. StatusIn(S)' = StatusIn(S) /\ ChargesIn(S)' = ChargesIn(S)
    BY <2>1, ViewsStay
  <2>3. raced' \cap S = raced \cap S \/ \E d \in S : raced' \cap S = (raced \cap S) \cup {d}
    BY <2>1
  <2>4. CASE raced' \cap S = raced \cap S
    BY <2>2, <2>4 DEF SalesLife!vars
  <2>5. ASSUME NEW d \in S, raced' \cap S = (raced \cap S) \cup {d} PROVE SalesLife!Next
    <3>1. SalesLife!Contest(d)
      BY <2>2, <2>5 DEF SalesLife!Contest
    <3>2. QED
      BY <3>1 DEF SalesLife!Next
  <2>6. QED
    BY <2>3, <2>4, <2>5
<1>2. ASSUME NEW r \in Requests, Commit(r) PROVE [SalesLife!Next]_SalesLife!vars
  <2>1. raced' \cap S = raced \cap S
    BY <1>2, CommitEffect
  <2>2. CASE doc[r] \notin S
    BY <1>2, <2>1, <2>2, CommitOfOther DEF SalesLife!vars
  <2>3. CASE doc[r] \in S
    <3>1. PICK d \in S : d = doc[r]
      BY <2>3
    <3>2. /\ StatusesOf(d) = SalesStatuses /\ ChargedStatus(d) = "INVOICED" /\ CreatedStatuses(d) = {"DRAFT", "CONFIRMED"}
          /\ (IF d \in SalesOrders THEN SalesFlow ELSE PurchaseFlow) = SalesFlow
      BY StatusNames, Names DEF ChargedStatus, CreatedStatuses
    <3>3. PICK s \in StatusesOf(d) :
           /\ StatusIn(S)' = [StatusIn(S) EXCEPT ![d] = s]
           /\ \/ /\ StatusIn(S)[d] = Null /\ s \in CreatedStatuses(d)
                 /\ ChargesIn(S)' = ChargesIn(S)
              \/ /\ StatusIn(S)[d] # Null /\ d \in raced
                 /\ ChargesIn(S)' \in {ChargesIn(S), [ChargesIn(S) EXCEPT ![d] = @ + 1]}
              \/ /\ StatusIn(S)[d] = s /\ ChargesIn(S)' = ChargesIn(S)
              \/ /\ d \notin raced
                 /\ <<StatusIn(S)[d], s>> \in IF d \in SalesOrders THEN SalesFlow ELSE PurchaseFlow
                 /\ ChargesIn(S)' =
                      [ChargesIn(S) EXCEPT ![d] = IF s = ChargedStatus(d) THEN @ + 1 ELSE @]
      BY <1>2, <3>1, CommitOfOrder
    <3>4. CASE StatusIn(S)[d] = Null /\ s \in CreatedStatuses(d) /\ ChargesIn(S)' = ChargesIn(S)
      <4>1. SalesLife!Create(d)
        BY <2>1, <3>2, <3>3, <3>4 DEF SalesLife!Create
      <4>2. QED
        BY <4>1 DEF SalesLife!Next
    <3>5. CASE /\ StatusIn(S)[d] # Null /\ d \in raced
               /\ ChargesIn(S)' \in {ChargesIn(S), [ChargesIn(S) EXCEPT ![d] = @ + 1]}
      <4>1. SalesLife!AdvanceContested(d)
        BY <2>1, <3>2, <3>3, <3>5 DEF SalesLife!AdvanceContested
      <4>2. QED
        BY <4>1 DEF SalesLife!Next
    <3>6. CASE StatusIn(S)[d] = s /\ ChargesIn(S)' = ChargesIn(S)
      <4>1. StatusIn(S)' = StatusIn(S)
        BY <3>3, <3>6 DEF StatusIn
      <4>2. QED
        BY <2>1, <3>6, <4>1 DEF SalesLife!vars
    <3>7. CASE /\ d \notin raced /\ <<StatusIn(S)[d], s>> \in SalesFlow
               /\ ChargesIn(S)' = [ChargesIn(S) EXCEPT ![d] = IF s = "INVOICED" THEN @ + 1 ELSE @]
      <4>1. SalesLife!Advance(d)
        BY <2>1, <3>2, <3>3, <3>7 DEF SalesLife!Advance
      <4>2. QED
        BY <4>1 DEF SalesLife!Next
    <3>8. QED
      BY <3>2, <3>3, <3>4, <3>5, <3>6, <3>7
  <2>4. QED
    BY <2>2, <2>3
<1>3. QED
  BY <1>1, <1>2

\* Every sales order no two requests have been at work on at once is created,
\* advanced along its flow and invoiced exactly once, in steps that commit its
\* status together with its invoice.
THEOREM SalesOrdersAreOrders == Spec => SalesFollowTheirFlow
BY Invariance, SalesInit, SalesStep, PTL DEF Spec, SalesFollowTheirFlow, SalesLife!Spec

LEMMA PurchaseInit == Init => PurchaseLife!Init
<1> SUFFICES ASSUME Init PROVE PurchaseLife!Init
  OBVIOUS
<1>1. /\ \A o \in PurchaseOrders : StatusIn(PurchaseOrders)[o] \in StatusesOf(o) \cup {Null}
                              /\ StatusIn(PurchaseOrders)[o] # ChargedStatus(o)
      /\ ChargesIn(PurchaseOrders) = [o \in PurchaseOrders |-> 0] /\ raced = {}
  BY StartViews
<1>2. \A o \in PurchaseOrders : StatusesOf(o) = PurchaseStatuses /\ ChargedStatus(o) = "BILLED"
  BY StatusNames, Names DEF ChargedStatus
<1>3. StatusIn(PurchaseOrders) = [o \in PurchaseOrders |-> StatusIn(PurchaseOrders)[o]]
  BY DEF StatusIn
<1>4. StatusIn(PurchaseOrders) \in [PurchaseOrders -> PurchaseStatuses \cup {Null}]
  BY <1>1, <1>2, <1>3
<1>5. ChargesIn(PurchaseOrders) = [o \in PurchaseOrders |-> IF StatusIn(PurchaseOrders)[o] = "BILLED" THEN 1 ELSE 0]
  BY <1>1, <1>2
<1>6. raced \cap PurchaseOrders = {}
  BY <1>1
<1>7. QED
  BY <1>4, <1>5, <1>6 DEF PurchaseLife!Init

LEMMA PurchaseStep == IInv /\ [Next]_vars => [PurchaseLife!Next]_PurchaseLife!vars
<1> SUFFICES ASSUME IInv, [Next]_vars PROVE [PurchaseLife!Next]_PurchaseLife!vars
  OBVIOUS
<1> DEFINE S == PurchaseOrders
<1>1. CASE ~\E r \in Requests : Commit(r)
  <2>1. docs' = docs /\ (raced' = raced \/ \E d : raced' = raced \cup {d})
    BY <1>1, OnlyCommitsShow
  <2>2. StatusIn(S)' = StatusIn(S) /\ ChargesIn(S)' = ChargesIn(S)
    BY <2>1, ViewsStay
  <2>3. raced' \cap S = raced \cap S \/ \E d \in S : raced' \cap S = (raced \cap S) \cup {d}
    BY <2>1
  <2>4. CASE raced' \cap S = raced \cap S
    BY <2>2, <2>4 DEF PurchaseLife!vars
  <2>5. ASSUME NEW d \in S, raced' \cap S = (raced \cap S) \cup {d} PROVE PurchaseLife!Next
    <3>1. PurchaseLife!Contest(d)
      BY <2>2, <2>5 DEF PurchaseLife!Contest
    <3>2. QED
      BY <3>1 DEF PurchaseLife!Next
  <2>6. QED
    BY <2>3, <2>4, <2>5
<1>2. ASSUME NEW r \in Requests, Commit(r) PROVE [PurchaseLife!Next]_PurchaseLife!vars
  <2>1. raced' \cap S = raced \cap S
    BY <1>2, CommitEffect
  <2>2. CASE doc[r] \notin S
    BY <1>2, <2>1, <2>2, CommitOfOther DEF PurchaseLife!vars
  <2>3. CASE doc[r] \in S
    <3>1. PICK d \in S : d = doc[r]
      BY <2>3
    <3>2. /\ StatusesOf(d) = PurchaseStatuses /\ ChargedStatus(d) = "BILLED" /\ CreatedStatuses(d) = {"RFQ"}
          /\ (IF d \in SalesOrders THEN SalesFlow ELSE PurchaseFlow) = PurchaseFlow
      BY StatusNames, Names DEF ChargedStatus, CreatedStatuses
    <3>3. PICK s \in StatusesOf(d) :
           /\ StatusIn(S)' = [StatusIn(S) EXCEPT ![d] = s]
           /\ \/ /\ StatusIn(S)[d] = Null /\ s \in CreatedStatuses(d)
                 /\ ChargesIn(S)' = ChargesIn(S)
              \/ /\ StatusIn(S)[d] # Null /\ d \in raced
                 /\ ChargesIn(S)' \in {ChargesIn(S), [ChargesIn(S) EXCEPT ![d] = @ + 1]}
              \/ /\ StatusIn(S)[d] = s /\ ChargesIn(S)' = ChargesIn(S)
              \/ /\ d \notin raced
                 /\ <<StatusIn(S)[d], s>> \in IF d \in SalesOrders THEN SalesFlow ELSE PurchaseFlow
                 /\ ChargesIn(S)' =
                      [ChargesIn(S) EXCEPT ![d] = IF s = ChargedStatus(d) THEN @ + 1 ELSE @]
      BY <1>2, <3>1, CommitOfOrder
    <3>4. CASE StatusIn(S)[d] = Null /\ s \in CreatedStatuses(d) /\ ChargesIn(S)' = ChargesIn(S)
      <4>1. PurchaseLife!Create(d)
        BY <2>1, <3>2, <3>3, <3>4 DEF PurchaseLife!Create
      <4>2. QED
        BY <4>1 DEF PurchaseLife!Next
    <3>5. CASE /\ StatusIn(S)[d] # Null /\ d \in raced
               /\ ChargesIn(S)' \in {ChargesIn(S), [ChargesIn(S) EXCEPT ![d] = @ + 1]}
      <4>1. PurchaseLife!AdvanceContested(d)
        BY <2>1, <3>2, <3>3, <3>5 DEF PurchaseLife!AdvanceContested
      <4>2. QED
        BY <4>1 DEF PurchaseLife!Next
    <3>6. CASE StatusIn(S)[d] = s /\ ChargesIn(S)' = ChargesIn(S)
      <4>1. StatusIn(S)' = StatusIn(S)
        BY <3>3, <3>6 DEF StatusIn
      <4>2. QED
        BY <2>1, <3>6, <4>1 DEF PurchaseLife!vars
    <3>7. CASE /\ d \notin raced /\ <<StatusIn(S)[d], s>> \in PurchaseFlow
               /\ ChargesIn(S)' = [ChargesIn(S) EXCEPT ![d] = IF s = "BILLED" THEN @ + 1 ELSE @]
      <4>1. PurchaseLife!Advance(d)
        BY <2>1, <3>2, <3>3, <3>7 DEF PurchaseLife!Advance
      <4>2. QED
        BY <4>1 DEF PurchaseLife!Next
    <3>8. QED
      BY <3>2, <3>3, <3>4, <3>5, <3>6, <3>7
  <2>4. QED
    BY <2>2, <2>3
<1>3. QED
  BY <1>1, <1>2

\* The same of every purchase order and its vendor bill.
THEOREM PurchaseOrdersAreOrders == Spec => PurchasesFollowTheirFlow
BY Invariance, PurchaseInit, PurchaseStep, PTL DEF Spec, PurchasesFollowTheirFlow, PurchaseLife!Spec
===============================================================================
