------------------------------ MODULE MasterData ------------------------------
(***************************************************************************)
(* The reference data of a tenant: employees and contracts (HrmsService),  *)
(* products (InventoryService), variants, categories, attributes and       *)
(* translations of products, locations, accounts, partners, payment terms, *)
(* and the tenants themselves.  Their services do the same four things:    *)
(* create after looking a code up, save an entity that was read with some  *)
(* of its relations, remove it or deactivate it, and change a mark of a    *)
(* related row.  They differ in what they look up, load and check, which   *)
(* are the sets below.                                                     *)
(*                                                                         *)
(* save() is TypeORM's.  It SELECTs the row and its loaded children again, *)
(* inserts what is not there, updates the columns that differ from the     *)
(* entity, puts the children the entity has back under it, and clears the  *)
(* parent of those the entity does not have.  A relation object overrides  *)
(* the id beside it.  The writes of one save are one step.  Every handler  *)
(* runs in the interceptor's transaction, at READ COMMITTED.               *)
(*                                                                         *)
(* A row is named after the request that created it.  Its `code` stands    *)
(* for a code, SKU, e-mail or name, or for plain data where nothing is     *)
(* looked up; its `mark` is hasVariants of a product, ACTIVE of a          *)
(* contract, and not isActive of a category, variant or tenant.            *)
(***************************************************************************)
EXTENDS Naturals, FiniteSets

CONSTANTS
  Requests,
  Root, Leaf,  \* the rows there may be at the start
  Codes,
  RootCode, LeafCode,
  Null         \* no row, nothing read, nothing asked

Ids == Requests \cup {Root, Leaf}

\* The tables that one request may touch together.
Families ==
  { {"employee", "contract"}, {"product", "variant", "translation"}, {"category"},
    {"location"}, {"attribute"}, {"account"}, {"partner"}, {"tenant"}, {"paymentTerm"} }
Tables == UNION Families

ParentTable ==
  [contract |-> "employee", variant |-> "product", translation |-> "product",
   category |-> "category", location |-> "location"]
WithParent == DOMAIN ParentTable

\* The foreign key is NOT NULL and the row goes with its parent.
Owned == {"contract", "variant", "translation"}

\* create() looks the code up; so does update() for a new one; the column is UNIQUE.
LooksUpOnCreate ==
  {"product", "variant", "category", "attribute", "account", "tenant", "employee"}
LooksUpOnUpdate == LooksUpOnCreate \ {"employee"}
UniqueCode == LooksUpOnCreate \ {"account"}

\* create() looks the parent up.  update() reads the parent, the children.
FindsParent == {"contract", "variant"}
ReadWithParent == {"contract", "variant", "category"}
LoadedChildren == [employee |-> "contract", product |-> "translation", category |-> "category"]
\* The children are saved with the entity (cascade: true).
SavesChildren == {"employee", "product"}

\* What the DELETE endpoints do: deactivate, remove what was read, delete by id.
SoftRemoved == {"category", "variant", "tenant"}
HardRemoved == {"employee", "contract", "attribute", "partner"}
DeletedById == {"paymentTerm"}
Updatable == Tables \ {"translation"}

Fields == {"code", "parent", "mark"}
Rows ==
  {row \in [table: Tables, code: Codes, parent: Ids \cup {Null}, mark: BOOLEAN] :
     row.parent # Null => row.table \in WithParent}
Asks ==
  [op: {"create", "change", "delete"}, id: Ids, row: Rows \cup {Null},
   change: [field: Fields, value: Codes \cup Ids \cup BOOLEAN] \cup {Null}]

ASSUME ConstantsAssumption ==
  /\ IsFiniteSet(Requests) /\ Root # Leaf /\ {Root, Leaf} \cap Requests = {}
  /\ {RootCode, LeafCode} \subseteq Codes /\ RootCode # LeafCode
  /\ Null \notin Ids \cup Codes \cup BOOLEAN \cup Rows \cup Asks

VARIABLES
  family,  \* the tables in play
  rows,    \* the committed row of each id, or Null
  ideal,   \* history: the rows, had each acknowledged request run alone
  raced,   \* history: the rows that two requests were at work on at once
  pc,      \* where each request is, or how it was answered
  ask,     \* what it is to do, or Null
  near,    \* the rows it read or refers to
  target,  \* the row it saves or removes
  held,    \* the entity: row, loaded children if any, and a product to mark
  plan,    \* what save() has found to write
  out      \* its uncommitted writes: a row, or Null for a deletion

vars == <<family, rows, ideal, raced, pc, ask, near, target, held, plan, out>>
committed == <<family, rows, ideal>>

Working == {"select", "write", "remove", "commit"}
Answered == {"ok", "refused", "lost"}

--------------------------------------------------------------------------------

Others(r) == Requests \ {r}
Is(i, t) == i \in Ids /\ rows[i] # Null /\ rows[i].table = t
Taken(t, c) == \E i \in Ids : Is(i, t) /\ rows[i].code = c
ChildrenIn(db, i, t) == {k \in Ids : db[k] # Null /\ db[k].table = t /\ db[k].parent = i}
NoWrites == [i \in {} |-> Null]

\* The children that come with the entity of row i.
Children(db, i, t) ==
  IF t \in DOMAIN LoadedChildren THEN ChildrenIn(db, i, LoadedChildren[t]) ELSE {}

\* Object.assign(entity, dto): a parent that was read overrides a new parentId.
Changed(row, change) ==
  IF change.field = "parent" /\ row.table \in ReadWithParent /\ row.parent # Null
    THEN row
    ELSE [row EXCEPT ![change.field] = change.value]

Marked == [field |-> "mark", value |-> TRUE]
Changes(t) ==
  [field: {"code"}, value: Codes]
  \cup (IF t \in {"category", "location"} THEN [field: {"parent"}, value: Ids] ELSE {})
  \cup (IF t \in SoftRemoved THEN [field: {"mark"}, value: BOOLEAN] ELSE {})

--------------------------------------------------------------------------------
(* The ways a request ends.                                                   *)

Answer(r, how) ==
  /\ pc' = [pc EXCEPT ![r] = how]
  /\ ask' = [ask EXCEPT ![r] = Null]
  /\ near' = [near EXCEPT ![r] = {}]
  /\ target' = [target EXCEPT ![r] = Null]
  /\ held' = [held EXCEPT ![r] = Null]
  /\ plan' = [plan EXCEPT ![r] = NoWrites]
  /\ out' = [out EXCEPT ![r] = NoWrites]

\* MUTANT of Refuse: the request is answered, its transaction stays open.
RefuseWithoutRollback(r) ==
  /\ pc' = [pc EXCEPT ![r] = "refused"]
  /\ UNCHANGED <<committed, raced, ask, near, target, held, plan, out>>

\* The handler or a statement throws: everything is rolled back.
Refuse(r) == Answer(r, "refused") /\ UNCHANGED <<committed, raced>>

--------------------------------------------------------------------------------
(* Requests come in: they read what they need, check it, and go on.           *)

Begin(r, asked, refers, entity, writes, next) ==
  LET set == refers \ {Null}
      met == {o \in Others(r) : near[o] \cap set # {}} IN
  /\ ask' = [ask EXCEPT ![r] = asked]
  /\ near' = [near EXCEPT ![r] = set]
  /\ raced' = IF met = {} THEN raced ELSE raced \cup set \cup UNION {near[o] : o \in met}
  /\ target' = [target EXCEPT ![r] = asked.id]
  /\ held' = [held EXCEPT ![r] = entity]
  /\ plan' = [plan EXCEPT ![r] = writes]
  /\ pc' = [pc EXCEPT ![r] = next]
  /\ UNCHANGED <<committed, out>>

Insertion(row) == [new |-> TRUE, row |-> row, set |-> {}]

\* Insert row under the id r, and mark its product afterwards.
BeginCreate(r, row, product) ==
  Begin(r, [op |-> "create", id |-> r, row |-> row, change |-> Null], {r, row.parent},
        [row |-> row, kids |-> Null, product |-> product],
        [i \in {r} |-> Insertion(row)], "write")

\* MUTANT of MarksProduct: the test is the wrong way round.
MarksMarkedProduct(product) == product.mark
MarksProduct(product) == ~product.mark

Create(r, t) ==
  /\ pc[r] = "idle" /\ t \in family
  /\ \E c \in Codes, p \in IF t \in WithParent THEN (Ids \ {r}) \cup {Null} ELSE {Null} :
       LET refused == \/ t \in LooksUpOnCreate /\ Taken(t, c)
                      \/ t \in FindsParent /\ ~Is(p, ParentTable[t])
           product == IF t = "variant" /\ MarksProduct(rows[p]) THEN rows[p] ELSE Null IN
       /\ t \in Owned => p # Null
       /\ \/ refused /\ Refuse(r)
          \/ /\ ~refused
             /\ BeginCreate(r, [table |-> t, code |-> c, parent |-> p, mark |-> FALSE], product)

\* The SKUs are made up from the product's and not looked up; at most one of the
\* combinations is modelled.  The product is marked even if there is none.
GenerateVariants(r) ==
  /\ pc[r] = "idle" /\ "variant" \in family
  /\ \E p \in Ids \ {r} :
       \/ ~Is(p, "product") /\ Refuse(r)
       \/ /\ Is(p, "product")
          /\ \E c \in Codes :
               BeginCreate(r, [table |-> "variant", code |-> c, parent |-> p, mark |-> FALSE], rows[p])
       \/ /\ Is(p, "product")
          /\ Begin(r, [op |-> "change", id |-> p, row |-> Null, change |-> Marked], {p},
                   [row |-> Changed(rows[p], Marked), kids |-> Null, product |-> Null],
                   NoWrites, "select")

\* Read row i of table t with its relations, apply the change, save.
ReadAndChange(r, t, i, change) ==
  LET kids == Children(rows, i, t) IN
  Begin(r, [op |-> "change", id |-> i, row |-> Null, change |-> change],
        {i, rows[i].parent} \cup kids \cup (IF change.field = "parent" THEN {change.value} ELSE {}),
        [row |-> Changed(rows[i], change), kids |-> [k \in kids |-> rows[k]], product |-> Null],
        NoWrites, "select")

Update(r, t) ==
  /\ pc[r] = "idle" /\ t \in family \cap Updatable
  /\ \E i \in Ids \ {r}, change \in Changes(t) :
       LET taken == /\ t \in LooksUpOnUpdate /\ change.field = "code"
                    /\ change.value # rows[i].code /\ Taken(t, change.value) IN
       \/ ~Is(i, t) /\ Refuse(r)
       \/ Is(i, t) /\ taken /\ Refuse(r)
       \/ Is(i, t) /\ ~taken /\ ReadAndChange(r, t, i, change)

ActivateContract(r) ==
  /\ pc[r] = "idle" /\ "contract" \in family
  /\ \E i \in Ids \ {r} :
       \/ ~Is(i, "contract") /\ Refuse(r)
       \/ Is(i, "contract") /\ ReadAndChange(r, "contract", i, Marked)

\* A category is not deactivated while it has subcategories.
Deactivate(r, t) ==
  /\ pc[r] = "idle" /\ t \in family \cap SoftRemoved
  /\ \E i \in Ids \ {r} :
       \/ ~Is(i, t) /\ Refuse(r)
       \/ Is(i, t) /\ Children(rows, i, t) # {} /\ Refuse(r)
       \/ Is(i, t) /\ Children(rows, i, t) = {} /\ ReadAndChange(r, t, i, Marked)

\* delete(id) reads nothing first.
Delete(r, t) ==
  /\ pc[r] = "idle" /\ t \in family \cap (HardRemoved \cup DeletedById)
  /\ \E i \in Ids \ {r} :
       \/ ~Is(i, t) /\ Refuse(r)
       \/ /\ Is(i, t) \/ t \in DeletedById
          /\ Begin(r, [op |-> "delete", id |-> i, row |-> Null, change |-> Null],
                   {i} \cup Children(rows, i, t), Null, NoWrites, "remove")

--------------------------------------------------------------------------------
(* The services.                                                              *)

CreateEmployee(r) == Create(r, "employee")
UpdateEmployee(r) == Update(r, "employee")
RemoveEmployee(r) == Delete(r, "employee")
AddContract(r) == Create(r, "contract")
UpdateContract(r) == Update(r, "contract")
RemoveContract(r) == Delete(r, "contract")
HrmsService(r) ==
  \/ CreateEmployee(r) \/ UpdateEmployee(r) \/ RemoveEmployee(r)
  \/ AddContract(r) \/ UpdateContract(r) \/ RemoveContract(r) \/ ActivateContract(r)

CreateProduct(r) == Create(r, "product")
UpdateProduct(r) == Update(r, "product")
CreateLocation(r) == Create(r, "location")
UpdateLocation(r) == Update(r, "location")
InventoryService(r) ==
  CreateProduct(r) \/ UpdateProduct(r) \/ CreateLocation(r) \/ UpdateLocation(r)

CreateVariant(r) == Create(r, "variant")
UpdateVariant(r) == Update(r, "variant")
RemoveVariant(r) == Deactivate(r, "variant")
ProductVariantService(r) ==
  CreateVariant(r) \/ UpdateVariant(r) \/ RemoveVariant(r) \/ GenerateVariants(r)

CreateCategory(r) == Create(r, "category")
UpdateCategory(r) == Update(r, "category")
RemoveCategory(r) == Deactivate(r, "category")
ProductCategoryService(r) == CreateCategory(r) \/ UpdateCategory(r) \/ RemoveCategory(r)

CreateAttribute(r) == Create(r, "attribute")
UpdateAttribute(r) == Update(r, "attribute")
RemoveAttribute(r) == Delete(r, "attribute")
ProductAttributeService(r) == CreateAttribute(r) \/ UpdateAttribute(r) \/ RemoveAttribute(r)

CreateAccount(r) == Create(r, "account")
UpdateAccount(r) == Update(r, "account")
AccountService(r) == CreateAccount(r) \/ UpdateAccount(r)

CreatePaymentTerm(r) == Create(r, "paymentTerm")
UpdatePaymentTerm(r) == Update(r, "paymentTerm")
DeletePaymentTerm(r) == Delete(r, "paymentTerm")
FinanceService(r) == CreatePaymentTerm(r) \/ UpdatePaymentTerm(r) \/ DeletePaymentTerm(r)

CreatePartner(r) == Create(r, "partner")
UpdatePartner(r) == Update(r, "partner")
RemovePartner(r) == Delete(r, "partner")
PartnerService(r) == CreatePartner(r) \/ UpdatePartner(r) \/ RemovePartner(r)

CreateTenant(r) == Create(r, "tenant")
UpdateTenant(r) == Update(r, "tenant")
RemoveTenant(r) == Deactivate(r, "tenant")
TenantService(r) == CreateTenant(r) \/ UpdateTenant(r) \/ RemoveTenant(r)

I18nService(r) == Create(r, "translation")

--------------------------------------------------------------------------------
(* save() and the database.                                                   *)

\* What r sees: the committed rows and its own writes.
Seen(r) == [i \in Ids |-> IF i \in DOMAIN out[r] THEN out[r][i] ELSE rows[i]]

Difference(entity, row) == {f \in Fields : entity[f] # row[f]}
Columns(entity, set) == [new |-> FALSE, row |-> entity, set |-> set]

SelectForSave(r) ==
  /\ pc[r] = "select"
  /\ LET db == Seen(r)
         i == target[r]
         t == held[r].row.table
         loaded == held[r].kids # Null
         kids == IF loaded THEN held[r].kids ELSE NoWrites
         missing(k) == db[k] = Null
         compared == IF t \in SavesChildren THEN Fields ELSE {"parent"}
         write(k) == IF k = i THEN held[r].row
                     ELSE IF k \in DOMAIN kids THEN kids[k]
                     ELSE [db[k] EXCEPT !.parent = Null]
         set(k) == IF k = i THEN Difference(held[r].row, db[k])
                   ELSE IF k \in DOMAIN kids THEN Difference(kids[k], db[k]) \cap compared
                   ELSE {"parent"}
         known == {i} \cup DOMAIN kids \cup (IF loaded THEN Children(db, i, t) ELSE {})
     IN plan' = [plan EXCEPT ![r] =
          [k \in {j \in known : missing(j) \/ set(j) # {}} |->
             IF missing(k) THEN Insertion(write(k)) ELSE Columns(write(k), set(k))]]
  /\ pc' = [pc EXCEPT ![r] = "write"]
  /\ UNCHANGED <<committed, raced, ask, near, target, held, out>>

\* The row of i once r's plan is carried out; an UPDATE of no row writes nothing.
Written(r, i) ==
  LET p == plan[r][i]
      now == Seen(r)[i] IN
  IF p.new THEN p.row
  ELSE IF now = Null THEN Null
  ELSE [f \in DOMAIN now |-> IF f \in p.set THEN p.row[f] ELSE now[f]]

NewState(r) == [i \in Ids |-> IF i \in DOMAIN plan[r] THEN Written(r, i) ELSE Seen(r)[i]]
SameKey(a, b) == a.table = b.table /\ a.code = b.code /\ a.table \in UniqueCode

\* Another transaction has written row i; one of those with row's key.
Locked(r, i) == \E o \in Others(r) : i \in DOMAIN out[o]
KeyLocked(r, i, row) ==
  \E o \in Others(r) : \E j \in DOMAIN out[o] \ {i} :
    \/ out[o][j] # Null /\ SameKey(out[o][j], row)
    \/ rows[j] # Null /\ SameKey(rows[j], row)
\* It has deleted the parent of row or changed its key; it has put a child under i.
ParentLocked(r, row) ==
  \E o \in Others(r) :
    /\ row.parent \in DOMAIN out[o] /\ rows[row.parent] # Null
    /\ \/ out[o][row.parent] = Null
       \/ /\ rows[row.parent].table \in UniqueCode
          /\ out[o][row.parent].code # rows[row.parent].code
ChildPending(r, i) ==
  \E o \in Others(r) : \E j \in DOMAIN out[o] :
    /\ out[o][j] # Null /\ out[o][j].parent = i
    /\ rows[j] = Null \/ rows[j].parent # i

Waits(r) ==
  \E i \in DOMAIN plan[r] :
    LET p == plan[r][i] IN
    \/ Locked(r, i)
    \/ (p.new \/ "code" \in p.set) /\ KeyLocked(r, i, p.row)
    \/ (p.new \/ "parent" \in p.set) /\ ParentLocked(r, p.row)
    \/ ~p.new /\ "code" \in p.set /\ p.row.table \in UniqueCode /\ ChildPending(r, i)

\* The row's foreign key: its parent is a row of the table that the key refers to.
ParentThere(db, row) ==
  db[row.parent] # Null /\ db[row.parent].table = ParentTable[row.table]

\* The id or the code is there already; the parent is not there, or must be.
ConstraintViolated(r) ==
  LET after == NewState(r) IN
  \E i \in DOMAIN plan[r] :
    \/ plan[r][i].new /\ Seen(r)[i] # Null
    \/ /\ after[i] # Null
       /\ \/ \E j \in Ids \ {i} : after[j] # Null /\ SameKey(after[i], after[j])
          \/ after[i].parent = Null /\ after[i].table \in Owned
          \/ after[i].parent # Null /\ ~ParentThere(after, after[i])

\* What may fail for a reason that is not in the model: another tenant has the
\* code, which is looked up per tenant and unique over all; a translation comes
\* without its tenant, which the database may or may not supply.
MayFail(r) ==
  \E i \in DOMAIN plan[r] :
    LET p == plan[r][i] IN
    \/ (p.new \/ "code" \in p.set) /\ p.row.table \in UniqueCode \ {"tenant"}
    \/ p.new /\ p.row.table = "translation"

\* After the insertion of a variant its product, as it was read, is marked.
Write(r) ==
  /\ pc[r] = "write" /\ ~Waits(r)
  /\ \/ (ConstraintViolated(r) \/ MayFail(r)) /\ Refuse(r)
     \/ /\ ~ConstraintViolated(r)
        /\ out' = [out EXCEPT ![r] =
             [i \in DOMAIN out[r] \cup DOMAIN plan[r] |-> NewState(r)[i]]]
        /\ \/ /\ held[r].product = Null
              /\ pc' = [pc EXCEPT ![r] = "commit"]
              /\ UNCHANGED <<target, held>>
           \/ /\ held[r].product # Null
              /\ target' = [target EXCEPT ![r] = held[r].row.parent]
              /\ held' = [held EXCEPT ![r] =
                   [row |-> Changed(held[r].product, Marked), kids |-> Null, product |-> Null]]
              /\ pc' = [pc EXCEPT ![r] = "select"]
        /\ plan' = [plan EXCEPT ![r] = NoWrites]
        /\ UNCHANGED <<committed, raced, ask, near>>

\* MUTANT of Cascade: the rows under a removed row stay.
NoCascade(i) == {}
\* ON DELETE CASCADE.
Cascade(i) == {k \in Ids : rows[k] # Null /\ rows[k].table \in Owned /\ rows[k].parent = i}

\* A partner may be needed by an order; delete(id) tells whether it deleted.
Remove(r) ==
  LET i == target[r]
      gone == {j \in {i} \cup Cascade(i) : rows[j] # Null} IN
  /\ pc[r] = "remove"
  /\ \A j \in gone : ~Locked(r, j)
  /\ ~ChildPending(r, i)
  /\ \/ "partner" \in family /\ Refuse(r)
     \/ family \subseteq DeletedById /\ gone = {} /\ Refuse(r)
     \/ /\ ~(family \subseteq DeletedById /\ gone = {})
        /\ out' = [out EXCEPT ![r] = [j \in gone |-> Null]]
        /\ pc' = [pc EXCEPT ![r] = "commit"]
        /\ UNCHANGED <<committed, raced, ask, near, target, held, plan>>

\* What an acknowledged request asked for, done alone to the rows s.
Done(a, s) ==
  CASE a.op = "create" ->
         [i \in Ids |-> IF i = a.id THEN a.row
                        ELSE IF a.row.table = "variant" /\ i = a.row.parent /\ s[i] # Null
                          THEN Changed(s[i], Marked) ELSE s[i]]
    [] a.op = "change" ->
         [s EXCEPT ![a.id] = IF @ = Null THEN Null ELSE Changed(@, a.change)]
    [] a.op = "delete" ->
         [i \in Ids |-> IF \/ i = a.id
                           \/ s[i] # Null /\ s[i].table \in Owned /\ s[i].parent = a.id
                        THEN Null ELSE s[i]]

Commit(r) ==
  /\ pc[r] = "commit"
  /\ rows' = Seen(r)
  /\ ideal' = Done(ask[r], ideal)
  /\ Answer(r, "ok")
  /\ UNCHANGED <<family, raced>>

\* The server stops: the database rolls back what is not committed.
ServerCrash ==
  /\ \E r \in Requests : pc[r] \in Working
  /\ pc' = [r \in Requests |-> IF pc[r] \in Working THEN "lost" ELSE pc[r]]
  /\ ask' = [r \in Requests |-> Null] /\ near' = [r \in Requests |-> {}]
  /\ target' = [r \in Requests |-> Null] /\ held' = [r \in Requests |-> Null]
  /\ plan' = [r \in Requests |-> NoWrites] /\ out' = [r \in Requests |-> NoWrites]
  /\ UNCHANGED <<committed, raced>>

--------------------------------------------------------------------------------

\* A row under no parent and, if there is a leaf, one under it or beside it.
Init ==
  /\ family \in Families
  /\ \E root \in family \ Owned, leaf \in BOOLEAN :
       \E t \in IF family \cap Owned = {} THEN {root} ELSE family \cap Owned :
         rows = [i \in Ids |->
           IF i = Root THEN [table |-> root, code |-> RootCode, parent |-> Null,
                             mark |-> leaf /\ t = "variant"]
           ELSE IF i = Leaf /\ leaf
             THEN [table |-> t, code |-> LeafCode, mark |-> FALSE,
                   parent |-> IF t \in WithParent THEN Root ELSE Null]
             ELSE Null]
  /\ ideal = rows /\ raced = {}
  /\ pc = [r \in Requests |-> "idle"]
  /\ ask = [r \in Requests |-> Null] /\ near = [r \in Requests |-> {}]
  /\ target = [r \in Requests |-> Null] /\ held = [r \in Requests |-> Null]
  /\ plan = [r \in Requests |-> NoWrites] /\ out = [r \in Requests |-> NoWrites]

Receive(r) ==
  \/ HrmsService(r) \/ InventoryService(r) \/ ProductVariantService(r)
  \/ ProductCategoryService(r) \/ ProductAttributeService(r) \/ AccountService(r)
  \/ FinanceService(r) \/ PartnerService(r) \/ TenantService(r) \/ I18nService(r)

Step(r) == SelectForSave(r) \/ Write(r) \/ Remove(r) \/ Commit(r)

\* Every request has been answered.
Settled == (\A r \in Requests : pc[r] \in Answered) /\ UNCHANGED vars

Next ==
  \/ \E r \in Requests : Receive(r) \/ Step(r)
  \/ ServerCrash
  \/ Settled

Spec == Init /\ [][Next]_vars

--------------------------------------------------------------------------------
(* What a reader of the code relies on.                                       *)

TypeOK ==
  /\ family \in Families
  /\ rows \in [Ids -> Rows \cup {Null}] /\ ideal \in [Ids -> Rows \cup {Null}]
  /\ raced \subseteq Ids
  /\ pc \in [Requests -> {"idle"} \cup Working \cup Answered]
  /\ near \in [Requests -> SUBSET Ids]
  /\ target \in [Requests -> Ids \cup {Null}]
  /\ \A r \in Requests :
       /\ ask[r] \in Asks \cup {Null} /\ (pc[r] \in Working <=> ask[r] # Null)
       /\ pc[r] \in {"select", "write"} => held[r].row \in Rows
       /\ DOMAIN plan[r] \cup DOMAIN out[r] \subseteq Ids
       /\ \A i \in DOMAIN out[r] : out[r][i] \in Rows \cup {Null}

\* Whatever stale entities, with the children they were read with, are saved
\* beside insertions and removals: no code twice in a table where it is unique,
\* and no row under a parent that is not there.
KeysHold ==
  \A i \in Ids : rows[i] # Null =>
    /\ rows[i].parent # Null => ParentThere(rows, rows[i])
    /\ \A j \in Ids \ {i} : rows[j] # Null => ~SameKey(rows[i], rows[j])

\* As long as no two requests were at work on it at once, a row is what the
\* acknowledged requests made it, one after the other: nothing that one of them
\* stored is undone by another's save, no row they removed is back, and a
\* product with a variant says so.  Requests on other rows, refused requests and
\* crashes leave no trace.
UndisturbedRowsAreAsAsked ==
  \A i \in Ids \ raced : rows[i] = ideal[i]
================================================================================
