--------------------------- MODULE MasterData_proofs ---------------------------
(***************************************************************************)
(* Proofs about MasterData, for any finite set of requests and any codes.  *)
(*                                                                         *)
(* The invariant has three layers, each of which needs the ones before it. *)
(* Types: every row is well formed and every id keeps its table.  Keys:    *)
(* what each transaction sees satisfies the constraints, and what two of   *)
(* them have written can be merged.  Races: a row that is not raced is, in *)
(* what each transaction sees, what its request asked for.                 *)
(***************************************************************************)
EXTENDS MasterData, TLAPS

--------------------------------------------------------------------------------
(* The invariant.                                                             *)

Writes == [new: BOOLEAN, row: Rows, set: SUBSET Fields]

\* A change that a row of table t can take.
Suits(change, t) ==
  \/ change.field = "code" /\ change.value \in Codes
  \/ change.field = "mark" /\ change.value \in BOOLEAN
  \/ change.field = "parent" /\ change.value \in Ids /\ t \in {"category", "location"}

\* What r knows of its request at each of its steps.
Consistent(r) ==
  /\ pc[r] \in {"idle"} \cup Working \cup Answered /\ (pc[r] \in Working <=> ask[r] # Null)
  /\ ask[r] \in Asks \cup {Null} /\ near[r] \subseteq Ids /\ target[r] \in Ids \cup {Null}
  /\ \A i \in DOMAIN plan[r] : i \in Ids /\ plan[r][i] \in Writes
  /\ \A i \in DOMAIN out[r] : i \in Ids /\ out[r][i] \in Rows \cup {Null}
  /\ pc[r] \notin Working => near[r] = {} /\ DOMAIN plan[r] = {} /\ DOMAIN out[r] = {}
  /\ pc[r] \in Working /\ ask[r].op = "create" =>
       ask[r].id = r /\ ask[r].row \in Rows /\ ask[r].row.parent # r
  /\ pc[r] \in {"select", "write"} =>
       /\ ask[r].op # "delete"
       /\ target[r] \in Ids /\ held[r].row \in Rows /\ held[r].product \in Rows \cup {Null}
       /\ held[r].kids # Null =>
            \A k \in DOMAIN held[r].kids : k \in Ids /\ held[r].kids[k] \in Rows
       /\ held[r].product # Null =>
            /\ pc[r] = "write" /\ ask[r].op = "create" /\ held[r].row = ask[r].row
            /\ ask[r].row.table = "variant" /\ ask[r].row.parent \in Ids
  /\ pc[r] = "select" =>
       /\ ask[r].op = "change" => target[r] = ask[r].id /\ DOMAIN out[r] = {}
       /\ ask[r].op = "create" =>
            target[r] = ask[r].row.parent /\ ask[r].row.table = "variant" /\ held[r].kids = Null
  /\ pc[r] = "remove" => ask[r].op = "delete" /\ target[r] = ask[r].id /\ target[r] \in Ids

\* Everything that is kept per request is a function of the requests.
PerRequest ==
  /\ pc = [r \in Requests |-> pc[r]] /\ ask = [r \in Requests |-> ask[r]]
  /\ near = [r \in Requests |-> near[r]] /\ target = [r \in Requests |-> target[r]]
  /\ held = [r \in Requests |-> held[r]] /\ plan = [r \in Requests |-> plan[r]]
  /\ out = [r \in Requests |-> out[r]]

WellTyped ==
  /\ family \in Families /\ raced \subseteq Ids
  /\ rows \in [Ids -> Rows \cup {Null}] /\ ideal \in [Ids -> Rows \cup {Null}]
  /\ PerRequest
  /\ \A r \in Requests : Consistent(r)

\* A row of id i is of table tab[i], which is "none" as long as there is no such row.
Fit(tab, i, row) == row = Null \/ row.table = tab[i]

FitsRequest(tab, r) ==
  /\ pc[r] = "idle" => tab[r] = "none"
  /\ \A i \in DOMAIN out[r] : Fit(tab, i, out[r][i])
  /\ \A i \in DOMAIN plan[r] : Fit(tab, i, plan[r][i].row)
  /\ pc[r] \in {"select", "write"} =>
       /\ Fit(tab, target[r], held[r].row)
       /\ held[r].kids # Null => \A k \in DOMAIN held[r].kids : Fit(tab, k, held[r].kids[k])
       /\ held[r].product # Null => Fit(tab, held[r].row.parent, held[r].product)
  /\ pc[r] \in Working =>
       /\ ask[r].op = "create" =>
            /\ Fit(tab, r, ask[r].row)
            /\ ask[r].row.table \in FindsParent =>
                 ask[r].row.parent \in Ids /\ tab[ask[r].row.parent] = ParentTable[ask[r].row.table]
       /\ ask[r].op = "change" => Suits(ask[r].change, tab[ask[r].id])
  /\ pc[r] = "remove" => tab[target[r]] \in HardRemoved \/ family \subseteq DeletedById

Fits(tab) ==
  /\ tab \in [Ids -> family \cup {"none"}]
  /\ \A i \in Ids : Fit(tab, i, rows[i]) /\ Fit(tab, i, ideal[i])
  /\ \A r \in Requests : FitsRequest(tab, r)

Types == WellTyped /\ \E tab : Fits(tab)

\* KeysHold of any state of the tables.
Keyed(db) ==
  \A i \in Ids : db[i] # Null =>
    /\ db[i].parent # Null => ParentThere(db, db[i])
    /\ \A j \in Ids \ {i} : db[j] # Null => ~SameKey(db[i], db[j])

\* No two of them have written the same row or the same key, and none has deleted
\* the parent of a row that another has written.
Compatible(r, o) ==
  /\ DOMAIN out[r] \cap DOMAIN out[o] = {}
  /\ \A i \in DOMAIN out[r] : out[r][i] # Null =>
       /\ out[r][i].parent \in DOMAIN out[o] => out[o][out[r][i].parent] # Null
       /\ \A j \in DOMAIN out[o] : out[o][j] # Null => ~SameKey(out[r][i], out[o][j])

Keys ==
  /\ Keyed(rows)
  /\ \A r \in Requests : Keyed(Seen(r))
  /\ \A r \in Requests : \A o \in Others(r) : Compatible(r, o)

\* r's row is inserted, and its product is not marked yet.
Inserted(r) == [i \in Ids |-> IF ask[r].op = "create" /\ i = r THEN ask[r].row ELSE rows[i]]

\* The rows that the request of r is about.
About(r) ==
  {ask[r].id} \cup
    (IF ask[r].op = "create" /\ ask[r].row.table = "variant" THEN {ask[r].row.parent} ELSE {})

\* Its rows are raced if they are near another request.
Meets(r) == \A o \in Others(r) : near[r] \cap near[o] # {} => near[r] \subseteq raced

\* It does not go beyond its rows, but for rows that are raced.
StaysNear(r) ==
  /\ DOMAIN out[r] \cup DOMAIN plan[r] \subseteq near[r] \cup raced
  /\ \A i \in DOMAIN out[r] \ raced : out[r][i] # Null => out[r][i].parent \in near[r] \cup {Null}
  /\ pc[r] \in Working =>
       /\ ask[r].id \in near[r]
       /\ ask[r].op # "delete" => (DOMAIN out[r] \cup DOMAIN plan[r]) \ raced \subseteq About(r)
       /\ ask[r].op = "create" => ask[r].row.parent \in near[r] \cup {Null}
       /\ ask[r].op = "change" =>
            /\ ask[r].change.field = "parent" => ask[r].change.value \in near[r]
            /\ ask[r].id \notin raced =>
                 rows[ask[r].id] # Null /\ rows[ask[r].id].parent \in near[r] \cup {Null}

\* What it has read of the rows that are not raced is still so.
AsRead(r) ==
  /\ \A i \in Ids \ raced : Seen(r)[i] = Inserted(r)[i]
  /\ target[r] \notin raced =>
       /\ rows[target[r]] # Null
       /\ held[r].row = Changed(rows[target[r]], IF ask[r].op = "create" THEN Marked ELSE ask[r].change)
  /\ held[r].kids # Null =>
       /\ DOMAIN held[r].kids \subseteq near[r]
       /\ \A k \in DOMAIN held[r].kids \ raced : held[r].kids[k] = rows[k]
       /\ \A k \in Ids \ raced :
            k \in Children(rows, target[r], held[r].row.table) => k \in DOMAIN held[r].kids

\* What it is about to write is what was asked for, or the first half of it.
AsPlanned(r) ==
  /\ held[r].product = Null => \A i \in Ids \ raced : NewState(r)[i] = Done(ask[r], rows)[i]
  /\ held[r].product # Null =>
       /\ \A i \in Ids \ raced : NewState(r)[i] = Inserted(r)[i]
       /\ ask[r].row.parent \notin raced => held[r].product = rows[ask[r].row.parent]

\* It knew what lies under the row it removes.
AsFound(r) ==
  \A k \in Ids : rows[k] # Null /\ rows[k].parent = target[r] => k \in near[r] \cup raced

\* What it has written is what was asked for.
AsWritten(r) == \A i \in Ids \ raced : Seen(r)[i] = Done(ask[r], rows)[i]

UpToDate(r) ==
  /\ pc[r] = "select" => AsRead(r)
  /\ pc[r] = "write" => AsPlanned(r)
  /\ pc[r] = "remove" => AsFound(r)
  /\ pc[r] = "commit" => AsWritten(r)

Races ==
  /\ UndisturbedRowsAreAsAsked
  /\ \A r \in Requests : Meets(r) /\ StaysNear(r) /\ UpToDate(r)

--------------------------------------------------------------------------------
(* The constants and the rows.                                                *)

\* Null is none of the things it stands beside.
LEMMA NullIsNothing ==
  /\ Null \notin Ids /\ Null \notin Rows /\ Null \notin Asks
  BY ConstantsAssumption

\* Which tables there are, and which of them have a parent.
LEMMA TableNames ==
  /\ Tables = {"employee", "contract", "product", "variant", "translation", "category",
               "location", "attribute", "account", "partner", "tenant", "paymentTerm"}
  /\ WithParent = {"contract", "variant", "translation", "category", "location"}
  /\ "none" \notin Tables
  /\ \A fam \in Families : fam \subseteq Tables
  <1>1. Tables = {"employee", "contract", "product", "variant", "translation", "category",
               "location", "attribute", "account", "partner", "tenant", "paymentTerm"}
    BY DEF Tables, Families
  <1>2. WithParent = {"contract", "variant", "translation", "category", "location"}
    BY DEF WithParent, ParentTable
  <1>3. \A fam \in Families : fam \subseteq Tables
    BY DEF Tables
  <1> QED BY <1>1, <1>2, <1>3

\* The parent of an owned row is not owned, and only owned rows have a parent of a
\* table whose rows can be deleted.
LEMMA ParentTables ==
  ASSUME NEW t \in WithParent
  PROVE  /\ ParentTable[t] \in Tables \ Owned
         /\ ParentTable[t] \in HardRemoved => t \in Owned
         /\ ParentTable[t] \notin DeletedById
         /\ t \notin DeletedById
         /\ t \in FindsParent => ParentTable[t] \notin WithParent
  <1>1. t \in {"contract", "variant", "translation", "category", "location"}
    BY TableNames
  <1>2. /\ ParentTable["contract"] = "employee" /\ ParentTable["variant"] = "product"
        /\ ParentTable["translation"] = "product" /\ ParentTable["category"] = "category"
        /\ ParentTable["location"] = "location"
    BY DEF ParentTable
  <1> QED BY <1>1, <1>2, TableNames DEF Owned, HardRemoved, DeletedById, FindsParent

\* The four columns of a row.
LEMMA RowColumns ==
  ASSUME NEW row \in Rows
  PROVE  /\ row # Null /\ row.table \in Tables /\ row.code \in Codes
         /\ row.parent \in Ids \cup {Null} /\ row.mark \in BOOLEAN
         /\ row.parent # Null => row.table \in WithParent
         /\ DOMAIN row = {"table", "code", "parent", "mark"}
         /\ row = [table |-> row.table, code |-> row.code, parent |-> row.parent, mark |-> row.mark]
  BY NullIsNothing DEF Rows

\* A row is made of its columns.
LEMMA RowOf ==
  ASSUME NEW t \in Tables, NEW c \in Codes, NEW p \in Ids \cup {Null}, NEW m \in BOOLEAN,
         p # Null => t \in WithParent
  PROVE  [table |-> t, code |-> c, parent |-> p, mark |-> m] \in Rows
  BY DEF Rows

\* Two rows with the same columns are the same.
LEMMA SameRow ==
  ASSUME NEW row \in Rows, NEW other \in Rows,
         row.table = other.table, row.code = other.code, row.parent = other.parent, row.mark = other.mark
  PROVE  row = other
  BY RowColumns

\* A changed row is a row of its table; its parent is its old one or the one asked for.
LEMMA ChangedRow ==
  ASSUME NEW row \in Rows, NEW change, Suits(change, row.table)
  PROVE  /\ Changed(row, change) \in Rows
         /\ Changed(row, change).table = row.table
         /\ \/ Changed(row, change).parent = row.parent
            \/ change.field = "parent" /\ Changed(row, change).parent = change.value
  <1>1. /\ row.table \in Tables /\ row.code \in Codes
        /\ row.parent \in Ids \cup {Null} /\ row.mark \in BOOLEAN
        /\ row.parent # Null => row.table \in WithParent
        /\ row = [table |-> row.table, code |-> row.code, parent |-> row.parent, mark |-> row.mark]
    BY RowColumns
  <1>2. CASE Changed(row, change) = row
    BY <1>2
  <1>3. CASE /\ Changed(row, change) # row
             /\ change.field = "code" /\ change.value \in Codes
    <2>1. Changed(row, change) = [row EXCEPT !["code"] = change.value]
      BY <1>3 DEF Changed
    <2>2. Changed(row, change) =
            [table |-> row.table, code |-> change.value, parent |-> row.parent, mark |-> row.mark]
      BY <2>1, <1>1
    <2> QED BY <2>2, <1>1, <1>3, RowOf
  <1>4. CASE /\ Changed(row, change) # row
             /\ change.field = "mark" /\ change.value \in BOOLEAN
    <2>1. Changed(row, change) = [row EXCEPT !["mark"] = change.value]
      BY <1>4 DEF Changed
    <2>2. Changed(row, change) =
            [table |-> row.table, code |-> row.code, parent |-> row.parent, mark |-> change.value]
      BY <2>1, <1>1
    <2> QED BY <2>2, <1>1, <1>4, RowOf
  <1>5. CASE /\ Changed(row, change) # row
             /\ change.field = "parent" /\ change.value \in Ids /\ row.table \in {"category", "location"}
    <2>1. Changed(row, change) = [row EXCEPT !["parent"] = change.value]
      BY <1>5 DEF Changed
    <2>2. Changed(row, change) =
            [table |-> row.table, code |-> row.code, parent |-> change.value, mark |-> row.mark]
      BY <2>1, <1>1
    <2>3. row.table \in WithParent
      BY <1>5, TableNames
    <2> QED BY <2>2, <2>3, <1>1, <1>5, RowOf
  <1> QED BY <1>2, <1>3, <1>4, <1>5 DEF Suits

\* Marking suits every row.
LEMMA MarkSuits ==
  ASSUME NEW t
  PROVE  Suits(Marked, t) /\ Marked.field # "parent"
  BY DEF Suits, Marked

--------------------------------------------------------------------------------
(* What a request that comes in does.                                         *)

Creating(r) ==
  \E row \in Rows : \E product \in Rows \cup {Null} :
    /\ row.table \in family /\ row.parent # r
    /\ row.table \in FindsParent => Is(row.parent, ParentTable[row.table])
    /\ product # Null => row.table = "variant" /\ product = rows[row.parent]
    /\ product = Null /\ row.table = "variant" => rows[row.parent].mark
    /\ BeginCreate(r, row, product)

Changing(r) ==
  \E i \in Ids \ {r} : \E change, refers, kids :
    /\ Is(i, rows[i].table) /\ Suits(change, rows[i].table)
    /\ refers \subseteq Ids \cup {Null} /\ i \in refers
    /\ rows[i].parent # Null => rows[i].parent \in refers
    /\ change.field = "parent" => change.value \in refers
    /\ kids # Null => /\ kids = [k \in Children(rows, i, rows[i].table) |-> rows[k]]
                      /\ Children(rows, i, rows[i].table) \subseteq refers
    /\ [op |-> "change", id |-> i, row |-> Null, change |-> change] \in Asks
    /\ Begin(r, [op |-> "change", id |-> i, row |-> Null, change |-> change], refers,
             [row |-> Changed(rows[i], change), kids |-> kids, product |-> Null], NoWrites, "select")

Deleting(r) ==
  \E i \in Ids \ {r} : \E t \in family \cap (HardRemoved \cup DeletedById) :
    /\ Is(i, t) \/ t \in DeletedById
    /\ Begin(r, [op |-> "delete", id |-> i, row |-> Null, change |-> Null],
             {i} \cup Children(rows, i, t), Null, NoWrites, "remove")

\* Reading a row that is there, with its relations, to save it with a change.
LEMMA ReadToChange ==
  ASSUME WellTyped, NEW r \in Requests, NEW t, NEW i \in Ids \ {r}, NEW change,
         Is(i, t), change \in Changes(t) \cup {Marked}, ReadAndChange(r, t, i, change)
  PROVE  Changing(r)
  <1> DEFINE kids == Children(rows, i, t)
             refers == {i, rows[i].parent} \cup kids \cup (IF change.field = "parent" THEN {change.value} ELSE {})
  <1>1. rows[i] \in Rows /\ rows[i].table = t /\ rows[i].parent \in Ids \cup {Null}
    <2>1. rows[i] \in Rows /\ rows[i].table = t
      BY DEF WellTyped, Is
    <2> QED BY <2>1, RowColumns
  <1>0. \E f \in Fields : \E v \in Codes \cup Ids \cup BOOLEAN :
          /\ change = [field |-> f, value |-> v]
          /\ \/ f = "code" /\ v \in Codes
             \/ f = "mark" /\ v \in BOOLEAN
             \/ f = "parent" /\ v \in Ids /\ t \in {"category", "location"}
    <2>1. CASE change \in [field: {"code"}, value: Codes]
      BY <2>1 DEF Fields
    <2>2. CASE t \in {"category", "location"} /\ change \in [field: {"parent"}, value: Ids]
      BY <2>2 DEF Fields
    <2>3. CASE change \in [field: {"mark"}, value: BOOLEAN]
      BY <2>3 DEF Fields
    <2>4. CASE change = Marked
      BY <2>4 DEF Fields, Marked
    <2> QED BY <2>1, <2>2, <2>3, <2>4 DEF Changes
  <1>2. Suits(change, t)
    BY <1>0 DEF Suits
  <1>3. kids \subseteq Ids
    BY DEF Children, ChildrenIn
  <1>4. refers \subseteq Ids \cup {Null}
    BY <1>1, <1>2, <1>3 DEF Suits
  <1>5. [op |-> "change", id |-> i, row |-> Null, change |-> change] \in Asks
    <2>1. change \in [field: Fields, value: Codes \cup Ids \cup BOOLEAN]
      BY <1>0
    <2> QED BY <2>1 DEF Asks
  <1>6. Begin(r, [op |-> "change", id |-> i, row |-> Null, change |-> change], refers,
             [row |-> Changed(rows[i], change), kids |-> [k \in kids |-> rows[k]], product |-> Null],
             NoWrites, "select")
    BY DEF ReadAndChange
  <1>7. /\ i \in refers
        /\ rows[i].parent # Null => rows[i].parent \in refers
        /\ change.field = "parent" => change.value \in refers
        /\ Is(i, rows[i].table) /\ Suits(change, rows[i].table)
        /\ Children(rows, i, rows[i].table) = kids /\ kids \subseteq refers
    BY <1>1, <1>2
  <1> HIDE DEF refers
  <1>8. Children(rows, i, rows[i].table) \subseteq refers
    BY <1>7
  <1> QED
    BY <1>4, <1>5, <1>6, <1>7, <1>8, Zenon DEF Changing

\* The row of a request that creates, and the product it marks, if any.
LEMMA ReadToCreate ==
  ASSUME WellTyped, NEW r \in Requests, NEW t \in family, NEW c \in Codes, NEW p \in (Ids \ {r}) \cup {Null},
         NEW product \in Rows \cup {Null},
         p # Null => t \in WithParent,
         t \in FindsParent => Is(p, ParentTable[t]),
         product # Null => t = "variant" /\ product = rows[p],
         product = Null /\ t = "variant" => rows[p].mark,
         BeginCreate(r, [table |-> t, code |-> c, parent |-> p, mark |-> FALSE], product)
  PROVE  Creating(r)
  <1> DEFINE row == [table |-> t, code |-> c, parent |-> p, mark |-> FALSE]
  <1>1. t \in Tables
    BY TableNames DEF WellTyped
  <1>2. row \in Rows
    BY <1>1, RowOf
  <1>3. row.table = t /\ row.parent = p /\ row.parent # r
    BY NullIsNothing DEF Ids
  <1>4. BeginCreate(r, row, product)
    OBVIOUS
  <1> HIDE DEF row
  <1>5. /\ row.table \in family /\ row.parent # r
        /\ row.table \in FindsParent => Is(row.parent, ParentTable[row.table])
        /\ product # Null => row.table = "variant" /\ product = rows[row.parent]
        /\ product = Null /\ row.table = "variant" => rows[row.parent].mark
    BY <1>3
  <1> QED BY <1>2, <1>4, <1>5 DEF Creating

\* Every handler refuses, or goes on to create, change or delete.
LEMMA Received ==
  ASSUME WellTyped, NEW r \in Requests, Receive(r)
  PROVE  pc[r] = "idle" /\ (Refuse(r) \/ Creating(r) \/ Changing(r) \/ Deleting(r))
  <1>1. \/ \E t : Create(r, t) \/ Update(r, t) \/ Delete(r, t) \/ Deactivate(r, t)
        \/ GenerateVariants(r) \/ ActivateContract(r)
    BY DEF Receive, HrmsService, InventoryService, ProductVariantService, ProductCategoryService,
       ProductAttributeService, AccountService, FinanceService, PartnerService, TenantService, I18nService,
       CreateEmployee, UpdateEmployee, RemoveEmployee, AddContract, UpdateContract, RemoveContract,
       CreateProduct, UpdateProduct, CreateLocation, UpdateLocation, CreateVariant, UpdateVariant,
       RemoveVariant, CreateCategory, UpdateCategory, RemoveCategory, CreateAttribute, UpdateAttribute,
       RemoveAttribute, CreateAccount, UpdateAccount, CreatePaymentTerm, UpdatePaymentTerm,
       DeletePaymentTerm, CreatePartner, UpdatePartner, RemovePartner, CreateTenant, UpdateTenant, RemoveTenant
  <1>2. ASSUME NEW t, Create(r, t)
        PROVE  pc[r] = "idle" /\ (Refuse(r) \/ Creating(r))
    <2>1. pc[r] = "idle" /\ t \in family
      BY <1>2 DEF Create
    <2>2. PICK c \in Codes, p \in IF t \in WithParent THEN (Ids \ {r}) \cup {Null} ELSE {Null} :
       LET refused == \/ t \in LooksUpOnCreate /\ Taken(t, c)
                      \/ t \in FindsParent /\ ~Is(p, ParentTable[t])
           product == IF t = "variant" /\ MarksProduct(rows[p]) THEN rows[p] ELSE Null IN
       \/ refused /\ Refuse(r)
       \/ /\ ~refused
          /\ BeginCreate(r, [table |-> t, code |-> c, parent |-> p, mark |-> FALSE], product)
      BY <1>2 DEF Create
    <2> DEFINE product == IF t = "variant" /\ MarksProduct(rows[p]) THEN rows[p] ELSE Null
    <2>3. ASSUME t \in FindsParent => Is(p, ParentTable[t]),
                 BeginCreate(r, [table |-> t, code |-> c, parent |-> p, mark |-> FALSE], product)
          PROVE  Creating(r)
      <3>1. p \in (Ids \ {r}) \cup {Null} /\ (p # Null => t \in WithParent)
        OBVIOUS
      <3>2. t = "variant" => rows[p] \in Rows /\ rows[p] # Null
        <4>1. t = "variant" => p \in Ids /\ rows[p] # Null
          BY <2>3 DEF Is, FindsParent
        <4> QED BY <4>1 DEF WellTyped
      <3>3. t = "variant" => rows[p].mark \in BOOLEAN
        BY <3>2, RowColumns
      <3>4. /\ product \in Rows \cup {Null}
            /\ product # Null => t = "variant" /\ product = rows[p]
            /\ product = Null /\ t = "variant" => rows[p].mark
        BY <3>2, <3>3 DEF MarksProduct
      <3> HIDE DEF product
      <3> QED BY <2>1, <2>3, <3>1, <3>4, ReadToCreate
    <2> QED BY <2>1, <2>2, <2>3
  <1>3. ASSUME NEW t, Update(r, t)
        PROVE  pc[r] = "idle" /\ (Refuse(r) \/ Changing(r))
    <2>1. PICK i \in Ids \ {r}, change \in Changes(t) :
            Refuse(r) \/ (Is(i, t) /\ ReadAndChange(r, t, i, change))
      BY <1>3 DEF Update
    <2> QED BY <1>3, <2>1, ReadToChange DEF Update
  <1>4. ASSUME NEW t, Delete(r, t)
        PROVE  pc[r] = "idle" /\ (Refuse(r) \/ Deleting(r))
    BY <1>4 DEF Delete, Deleting
  <1>5. ASSUME NEW t, Deactivate(r, t)
        PROVE  pc[r] = "idle" /\ (Refuse(r) \/ Changing(r))
    <2>1. PICK i \in Ids \ {r} : Refuse(r) \/ (Is(i, t) /\ ReadAndChange(r, t, i, Marked))
      BY <1>5 DEF Deactivate
    <2> QED BY <1>5, <2>1, ReadToChange DEF Deactivate
  <1>6. ASSUME ActivateContract(r)
        PROVE  pc[r] = "idle" /\ (Refuse(r) \/ Changing(r))
    <2>1. PICK i \in Ids \ {r} : Refuse(r) \/ (Is(i, "contract") /\ ReadAndChange(r, "contract", i, Marked))
      BY <1>6 DEF ActivateContract
    <2> QED BY <1>6, <2>1, ReadToChange DEF ActivateContract
  <1>7. ASSUME GenerateVariants(r)
        PROVE  pc[r] = "idle" /\ (Refuse(r) \/ Creating(r) \/ Changing(r))
    <2>1. pc[r] = "idle" /\ "variant" \in family
      BY <1>7 DEF GenerateVariants
    <2>2. PICK p \in Ids \ {r} :
       \/ Refuse(r)
       \/ /\ Is(p, "product")
          /\ \E c \in Codes :
               BeginCreate(r, [table |-> "variant", code |-> c, parent |-> p, mark |-> FALSE], rows[p])
       \/ /\ Is(p, "product")
          /\ Begin(r, [op |-> "change", id |-> p, row |-> Null, change |-> Marked], {p},
                   [row |-> Changed(rows[p], Marked), kids |-> Null, product |-> Null],
                   NoWrites, "select")
      BY <1>7 DEF GenerateVariants
    <2>3. ASSUME Is(p, "product")
          PROVE  rows[p] \in Rows /\ rows[p] # Null /\ rows[p].parent = Null
      <3>1. rows[p] \in Rows /\ rows[p] # Null /\ rows[p].table = "product"
        BY <2>3 DEF WellTyped, Is
      <3> QED BY <3>1, RowColumns, TableNames
    <2>4. ASSUME Is(p, "product"), NEW c \in Codes,
                 BeginCreate(r, [table |-> "variant", code |-> c, parent |-> p, mark |-> FALSE], rows[p])
          PROVE  Creating(r)
      <3>1. ParentTable["variant"] = "product" /\ "variant" \in WithParent
        BY DEF ParentTable, WithParent
      <3> QED BY <2>1, <2>3, <2>4, <3>1, ReadToCreate
    <2>5. ASSUME Is(p, "product"),
                 Begin(r, [op |-> "change", id |-> p, row |-> Null, change |-> Marked], {p},
                   [row |-> Changed(rows[p], Marked), kids |-> Null, product |-> Null],
                   NoWrites, "select")
          PROVE  Changing(r)
      <3>1. [op |-> "change", id |-> p, row |-> Null, change |-> Marked] \in Asks
        BY DEF Asks, Marked, Fields
      <3>2. Is(p, rows[p].table) /\ Suits(Marked, rows[p].table) /\ Marked.field # "parent"
        BY <2>5, MarkSuits DEF Is
      <3> DEFINE refers == {p}
      <3>3. /\ refers \subseteq Ids \cup {Null} /\ p \in refers
            /\ rows[p].parent # Null => rows[p].parent \in refers
            /\ Begin(r, [op |-> "change", id |-> p, row |-> Null, change |-> Marked], refers,
                   [row |-> Changed(rows[p], Marked), kids |-> Null, product |-> Null],
                   NoWrites, "select")
        BY <2>3, <2>5
      <3> HIDE DEF refers
      <3>4. /\ Is(p, rows[p].table) /\ Suits(Marked, rows[p].table)
            /\ refers \subseteq Ids \cup {Null} /\ p \in refers
            /\ rows[p].parent # Null => rows[p].parent \in refers
            /\ Marked.field = "parent" => Marked.value \in refers
            /\ Null # Null => /\ Null = [k \in Children(rows, p, rows[p].table) |-> rows[k]]
                              /\ Children(rows, p, rows[p].table) \subseteq refers
            /\ [op |-> "change", id |-> p, row |-> Null, change |-> Marked] \in Asks
            /\ Begin(r, [op |-> "change", id |-> p, row |-> Null, change |-> Marked], refers,
                   [row |-> Changed(rows[p], Marked), kids |-> Null, product |-> Null],
                   NoWrites, "select")
        BY <3>1, <3>2, <3>3
      <3> QED BY <3>4, Zenon DEF Changing
    <2> QED BY <2>1, <2>2, <2>4, <2>5
  <1> QED BY <1>1, <1>2, <1>3, <1>4, <1>5, <1>6, <1>7

--------------------------------------------------------------------------------
(* Types: every row is well formed.                                           *)

\* The type invariant is part of it.
LEMMA WellTypedIsTyped == WellTyped => TypeOK
  <1> SUFFICES ASSUME WellTyped PROVE TypeOK
    OBVIOUS
  <1>1. /\ pc \in [Requests -> {"idle"} \cup Working \cup Answered]
        /\ near \in [Requests -> SUBSET Ids]
        /\ target \in [Requests -> Ids \cup {Null}]
    BY DEF WellTyped, PerRequest, Consistent
  <1>2. ASSUME NEW r \in Requests
        PROVE  /\ ask[r] \in Asks \cup {Null} /\ (pc[r] \in Working <=> ask[r] # Null)
               /\ pc[r] \in {"select", "write"} => held[r].row \in Rows
               /\ DOMAIN plan[r] \cup DOMAIN out[r] \subseteq Ids
               /\ \A i \in DOMAIN out[r] : out[r][i] \in Rows \cup {Null}
    BY DEF WellTyped, Consistent
  <1> QED BY <1>1, <1>2 DEF WellTyped, TypeOK

\* What is kept of the request r stays as it is.
Unmoved(r) ==
  /\ pc'[r] = pc[r] /\ ask'[r] = ask[r] /\ near'[r] = near[r] /\ target'[r] = target[r]
  /\ held'[r] = held[r] /\ plan'[r] = plan[r] /\ out'[r] = out[r]

\* A request that keeps its own state stays consistent.
LEMMA UnmovedConsistent ==
  ASSUME NEW r \in Requests, Consistent(r), Unmoved(r)
  PROVE  Consistent(r)'
  BY DEF Consistent, Unmoved

\* r has been answered.
Gone(r, how) ==
  /\ pc'[r] = how /\ ask'[r] = Null /\ near'[r] = {} /\ target'[r] = Null /\ held'[r] = Null
  /\ plan'[r] = NoWrites /\ out'[r] = NoWrites

\* Who has written nothing has written no row.
LEMMA NothingWritten == DOMAIN NoWrites = {}
  BY DEF NoWrites

\* A request that has been answered holds nothing, hence is consistent.
LEMMA GoneConsistent ==
  ASSUME NEW r \in Requests, NEW how \in Answered, Gone(r, how)
  PROVE  Consistent(r)'
  <1>1. DOMAIN plan'[r] = {} /\ DOMAIN out'[r] = {}
    BY NothingWritten DEF Gone
  <1>2. how \notin Working /\ how \notin {"select", "write"} /\ how # "remove" /\ how # "idle"
    BY DEF Answered, Working
  <1> QED BY <1>1, <1>2, NullIsNothing DEF Gone, Consistent

\* An answer is about one request.
LEMMA AnswerMoves ==
  ASSUME PerRequest, NEW r \in Requests, NEW how, Answer(r, how)
  PROVE  PerRequest' /\ Gone(r, how) /\ \A o \in Others(r) : Unmoved(o)
  <1>1. PerRequest'
    BY DEF PerRequest, Answer
  <1> QED BY <1>1 DEF PerRequest, Answer, Gone, Unmoved, Others

\* So is the arrival of a request.
LEMMA BeginMoves ==
  ASSUME PerRequest, NEW r \in Requests, NEW asked, NEW refers, NEW entity, NEW writes, NEW next,
         Begin(r, asked, refers, entity, writes, next)
  PROVE  /\ PerRequest' /\ \A o \in Others(r) : Unmoved(o)
         /\ pc'[r] = next /\ ask'[r] = asked /\ near'[r] = refers \ {Null} /\ target'[r] = asked.id
         /\ held'[r] = entity /\ plan'[r] = writes /\ out'[r] = out[r]
         /\ UNCHANGED <<family, rows, ideal>>
  <1>1. PerRequest'
    BY DEF PerRequest, Begin
  <1> QED BY <1>1 DEF PerRequest, Begin, Unmoved, Others, committed

\* What a request that creates has in hand.
LEMMA CreatingConsistent ==
  ASSUME WellTyped, NEW r \in Requests, pc[r] = "idle", Creating(r)
  PROVE  /\ PerRequest' /\ (\A o \in Others(r) : Unmoved(o)) /\ Consistent(r)'
         /\ UNCHANGED <<family, rows, ideal>>
  <1>1. PICK row \in Rows, product \in Rows \cup {Null} :
          /\ row.table \in family /\ row.parent # r
          /\ row.table \in FindsParent => Is(row.parent, ParentTable[row.table])
          /\ product # Null => row.table = "variant" /\ product = rows[row.parent]
          /\ BeginCreate(r, row, product)
    BY DEF Creating
  <1> DEFINE asked == [op |-> "create", id |-> r, row |-> row, change |-> Null]
             entity == [row |-> row, kids |-> Null, product |-> product]
             writes == [i \in {r} |-> Insertion(row)]
  <1>2. /\ PerRequest' /\ \A o \in Others(r) : Unmoved(o)
        /\ pc'[r] = "write" /\ ask'[r] = asked /\ near'[r] = {r, row.parent} \ {Null} /\ target'[r] = r
        /\ held'[r] = entity /\ plan'[r] = writes /\ out'[r] = out[r]
        /\ UNCHANGED <<family, rows, ideal>>
    <2>1. Begin(r, asked, {r, row.parent}, entity, writes, "write")
      BY <1>1 DEF BeginCreate
    <2>2. PerRequest /\ asked.id = r
      BY DEF WellTyped
    <2> HIDE DEF asked, entity, writes
    <2> QED BY <2>1, <2>2, BeginMoves
  <1>3. asked \in Asks
    BY DEF Asks, Ids
  <1>4. Insertion(row) \in Writes
    BY DEF Insertion, Writes
  <1>5. row.parent \in Ids \cup {Null} /\ r \in Ids /\ asked.id = r /\ asked.row = row /\ asked.op = "create"
    BY RowColumns DEF Ids
  <1>6. DOMAIN out[r] = {}
    BY DEF WellTyped, Consistent, Working
  <1>7. DOMAIN writes = {r} /\ writes[r] = Insertion(row)
    OBVIOUS
  <1>8. entity.row = row /\ entity.kids = Null /\ entity.product = product
    OBVIOUS
  <1>9. product # Null => row.table = "variant" /\ row.parent \in Ids
    BY <1>1 DEF FindsParent, Is
  <1> HIDE DEF asked, entity, writes
  <1> QED
    BY <1>1, <1>2, <1>3, <1>4, <1>5, <1>6, <1>7, <1>8, <1>9, NullIsNothing DEF Consistent, Working

\* What a request that changes has in hand.
LEMMA ChangingConsistent ==
  ASSUME WellTyped, NEW r \in Requests, pc[r] = "idle", Changing(r)
  PROVE  /\ PerRequest' /\ (\A o \in Others(r) : Unmoved(o)) /\ Consistent(r)'
         /\ UNCHANGED <<family, rows, ideal>>
  <1>1. PICK i \in Ids \ {r} : \E change, refers, kids :
    /\ Is(i, rows[i].table) /\ Suits(change, rows[i].table)
    /\ refers \subseteq Ids \cup {Null} /\ i \in refers
    /\ kids # Null => kids = [k \in Children(rows, i, rows[i].table) |-> rows[k]]
    /\ [op |-> "change", id |-> i, row |-> Null, change |-> change] \in Asks
    /\ Begin(r, [op |-> "change", id |-> i, row |-> Null, change |-> change], refers,
             [row |-> Changed(rows[i], change), kids |-> kids, product |-> Null], NoWrites, "select")
    BY Zenon DEF Changing
  <1>2. PICK change, refers, kids :
    /\ Is(i, rows[i].table) /\ Suits(change, rows[i].table)
    /\ refers \subseteq Ids \cup {Null} /\ i \in refers
    /\ kids # Null => kids = [k \in Children(rows, i, rows[i].table) |-> rows[k]]
    /\ [op |-> "change", id |-> i, row |-> Null, change |-> change] \in Asks
    /\ Begin(r, [op |-> "change", id |-> i, row |-> Null, change |-> change], refers,
             [row |-> Changed(rows[i], change), kids |-> kids, product |-> Null], NoWrites, "select")
    BY <1>1
  <1> DEFINE asked == [op |-> "change", id |-> i, row |-> Null, change |-> change]
             entity == [row |-> Changed(rows[i], change), kids |-> kids, product |-> Null]
  <1>3. /\ PerRequest' /\ \A o \in Others(r) : Unmoved(o)
        /\ pc'[r] = "select" /\ ask'[r] = asked /\ near'[r] = refers \ {Null} /\ target'[r] = i
        /\ held'[r] = entity /\ plan'[r] = NoWrites /\ out'[r] = out[r]
        /\ UNCHANGED <<family, rows, ideal>>
    <2>1. Begin(r, asked, refers, entity, NoWrites, "select")
      BY <1>2
    <2>2. PerRequest /\ asked.id = i
      BY DEF WellTyped
    <2> HIDE DEF asked, entity
    <2> QED BY <2>1, <2>2, BeginMoves
  <1>4. asked \in Asks /\ asked.op = "change" /\ asked.id = i
    BY <1>2
  <1>5. entity.row \in Rows /\ entity.kids = kids /\ entity.product = Null
    <2>1. rows[i] \in Rows
      BY <1>2 DEF WellTyped, Is
    <2> QED BY <1>2, <2>1, ChangedRow
  <1>6. kids # Null => \A k \in DOMAIN kids : k \in Ids /\ kids[k] \in Rows
    <2> DEFINE K == Children(rows, i, rows[i].table)
    <2>1. \A k \in K : k \in Ids /\ rows[k] \in Rows
      BY DEF Children, ChildrenIn, WellTyped
    <2>2. kids # Null => kids = [k \in K |-> rows[k]]
      BY <1>2
    <2> HIDE DEF K
    <2> QED BY <2>1, <2>2
  <1>7. DOMAIN out[r] = {}
    BY DEF WellTyped, Consistent, Working
  <1> HIDE DEF asked, entity
  <1> QED
    BY <1>2, <1>3, <1>4, <1>5, <1>6, <1>7, NothingWritten, NullIsNothing DEF Consistent, Working

\* What a request that deletes has in hand.
LEMMA DeletingConsistent ==
  ASSUME WellTyped, NEW r \in Requests, pc[r] = "idle", Deleting(r)
  PROVE  /\ PerRequest' /\ (\A o \in Others(r) : Unmoved(o)) /\ Consistent(r)'
         /\ UNCHANGED <<family, rows, ideal>>
  <1>1. PICK i \in Ids \ {r}, t \in family \cap (HardRemoved \cup DeletedById) :
          Begin(r, [op |-> "delete", id |-> i, row |-> Null, change |-> Null],
             {i} \cup Children(rows, i, t), Null, NoWrites, "remove")
    BY DEF Deleting
  <1> DEFINE asked == [op |-> "delete", id |-> i, row |-> Null, change |-> Null]
             refers == {i} \cup Children(rows, i, t)
  <1>2. /\ PerRequest' /\ \A o \in Others(r) : Unmoved(o)
        /\ pc'[r] = "remove" /\ ask'[r] = asked /\ near'[r] = refers \ {Null} /\ target'[r] = i
        /\ plan'[r] = NoWrites /\ out'[r] = out[r]
        /\ UNCHANGED <<family, rows, ideal>>
    <2>1. Begin(r, asked, refers, Null, NoWrites, "remove")
      BY <1>1
    <2>2. PerRequest /\ asked.id = i
      BY DEF WellTyped
    <2> HIDE DEF asked, refers
    <2> QED BY <2>1, <2>2, BeginMoves
  <1>3. asked \in Asks /\ asked.op = "delete" /\ asked.id = i
    BY DEF Asks
  <1>4. refers \subseteq Ids
    BY DEF Children, ChildrenIn
  <1>5. DOMAIN out[r] = {}
    BY DEF WellTyped, Consistent, Working
  <1> HIDE DEF asked, refers
  <1> QED
    BY <1>2, <1>3, <1>4, <1>5, NothingWritten, NullIsNothing DEF Consistent, Working

\* What save() compares and writes, row by row.
KidsOf(r) == IF held[r].kids # Null THEN held[r].kids ELSE NoWrites
ToWrite(r, k) ==
  IF k = target[r] THEN held[r].row
  ELSE IF k \in DOMAIN KidsOf(r) THEN KidsOf(r)[k]
  ELSE [Seen(r)[k] EXCEPT !.parent = Null]
ToSet(r, k) ==
  IF k = target[r] THEN Difference(held[r].row, Seen(r)[k])
  ELSE IF k \in DOMAIN KidsOf(r)
    THEN Difference(KidsOf(r)[k], Seen(r)[k])
         \cap (IF held[r].row.table \in SavesChildren THEN Fields ELSE {"parent"})
  ELSE {"parent"}
KnownTo(r) ==
  {target[r]} \cup DOMAIN KidsOf(r)
    \cup (IF held[r].kids # Null THEN Children(Seen(r), target[r], held[r].row.table) ELSE {})
ToPlan(r) == {j \in KnownTo(r) : Seen(r)[j] = Null \/ ToSet(r, j) # {}}
PlanOf(r, k) ==
  IF Seen(r)[k] = Null THEN Insertion(ToWrite(r, k)) ELSE Columns(ToWrite(r, k), ToSet(r, k))

\* The second SELECT of save() makes the plan and nothing else.
LEMMA SelectMoves ==
  ASSUME PerRequest, NEW r \in Requests, SelectForSave(r)
  PROVE  /\ PerRequest' /\ \A o \in Others(r) : Unmoved(o)
         /\ pc[r] = "select" /\ pc'[r] = "write"
         /\ DOMAIN plan'[r] = ToPlan(r) /\ \A k \in ToPlan(r) : plan'[r][k] = PlanOf(r, k)
         /\ ask'[r] = ask[r] /\ near'[r] = near[r] /\ target'[r] = target[r] /\ held'[r] = held[r]
         /\ out'[r] = out[r] /\ UNCHANGED <<family, rows, ideal, raced, out>>
  <1>1. plan' = [plan EXCEPT ![r] = [k \in ToPlan(r) |-> PlanOf(r, k)]]
    BY DEF SelectForSave, ToPlan, PlanOf, KnownTo, ToSet, ToWrite, KidsOf
  <1>2. /\ pc[r] = "select" /\ pc' = [pc EXCEPT ![r] = "write"]
        /\ UNCHANGED <<family, rows, ideal, raced, ask, near, target, held, out>>
    BY DEF SelectForSave, committed
  <1>3. PerRequest'
    BY <1>1, <1>2 DEF PerRequest
  <1> QED BY <1>1, <1>2, <1>3 DEF PerRequest, Unmoved, Others

\* What r sees are rows that fit.
LEMMA SeenRows ==
  ASSUME WellTyped, NEW tab, Fits(tab), NEW r \in Requests, NEW i \in Ids
  PROVE  Seen(r)[i] \in Rows \cup {Null} /\ Fit(tab, i, Seen(r)[i])
  <1>1. Seen(r)[i] = IF i \in DOMAIN out[r] THEN out[r][i] ELSE rows[i]
    BY DEF Seen
  <1>2. CASE i \in DOMAIN out[r]
    BY <1>1, <1>2 DEF WellTyped, Consistent, Fits, FitsRequest
  <1>3. CASE i \notin DOMAIN out[r]
    BY <1>1, <1>3 DEF WellTyped, Fits
  <1> QED BY <1>2, <1>3

\* So is what save() is about to write.
LEMMA PlannedRows ==
  ASSUME WellTyped, NEW tab, Fits(tab), NEW r \in Requests, pc[r] = "select", NEW k \in ToPlan(r)
  PROVE  /\ k \in Ids /\ PlanOf(r, k) \in Writes /\ PlanOf(r, k).row = ToWrite(r, k)
         /\ PlanOf(r, k).new <=> Seen(r)[k] = Null
         /\ Fit(tab, k, ToWrite(r, k))
  <1>1. /\ target[r] \in Ids /\ held[r].row \in Rows
        /\ held[r].kids # Null => \A j \in DOMAIN held[r].kids : j \in Ids /\ held[r].kids[j] \in Rows
    BY DEF WellTyped, Consistent
  <1>2. \A j \in DOMAIN KidsOf(r) : j \in Ids /\ KidsOf(r)[j] \in Rows
    BY <1>1, NothingWritten DEF KidsOf
  <1>3. /\ Fit(tab, target[r], held[r].row)
        /\ held[r].kids # Null => \A j \in DOMAIN held[r].kids : Fit(tab, j, held[r].kids[j])
    BY DEF Fits, FitsRequest
  <1>4. \A j \in DOMAIN KidsOf(r) : Fit(tab, j, KidsOf(r)[j])
    BY <1>3, NothingWritten DEF KidsOf
  <1>5. k \in Ids /\ (k = target[r] \/ k \in DOMAIN KidsOf(r) \/ Seen(r)[k] # Null)
    BY <1>1, <1>2 DEF ToPlan, KnownTo, Children, ChildrenIn
  <1>6. Seen(r)[k] \in Rows \cup {Null} /\ Fit(tab, k, Seen(r)[k])
    BY <1>5, SeenRows
  <1>7. ToWrite(r, k) \in Rows /\ Fit(tab, k, ToWrite(r, k))
    <2>1. CASE k = target[r]
      BY <1>1, <1>3, <2>1 DEF ToWrite
    <2>2. CASE k # target[r] /\ k \in DOMAIN KidsOf(r)
      BY <1>2, <1>4, <2>2 DEF ToWrite
    <2>3. CASE k # target[r] /\ k \notin DOMAIN KidsOf(r)
      <3> DEFINE row == Seen(r)[k]
      <3>1. row \in Rows /\ row.table = tab[k]
        BY <1>5, <1>6, <2>3, NullIsNothing DEF Fit
      <3>2. row = [table |-> row.table, code |-> row.code, parent |-> row.parent, mark |-> row.mark]
            /\ row.table \in Tables /\ row.code \in Codes /\ row.mark \in BOOLEAN
        BY <3>1, RowColumns
      <3>3. ToWrite(r, k) = [row EXCEPT !.parent = Null]
        BY <2>3 DEF ToWrite
      <3> HIDE DEF row
      <3>4. ToWrite(r, k) = [table |-> row.table, code |-> row.code, parent |-> Null, mark |-> row.mark]
        BY <3>2, <3>3
      <3>5. ToWrite(r, k) \in Rows /\ ToWrite(r, k).table = row.table
        BY <3>2, <3>4, RowOf
      <3> QED BY <3>1, <3>5 DEF Fit
    <2> QED BY <2>1, <2>2, <2>3
  <1>8. ToSet(r, k) \subseteq Fields
    BY DEF ToSet, Difference, Fields
  <1> QED BY <1>5, <1>7, <1>8 DEF PlanOf, Insertion, Columns, Writes

\* What a save plans to write is well formed, and fits the tables of the ids.
LEMMA SelectConsistent ==
  ASSUME WellTyped, NEW tab, Fits(tab), NEW r \in Requests, SelectForSave(r)
  PROVE  Consistent(r)' /\ FitsRequest(tab, r)'
  <1>1. PerRequest
    BY DEF WellTyped
  <1>2. \A k \in DOMAIN plan'[r] : k \in Ids /\ plan'[r][k] \in Writes /\ Fit(tab, k, plan'[r][k].row)
    BY <1>1, SelectMoves, PlannedRows
  <1>3. Consistent(r) /\ FitsRequest(tab, r)
    BY DEF WellTyped, Fits
  <1>4. held[r].product = Null
    BY <1>1, <1>3, SelectMoves DEF Consistent
  <1>5. Consistent(r)'
    BY <1>1, <1>2, <1>3, <1>4, SelectMoves DEF Consistent, Working
  <1>6. FitsRequest(tab, r)'
    BY <1>1, <1>2, <1>3, <1>4, SelectMoves DEF FitsRequest, Working
  <1> QED BY <1>5, <1>6

\* An UPDATE of some columns of a row.
LEMMA UpdatedRow ==
  ASSUME NEW now \in Rows, NEW entity \in Rows, entity.table = now.table, NEW set \in SUBSET Fields,
         NEW row, row = [f \in DOMAIN now |-> IF f \in set THEN entity[f] ELSE now[f]]
  PROVE  /\ row \in Rows /\ row.table = now.table
         /\ row.code = IF "code" \in set THEN entity.code ELSE now.code
         /\ row.parent = IF "parent" \in set THEN entity.parent ELSE now.parent
         /\ row.mark = IF "mark" \in set THEN entity.mark ELSE now.mark
  <1>1. DOMAIN now = {"table", "code", "parent", "mark"} /\ now.table \in Tables
    BY RowColumns
  <1>2. "table" \notin set
    BY DEF Fields
  <1>3. DOMAIN row = {"table", "code", "parent", "mark"}
    BY <1>1
  <1>4. /\ row.table = now.table
        /\ row.code = IF "code" \in set THEN entity.code ELSE now.code
        /\ row.parent = IF "parent" \in set THEN entity.parent ELSE now.parent
        /\ row.mark = IF "mark" \in set THEN entity.mark ELSE now.mark
    BY <1>1, <1>2
  <1>5. /\ row.code \in Codes /\ row.parent \in Ids \cup {Null} /\ row.mark \in BOOLEAN
        /\ row.parent # Null => row.table \in WithParent
    BY <1>4, RowColumns
  <1>6. row = [table |-> row.table, code |-> row.code, parent |-> row.parent, mark |-> row.mark]
    BY <1>1, <1>3
  <1>7. [table |-> row.table, code |-> row.code, parent |-> row.parent, mark |-> row.mark] \in Rows
    BY <1>1, <1>4, <1>5, RowOf
  <1>8. row \in Rows
    BY <1>6, <1>7
  <1> QED BY <1>4, <1>8

\* What the writes of save() make of a row.
LEMMA WrittenRow ==
  ASSUME WellTyped, NEW tab, Fits(tab), NEW r \in Requests, NEW i \in DOMAIN plan[r]
  PROVE  /\ i \in Ids /\ plan[r][i] \in Writes /\ plan[r][i].row \in Rows
         /\ Written(r, i) \in Rows \cup {Null} /\ Fit(tab, i, Written(r, i))
         /\ Written(r, i) = Null <=> ~plan[r][i].new /\ Seen(r)[i] = Null
         /\ plan[r][i].new => Written(r, i) = plan[r][i].row
         /\ ~plan[r][i].new /\ Seen(r)[i] # Null =>
              LET p == plan[r][i]
                  now == Seen(r)[i]
                  row == Written(r, i) IN
              /\ now \in Rows /\ row.table = now.table /\ row.table = p.row.table
              /\ row.code = IF "code" \in p.set THEN p.row.code ELSE now.code
              /\ row.parent = IF "parent" \in p.set THEN p.row.parent ELSE now.parent
              /\ row.mark = IF "mark" \in p.set THEN p.row.mark ELSE now.mark
  <1> DEFINE p == plan[r][i]
             now == Seen(r)[i]
  <1>1. i \in Ids /\ p \in Writes /\ Fit(tab, i, p.row)
    BY DEF WellTyped, Consistent, Fits, FitsRequest
  <1>2. p.new \in BOOLEAN /\ p.row \in Rows /\ p.set \in SUBSET Fields /\ p.row # Null /\ p.row.table = tab[i]
    BY <1>1, NullIsNothing DEF Writes, Fit
  <1>3. now \in Rows \cup {Null} /\ Fit(tab, i, now)
    BY <1>1, SeenRows
  <1>4. Written(r, i) = IF p.new THEN p.row ELSE IF now = Null THEN Null
                        ELSE [f \in DOMAIN now |-> IF f \in p.set THEN p.row[f] ELSE now[f]]
    BY DEF Written
  <1> HIDE DEF p, now
  <1>5. CASE p.new
    <2>1. Written(r, i) = p.row
      BY <1>4, <1>5
    <2> QED BY <1>1, <1>2, <1>5, <2>1 DEF p, now, Fit
  <1>6. CASE ~p.new /\ now = Null
    <2>1. Written(r, i) = Null
      BY <1>4, <1>6
    <2> QED BY <1>1, <1>2, <1>6, <2>1 DEF p, now, Fit
  <1>7. CASE ~p.new /\ now # Null
    <2>1. now \in Rows /\ now.table = tab[i]
      BY <1>3, <1>7 DEF Fit
    <2>2. /\ Written(r, i) \in Rows /\ Written(r, i).table = now.table
          /\ Written(r, i).code = IF "code" \in p.set THEN p.row.code ELSE now.code
          /\ Written(r, i).parent = IF "parent" \in p.set THEN p.row.parent ELSE now.parent
          /\ Written(r, i).mark = IF "mark" \in p.set THEN p.row.mark ELSE now.mark
      <3>1. Written(r, i) = [f \in DOMAIN now |-> IF f \in p.set THEN p.row[f] ELSE now[f]]
        BY <1>4, <1>7
      <3>2. p.row.table = now.table
        BY <1>2, <2>1
      <3> QED BY <1>2, <2>1, <3>1, <3>2, UpdatedRow
    <2>3. Written(r, i) # Null
      BY <2>2, NullIsNothing
    <2> QED BY <1>1, <1>2, <1>7, <2>1, <2>2, <2>3 DEF p, now, Fit
  <1> QED BY <1>2, <1>5, <1>6, <1>7

\* The rows that r sees after its writes.
LEMMA NewRows ==
  ASSUME WellTyped, NEW tab, Fits(tab), NEW r \in Requests, NEW i \in Ids
  PROVE  /\ NewState(r)[i] = IF i \in DOMAIN plan[r] THEN Written(r, i) ELSE Seen(r)[i]
         /\ NewState(r)[i] \in Rows \cup {Null} /\ Fit(tab, i, NewState(r)[i])
  <1>1. NewState(r)[i] = IF i \in DOMAIN plan[r] THEN Written(r, i) ELSE Seen(r)[i]
    BY DEF NewState
  <1>2. CASE i \in DOMAIN plan[r]
    BY <1>1, <1>2, WrittenRow
  <1>3. CASE i \notin DOMAIN plan[r]
    BY <1>1, <1>3, SeenRows
  <1> QED BY <1>1, <1>2, <1>3

\* The writes of r are carried out.
Stored(r) ==
  /\ pc[r] = "write" /\ ~Waits(r) /\ ~ConstraintViolated(r)
  /\ DOMAIN out'[r] = DOMAIN out[r] \cup DOMAIN plan[r]
  /\ \A i \in DOMAIN out[r] \cup DOMAIN plan[r] : out'[r][i] = NewState(r)[i]
  /\ \/ held[r].product = Null /\ pc'[r] = "commit" /\ target'[r] = target[r] /\ held'[r] = held[r]
     \/ /\ held[r].product # Null /\ pc'[r] = "select" /\ target'[r] = held[r].row.parent
        /\ held'[r] = [row |-> Changed(held[r].product, Marked), kids |-> Null, product |-> Null]
  /\ plan'[r] = NoWrites /\ ask'[r] = ask[r] /\ near'[r] = near[r]
  /\ UNCHANGED <<family, rows, ideal, raced>>

\* A write is refused, or changes nothing but what its own request has.
LEMMA WriteMoves ==
  ASSUME PerRequest, NEW r \in Requests, Write(r)
  PROVE  \/ Refuse(r)
         \/ Stored(r) /\ PerRequest' /\ \A o \in Others(r) : Unmoved(o)
  <1> SUFFICES ASSUME ~Refuse(r)
               PROVE  Stored(r) /\ PerRequest' /\ \A o \in Others(r) : Unmoved(o)
    OBVIOUS
  <1>1. /\ pc[r] = "write" /\ ~Waits(r) /\ ~ConstraintViolated(r)
        /\ out' = [out EXCEPT ![r] = [i \in DOMAIN out[r] \cup DOMAIN plan[r] |-> NewState(r)[i]]]
        /\ plan' = [plan EXCEPT ![r] = NoWrites]
        /\ UNCHANGED <<family, rows, ideal, raced, ask, near>>
    BY DEF Write, committed
  <1>2. \/ held[r].product = Null /\ pc' = [pc EXCEPT ![r] = "commit"] /\ UNCHANGED <<target, held>>
        \/ /\ held[r].product # Null
           /\ target' = [target EXCEPT ![r] = held[r].row.parent]
           /\ held' = [held EXCEPT ![r] =
                [row |-> Changed(held[r].product, Marked), kids |-> Null, product |-> Null]]
           /\ pc' = [pc EXCEPT ![r] = "select"]
    BY DEF Write
  <1>3. PerRequest'
    BY <1>1, <1>2 DEF PerRequest
  <1>4. \A o \in Others(r) : Unmoved(o)
    BY <1>1, <1>2 DEF PerRequest, Unmoved, Others
  <1>5. Stored(r)
    BY <1>1, <1>2 DEF PerRequest, Stored
  <1> QED BY <1>3, <1>4, <1>5

\* What a write has stored is well formed, and fits the tables of the ids.
LEMMA StoredConsistent ==
  ASSUME WellTyped, NEW tab, Fits(tab), NEW r \in Requests, Stored(r)
  PROVE  Consistent(r)' /\ FitsRequest(tab, r)'
  <1>1. Consistent(r) /\ FitsRequest(tab, r) /\ r \in Ids
    BY DEF WellTyped, Fits, Ids
  <1>2. \A i \in DOMAIN out'[r] : i \in Ids /\ out'[r][i] \in Rows \cup {Null} /\ Fit(tab, i, out'[r][i])
    <2>1. \A i \in DOMAIN out'[r] : i \in Ids
      BY <1>1 DEF Stored, Consistent
    <2> QED BY <2>1, NewRows DEF Stored
  <1>3. DOMAIN plan'[r] = {}
    BY NothingWritten DEF Stored
  <1>4. CASE held[r].product = Null
    <2>1. Consistent(r)'
      BY <1>1, <1>2, <1>3, <1>4 DEF Consistent, Stored, Working
    <2>2. FitsRequest(tab, r)'
      BY <1>1, <1>2, <1>3, <1>4 DEF FitsRequest, Stored, Working
    <2> QED BY <2>1, <2>2
  <1>5. CASE held[r].product # Null
    <2>1. /\ held[r].product \in Rows /\ ask[r].op = "create" /\ held[r].row = ask[r].row
          /\ ask[r].row.table = "variant" /\ ask[r].row.parent \in Ids
      BY <1>1, <1>5 DEF Consistent, Stored
    <2>2. Changed(held[r].product, Marked) \in Rows
          /\ Changed(held[r].product, Marked).table = held[r].product.table
      BY <2>1, MarkSuits, ChangedRow
    <2>3. Fit(tab, held[r].row.parent, Changed(held[r].product, Marked))
      BY <1>1, <1>5, <2>1, <2>2, NullIsNothing DEF FitsRequest, Stored, Fit
    <2>4. Consistent(r)'
      BY <1>1, <1>2, <1>3, <1>5, <2>1, <2>2 DEF Consistent, Stored, Working
    <2>5. FitsRequest(tab, r)'
      BY <1>1, <1>2, <1>3, <1>5, <2>3 DEF FitsRequest, Stored, Working
    <2> QED BY <2>4, <2>5
  <1> QED BY <1>4, <1>5

\* The rows that r removes.
GoneWith(r) == {j \in {target[r]} \cup Cascade(target[r]) : rows[j] # Null}

Removed(r) ==
  /\ pc[r] = "remove" /\ pc'[r] = "commit"
  /\ (\A j \in GoneWith(r) : ~Locked(r, j)) /\ ~ChildPending(r, target[r])
  /\ DOMAIN out'[r] = GoneWith(r) /\ \A j \in GoneWith(r) : out'[r][j] = Null
  /\ ask'[r] = ask[r] /\ near'[r] = near[r] /\ target'[r] = target[r] /\ held'[r] = held[r]
  /\ plan'[r] = plan[r]
  /\ UNCHANGED <<family, rows, ideal, raced>>

\* A removal is refused, or changes nothing but what its own request has.
LEMMA RemoveMoves ==
  ASSUME PerRequest, NEW r \in Requests, Remove(r)
  PROVE  \/ Refuse(r)
         \/ Removed(r) /\ PerRequest' /\ \A o \in Others(r) : Unmoved(o)
  <1> SUFFICES ASSUME ~Refuse(r)
               PROVE  Removed(r) /\ PerRequest' /\ \A o \in Others(r) : Unmoved(o)
    OBVIOUS
  <1>1. /\ pc[r] = "remove" /\ (\A j \in GoneWith(r) : ~Locked(r, j)) /\ ~ChildPending(r, target[r])
        /\ out' = [out EXCEPT ![r] = [j \in GoneWith(r) |-> Null]]
        /\ pc' = [pc EXCEPT ![r] = "commit"]
        /\ UNCHANGED <<family, rows, ideal, raced, ask, near, target, held, plan>>
    BY DEF Remove, GoneWith, committed
  <1>2. PerRequest'
    BY <1>1 DEF PerRequest
  <1>3. \A o \in Others(r) : Unmoved(o)
    BY <1>1 DEF PerRequest, Unmoved, Others
  <1>4. Removed(r)
    BY <1>1 DEF PerRequest, Removed
  <1> QED BY <1>2, <1>3, <1>4

\* What a removal has written are rows that are gone.
LEMMA RemovedConsistent ==
  ASSUME WellTyped, NEW tab, Fits(tab), NEW r \in Requests, Removed(r)
  PROVE  Consistent(r)' /\ FitsRequest(tab, r)'
  <1>1. Consistent(r) /\ FitsRequest(tab, r)
    BY DEF WellTyped, Fits
  <1>2. \A j \in GoneWith(r) : j \in Ids
    BY <1>1 DEF GoneWith, Cascade, Removed, Consistent
  <1>3. Consistent(r)'
    BY <1>1, <1>2 DEF Consistent, Removed, Working
  <1>4. FitsRequest(tab, r)'
    BY <1>1, <1>2 DEF FitsRequest, Removed, Working, Fit
  <1> QED BY <1>3, <1>4

\* What an acknowledged request does to a row, operation by operation.
LEMMA DoneAt ==
  ASSUME NEW a, NEW s, DOMAIN s = Ids, s = [i \in Ids |-> s[i]], NEW i \in Ids
  PROVE  /\ a.op = "create" =>
              Done(a, s)[i] = IF i = a.id THEN a.row
                              ELSE IF a.row.table = "variant" /\ i = a.row.parent /\ s[i] # Null
                                THEN Changed(s[i], Marked) ELSE s[i]
         /\ a.op = "change" =>
              Done(a, s)[i] = IF i # a.id THEN s[i]
                              ELSE IF s[i] = Null THEN Null ELSE Changed(s[i], a.change)
         /\ a.op = "delete" =>
              Done(a, s)[i] = IF i = a.id \/ (s[i] # Null /\ s[i].table \in Owned /\ s[i].parent = a.id)
                              THEN Null ELSE s[i]
         /\ a.op \in {"create", "change", "delete"} =>
              DOMAIN Done(a, s) = Ids /\ Done(a, s) = [k \in Ids |-> Done(a, s)[k]]
  <1>1. CASE a.op = "create"
    BY <1>1 DEF Done
  <1>2. CASE a.op = "change"
    <2>1. Done(a, s) = [s EXCEPT ![a.id] = IF @ = Null THEN Null ELSE Changed(@, a.change)]
      BY <1>2 DEF Done
    <2> QED BY <1>2, <2>1
  <1>3. CASE a.op = "delete"
    BY <1>3 DEF Done
  <1> QED BY <1>1, <1>2, <1>3

\* It makes rows of rows.
LEMMA DoneRows ==
  ASSUME WellTyped, NEW tab, Fits(tab), NEW r \in Requests, pc[r] \in Working,
         NEW s \in [Ids -> Rows \cup {Null}], \A i \in Ids : Fit(tab, i, s[i])
  PROVE  /\ Done(ask[r], s) \in [Ids -> Rows \cup {Null}]
         /\ \A i \in Ids : Fit(tab, i, Done(ask[r], s)[i])
  <1> DEFINE a == ask[r]
  <1>1. a \in Asks /\ a.op \in {"create", "change", "delete"} /\ a.id \in Ids
    <2>1. a \in Asks
      BY DEF WellTyped, Consistent
    <2> QED BY <2>1 DEF Asks
  <1>2. /\ a.op = "create" => a.id = r /\ a.row \in Rows /\ Fit(tab, r, a.row)
        /\ a.op = "change" => Suits(a.change, tab[a.id])
    BY DEF WellTyped, Consistent, Fits, FitsRequest
  <1>3. DOMAIN s = Ids /\ s = [i \in Ids |-> s[i]]
    OBVIOUS
  <1> HIDE DEF a
  <1>4. ASSUME NEW i \in Ids
        PROVE  Done(a, s)[i] \in Rows \cup {Null} /\ Fit(tab, i, Done(a, s)[i])
    <2>1. s[i] \in Rows \cup {Null} /\ Fit(tab, i, s[i])
      OBVIOUS
    <2>2. s[i] # Null => s[i] \in Rows /\ s[i].table = tab[i]
      BY <2>1 DEF Fit
    <2>3. s[i] # Null => Changed(s[i], Marked) \in Rows /\ Changed(s[i], Marked).table = tab[i]
      BY <2>2, MarkSuits, ChangedRow
    <2>4. s[i] # Null /\ a.op = "change" /\ i = a.id =>
            Changed(s[i], a.change) \in Rows /\ Changed(s[i], a.change).table = tab[i]
      BY <1>2, <2>2, ChangedRow
    <2>5. CASE a.op = "create"
      <3>1. Done(a, s)[i] = IF i = a.id THEN a.row
                              ELSE IF a.row.table = "variant" /\ i = a.row.parent /\ s[i] # Null
                                THEN Changed(s[i], Marked) ELSE s[i]
        BY <1>3, <2>5, DoneAt
      <3> QED BY <1>2, <2>1, <2>3, <2>5, <3>1 DEF Fit
    <2>6. CASE a.op = "change"
      <3>1. Done(a, s)[i] = IF i # a.id THEN s[i]
                              ELSE IF s[i] = Null THEN Null ELSE Changed(s[i], a.change)
        BY <1>3, <2>6, DoneAt
      <3> QED BY <2>1, <2>4, <2>6, <3>1 DEF Fit
    <2>7. CASE a.op = "delete"
      <3>1. Done(a, s)[i] = IF i = a.id \/ (s[i] # Null /\ s[i].table \in Owned /\ s[i].parent = a.id)
                              THEN Null ELSE s[i]
        BY <1>3, <2>7, DoneAt
      <3> QED BY <2>1, <3>1 DEF Fit
    <2> QED BY <1>1, <2>5, <2>6, <2>7
  <1>5. Done(a, s) = [k \in Ids |-> Done(a, s)[k]]
    <2>1. CASE Ids = {}
      BY <1>1, <2>1
    <2>2. CASE Ids # {}
      BY <1>1, <1>3, <2>2, DoneAt
    <2> QED BY <2>1, <2>2
  <1>6. Done(a, s) \in [Ids -> Rows \cup {Null}]
    BY <1>4, <1>5
  <1> QED BY <1>4, <1>6 DEF a

\* The requests that did not move are still as they were.
LEMMA UnmovedFits ==
  ASSUME NEW tab, NEW o \in Requests, FitsRequest(tab, o), Unmoved(o), family' = family
  PROVE  FitsRequest(tab, o)'
  BY DEF FitsRequest, Unmoved

\* A new row gives its id a table; that disturbs nobody.
LEMMA NewIdFits ==
  ASSUME WellTyped, NEW tab \in [Ids -> family \cup {"none"}], NEW r \in Requests, tab[r] = "none",
         NEW t \in family, NEW other, other = [tab EXCEPT ![r] = t]
  PROVE  /\ other \in [Ids -> family \cup {"none"}] /\ other[r] = t
         /\ \A i \in Ids : tab[i] # "none" => other[i] = tab[i]
         /\ \A i \in Ids : \A row \in Rows \cup {Null} : Fit(tab, i, row) => Fit(other, i, row)
         /\ \A o \in Others(r) : FitsRequest(tab, o) => FitsRequest(other, o)
  <1>1. r \in Ids /\ other \in [Ids -> family \cup {"none"}] /\ other[r] = t
    BY DEF Ids
  <1>2. \A i \in Ids : (tab[i] # "none" => other[i] = tab[i]) /\ (i # r => other[i] = tab[i])
    OBVIOUS
  <1>3. \A i \in Ids : \A row \in Rows \cup {Null} : Fit(tab, i, row) => Fit(other, i, row)
    <2>1. \A row \in Rows : row.table # "none"
      BY RowColumns, TableNames
    <2> QED BY <1>2, <2>1 DEF Fit
  <1>4. ASSUME NEW o \in Others(r), FitsRequest(tab, o)
        PROVE  FitsRequest(other, o)
    <2>1. o \in Requests /\ o # r /\ o \in Ids /\ Consistent(o)
      BY DEF Others, Ids, WellTyped
    <2>2. pc[o] = "idle" => other[o] = "none"
      BY <1>2, <1>4, <2>1 DEF FitsRequest
    <2>3. \A i \in DOMAIN out[o] : Fit(other, i, out[o][i])
      BY <1>3, <1>4, <2>1 DEF FitsRequest, Consistent
    <2>4. \A i \in DOMAIN plan[o] : Fit(other, i, plan[o][i].row)
      <3>1. \A i \in DOMAIN plan[o] : i \in Ids /\ plan[o][i].row \in Rows
        BY <2>1 DEF Consistent, Writes
      <3> QED BY <1>3, <1>4, <3>1 DEF FitsRequest
    <2>5. ASSUME pc[o] \in {"select", "write"}
          PROVE  /\ Fit(other, target[o], held[o].row)
                 /\ held[o].kids # Null => \A k \in DOMAIN held[o].kids : Fit(other, k, held[o].kids[k])
                 /\ held[o].product # Null => Fit(other, held[o].row.parent, held[o].product)
      BY <1>3, <1>4, <2>1, <2>5 DEF FitsRequest, Consistent
    <2>6. ASSUME pc[o] \in Working, ask[o].op = "create"
          PROVE  /\ Fit(other, o, ask[o].row)
                 /\ ask[o].row.table \in FindsParent =>
                      ask[o].row.parent \in Ids /\ other[ask[o].row.parent] = ParentTable[ask[o].row.table]
      <3>1. /\ ask[o].row \in Rows /\ Fit(tab, o, ask[o].row)
            /\ ask[o].row.table \in FindsParent =>
                 ask[o].row.parent \in Ids /\ tab[ask[o].row.parent] = ParentTable[ask[o].row.table]
        BY <1>4, <2>1, <2>6 DEF FitsRequest, Consistent
      <3>2. ASSUME ask[o].row.table \in FindsParent
            PROVE  ask[o].row.parent \in Ids /\ tab[ask[o].row.parent] # "none"
        <4>1. ask[o].row.table \in WithParent /\ ParentTable[ask[o].row.table] # "none"
          BY <3>2, TableNames, ParentTables DEF FindsParent
        <4>2. tab[ask[o].row.parent] # "none"
          BY <3>1, <3>2, <4>1
        <4> QED BY <3>1, <3>2, <4>2
      <3> QED BY <1>2, <1>3, <2>1, <3>1, <3>2
    <2>7. ASSUME pc[o] \in Working, ask[o].op = "change"
          PROVE  Suits(ask[o].change, other[ask[o].id])
      <3>1. Suits(ask[o].change, tab[ask[o].id]) /\ ask[o].id \in Ids
        BY <1>4, <2>1, <2>7 DEF FitsRequest, Consistent, Asks
      <3> QED BY <1>2, <3>1 DEF Suits
    <2>8. ASSUME pc[o] = "remove"
          PROVE  other[target[o]] \in HardRemoved \/ family \subseteq DeletedById
      BY <1>2, <1>4, <2>1, <2>8 DEF FitsRequest, Consistent, HardRemoved
    <2> QED BY <2>2, <2>3, <2>4, <2>5, <2>6, <2>7, <2>8 DEF FitsRequest
  <1> QED BY <1>1, <1>2, <1>3, <1>4

\* A request that creates fits, with the table of its row under its id.
LEMMA CreatingFits ==
  ASSUME WellTyped, NEW tab, Fits(tab), NEW r \in Requests, pc[r] = "idle", Creating(r)
  PROVE  \E other : Fits(other)'
  <1>1. PICK row \in Rows, product \in Rows \cup {Null} :
          /\ row.table \in family /\ row.parent # r
          /\ row.table \in FindsParent => Is(row.parent, ParentTable[row.table])
          /\ product # Null => row.table = "variant" /\ product = rows[row.parent]
          /\ BeginCreate(r, row, product)
    BY DEF Creating
  <1> DEFINE asked == [op |-> "create", id |-> r, row |-> row, change |-> Null]
             entity == [row |-> row, kids |-> Null, product |-> product]
             writes == [i \in {r} |-> Insertion(row)]
             other == [tab EXCEPT ![r] = row.table]
  <1>2. /\ PerRequest' /\ \A o \in Others(r) : Unmoved(o)
        /\ pc'[r] = "write" /\ ask'[r] = asked /\ target'[r] = r
        /\ held'[r] = entity /\ plan'[r] = writes /\ out'[r] = out[r]
        /\ UNCHANGED <<family, rows, ideal>>
    <2>1. Begin(r, asked, {r, row.parent}, entity, writes, "write")
      BY <1>1 DEF BeginCreate
    <2>2. PerRequest /\ asked.id = r
      BY DEF WellTyped
    <2> HIDE DEF asked, entity, writes
    <2> QED BY <2>1, <2>2, BeginMoves
  <1>3. tab \in [Ids -> family \cup {"none"}] /\ tab[r] = "none" /\ r \in Ids
    BY DEF Fits, FitsRequest, Ids
  <1>4. /\ other \in [Ids -> family \cup {"none"}] /\ other[r] = row.table
        /\ \A i \in Ids : tab[i] # "none" => other[i] = tab[i]
        /\ \A i \in Ids : \A x \in Rows \cup {Null} : Fit(tab, i, x) => Fit(other, i, x)
        /\ \A o \in Others(r) : FitsRequest(tab, o) => FitsRequest(other, o)
    <2> DEFINE t == row.table
    <2>1. other = [tab EXCEPT ![r] = t] /\ t \in family
      BY <1>1
    <2> HIDE DEF other, t
    <2>2. /\ other \in [Ids -> family \cup {"none"}] /\ other[r] = t
          /\ \A i \in Ids : tab[i] # "none" => other[i] = tab[i]
          /\ \A i \in Ids : \A x \in Rows \cup {Null} : Fit(tab, i, x) => Fit(other, i, x)
          /\ \A o \in Others(r) : FitsRequest(tab, o) => FitsRequest(other, o)
      BY <1>3, <2>1, NewIdFits
    <2> QED BY <2>2 DEF t
  <1>5. DOMAIN writes = {r} /\ writes[r].row = row
    BY DEF Insertion
  <1>6. entity.row = row /\ entity.kids = Null /\ entity.product = product
        /\ asked.op = "create" /\ asked.row = row
    OBVIOUS
  <1>7. DOMAIN out[r] = {}
    BY DEF WellTyped, Consistent, Working
  <1>8. ASSUME row.table \in FindsParent
        PROVE  /\ row.parent \in Ids /\ rows[row.parent] \in Rows
               /\ other[row.parent] = ParentTable[row.table]
               /\ Fit(other, row.parent, rows[row.parent])
    <2>1. row.parent \in Ids /\ rows[row.parent] # Null /\ rows[row.parent].table = ParentTable[row.table]
      BY <1>1, <1>8 DEF Is
    <2>2. rows[row.parent] \in Rows /\ Fit(tab, row.parent, rows[row.parent])
      BY <2>1 DEF WellTyped, Fits
    <2>3. rows[row.parent].table \in Tables
      BY <2>2, RowColumns
    <2>4. tab[row.parent] = ParentTable[row.table] /\ tab[row.parent] # "none"
      BY <2>1, <2>2, <2>3, TableNames DEF Fit
    <2> QED BY <1>4, <2>1, <2>2, <2>4
  <1>9. product # Null => Fit(other, row.parent, product)
    BY <1>1, <1>8 DEF FindsParent
  <1> HIDE DEF asked, entity, writes, other
  <1>10. FitsRequest(other, r)'
    BY <1>2, <1>4, <1>5, <1>6, <1>7, <1>8, <1>9 DEF FitsRequest, Fit
  <1>11. \A o \in Requests : FitsRequest(other, o)'
    <2>1. \A o \in Others(r) : FitsRequest(other, o)'
      BY <1>2, <1>4, UnmovedFits DEF Fits, Others
    <2> QED BY <1>10, <2>1 DEF Others
  <1>12. \A i \in Ids : Fit(other, i, rows[i]) /\ Fit(other, i, ideal[i])
    BY <1>4 DEF Fits, WellTyped
  <1>13. Fits(other)'
    BY <1>2, <1>4, <1>11, <1>12 DEF Fits, Fit
  <1> QED BY <1>13

\* So does one that changes a row.
LEMMA ChangingFits ==
  ASSUME WellTyped, NEW tab, Fits(tab), NEW r \in Requests, pc[r] = "idle", Changing(r)
  PROVE  FitsRequest(tab, r)'
  <1>1. PICK i \in Ids \ {r} : \E change, refers, kids :
    /\ Is(i, rows[i].table) /\ Suits(change, rows[i].table)
    /\ kids # Null => kids = [k \in Children(rows, i, rows[i].table) |-> rows[k]]
    /\ Begin(r, [op |-> "change", id |-> i, row |-> Null, change |-> change], refers,
             [row |-> Changed(rows[i], change), kids |-> kids, product |-> Null], NoWrites, "select")
    BY Zenon DEF Changing
  <1>2. PICK change, refers, kids :
    /\ Is(i, rows[i].table) /\ Suits(change, rows[i].table)
    /\ kids # Null => kids = [k \in Children(rows, i, rows[i].table) |-> rows[k]]
    /\ Begin(r, [op |-> "change", id |-> i, row |-> Null, change |-> change], refers,
             [row |-> Changed(rows[i], change), kids |-> kids, product |-> Null], NoWrites, "select")
    BY <1>1
  <1> DEFINE asked == [op |-> "change", id |-> i, row |-> Null, change |-> change]
             entity == [row |-> Changed(rows[i], change), kids |-> kids, product |-> Null]
  <1>3. /\ pc'[r] = "select" /\ ask'[r] = asked /\ target'[r] = i
        /\ held'[r] = entity /\ plan'[r] = NoWrites /\ out'[r] = out[r]
        /\ UNCHANGED <<family, rows, ideal>>
    <2>1. Begin(r, asked, refers, entity, NoWrites, "select")
      BY <1>2
    <2>2. PerRequest /\ asked.id = i
      BY DEF WellTyped
    <2> HIDE DEF asked, entity
    <2> QED BY <2>1, <2>2, BeginMoves
  <1>4. asked.op = "change" /\ asked.id = i /\ asked.change = change
    OBVIOUS
  <1>5. rows[i] \in Rows /\ rows[i].table = tab[i]
    BY <1>2 DEF WellTyped, Is, Fits, Fit
  <1>6. Fit(tab, i, entity.row) /\ entity.kids = kids /\ entity.product = Null
    BY <1>2, <1>5, ChangedRow DEF Fit
  <1>7. kids # Null => \A k \in DOMAIN kids : Fit(tab, k, kids[k])
    <2> DEFINE K == Children(rows, i, rows[i].table)
    <2>1. \A k \in K : Fit(tab, k, rows[k])
      BY DEF Children, ChildrenIn, Fits
    <2>2. kids # Null => kids = [k \in K |-> rows[k]]
      BY <1>2
    <2> HIDE DEF K
    <2> QED BY <2>1, <2>2
  <1>8. DOMAIN out[r] = {} /\ DOMAIN NoWrites = {}
    BY NothingWritten DEF WellTyped, Consistent, Working
  <1> HIDE DEF asked, entity
  <1> QED BY <1>2, <1>3, <1>4, <1>5, <1>6, <1>7, <1>8 DEF FitsRequest, Working

\* So does one that deletes a row.
LEMMA DeletingFits ==
  ASSUME WellTyped, NEW tab, Fits(tab), NEW r \in Requests, pc[r] = "idle", Deleting(r)
  PROVE  FitsRequest(tab, r)'
  <1>1. PICK i \in Ids \ {r}, t \in family \cap (HardRemoved \cup DeletedById) :
          /\ Is(i, t) \/ t \in DeletedById
          /\ Begin(r, [op |-> "delete", id |-> i, row |-> Null, change |-> Null],
               {i} \cup Children(rows, i, t), Null, NoWrites, "remove")
    BY DEF Deleting
  <1> DEFINE asked == [op |-> "delete", id |-> i, row |-> Null, change |-> Null]
             refers == {i} \cup Children(rows, i, t)
  <1>2. /\ pc'[r] = "remove" /\ ask'[r] = asked /\ target'[r] = i
        /\ plan'[r] = NoWrites /\ out'[r] = out[r]
        /\ UNCHANGED <<family, rows, ideal>>
    <2>1. Begin(r, asked, refers, Null, NoWrites, "remove")
      BY <1>1
    <2>2. PerRequest /\ asked.id = i
      BY DEF WellTyped
    <2> HIDE DEF asked, refers
    <2> QED BY <2>1, <2>2, BeginMoves
  <1>3. asked.op = "delete"
    OBVIOUS
  <1>4. tab[i] \in HardRemoved \/ family \subseteq DeletedById
    <2>1. CASE t \in DeletedById
      <3>1. family = {"paymentTerm"}
        BY <2>1 DEF WellTyped, Families, DeletedById
      <3> QED BY <3>1 DEF DeletedById
    <2>2. CASE t \in HardRemoved
      <3>1. Is(i, t)
        BY <1>1, <2>2 DEF HardRemoved, DeletedById
      <3> QED BY <2>2, <3>1 DEF Is, Fits, Fit
    <2> QED BY <2>1, <2>2
  <1>5. DOMAIN out[r] = {} /\ DOMAIN NoWrites = {}
    BY NothingWritten DEF WellTyped, Consistent, Working
  <1> HIDE DEF asked, refers
  <1> QED BY <1>2, <1>3, <1>4, <1>5 DEF FitsRequest, Working

\* Types hold at the start.
LEMMA TypesInitially == Init => Types
  <1> SUFFICES ASSUME Init PROVE Types
    OBVIOUS
  <1>1. PICK root \in family \ Owned, leaf \in BOOLEAN :
         \E t \in IF family \cap Owned = {} THEN {root} ELSE family \cap Owned :
         rows = [i \in Ids |->
           IF i = Root THEN [table |-> root, code |-> RootCode, parent |-> Null,
                             mark |-> leaf /\ t = "variant"]
           ELSE IF i = Leaf /\ leaf
             THEN [table |-> t, code |-> LeafCode, mark |-> FALSE,
                   parent |-> IF t \in WithParent THEN Root ELSE Null]
             ELSE Null]
    BY DEF Init
  <1>2. PICK t \in IF family \cap Owned = {} THEN {root} ELSE family \cap Owned :
         rows = [i \in Ids |->
           IF i = Root THEN [table |-> root, code |-> RootCode, parent |-> Null,
                             mark |-> leaf /\ t = "variant"]
           ELSE IF i = Leaf /\ leaf
             THEN [table |-> t, code |-> LeafCode, mark |-> FALSE,
                   parent |-> IF t \in WithParent THEN Root ELSE Null]
             ELSE Null]
    BY <1>1
  <1>3. family \in Families /\ root \in family /\ t \in family /\ {root, t} \subseteq Tables
    BY <1>2, TableNames DEF Init
  <1> DEFINE rootRow == [table |-> root, code |-> RootCode, parent |-> Null, mark |-> leaf /\ t = "variant"]
             leafRow == [table |-> t, code |-> LeafCode, parent |-> IF t \in WithParent THEN Root ELSE Null,
                         mark |-> FALSE]
  <1>4. Root \in Ids /\ Leaf \in Ids /\ RootCode \in Codes /\ LeafCode \in Codes
        /\ Root \notin Requests /\ Leaf \notin Requests /\ Root # Leaf
    BY ConstantsAssumption DEF Ids
  <1>5. rootRow \in Rows
    <2> DEFINE m == leaf /\ t = "variant"
    <2>1. m \in BOOLEAN
      OBVIOUS
    <2> HIDE DEF m
    <2>2. [table |-> root, code |-> RootCode, parent |-> Null, mark |-> m] \in Rows
      BY <1>3, <1>4, <2>1, RowOf
    <2> QED BY <2>2 DEF m
  <1>6. leafRow \in Rows
    BY <1>3, <1>4, RowOf
  <1>7. rows = [i \in Ids |-> IF i = Root THEN rootRow ELSE IF i = Leaf /\ leaf THEN leafRow ELSE Null]
    BY <1>2
  <1>8. rootRow.table = root /\ leafRow.table = t
    OBVIOUS
  <1> HIDE DEF rootRow, leafRow
  <1>9. rows \in [Ids -> Rows \cup {Null}] /\ ideal = rows
    BY <1>5, <1>6, <1>7 DEF Init
  <1>10. ASSUME NEW r \in Requests
         PROVE  /\ pc[r] = "idle" /\ ask[r] = Null /\ near[r] = {} /\ target[r] = Null
                /\ DOMAIN plan[r] = {} /\ DOMAIN out[r] = {}
    BY NothingWritten DEF Init
  <1>11. PerRequest
    BY DEF Init, PerRequest
  <1>12. \A r \in Requests : Consistent(r)
    BY <1>10, NullIsNothing DEF Consistent, Working
  <1>13. WellTyped
    BY <1>3, <1>9, <1>11, <1>12 DEF WellTyped, Init
  <1> DEFINE tab == [i \in Ids |-> IF i = Root THEN root ELSE IF i = Leaf THEN t ELSE "none"]
  <1>14. tab \in [Ids -> family \cup {"none"}]
    BY <1>3
  <1>15. \A r \in Requests : tab[r] = "none"
    BY <1>4 DEF Ids
  <1>16. \A i \in Ids : Fit(tab, i, rows[i])
    BY <1>4, <1>7, <1>8 DEF Fit
  <1> HIDE DEF tab
  <1>17. \A r \in Requests : FitsRequest(tab, r)
    BY <1>10, <1>15 DEF FitsRequest, Working
  <1>18. Fits(tab)
    BY <1>9, <1>14, <1>16, <1>17 DEF Fits
  <1> QED BY <1>13, <1>18 DEF Types

\* Only r has moved, and r is consistent.
LEMMA OneMoved ==
  ASSUME WellTyped, NEW r \in Requests, PerRequest', \A o \in Others(r) : Unmoved(o), Consistent(r)',
         UNCHANGED family, raced' \subseteq Ids,
         rows' \in [Ids -> Rows \cup {Null}], ideal' \in [Ids -> Rows \cup {Null}]
  PROVE  WellTyped'
  <1>1. ASSUME NEW o \in Requests
        PROVE  Consistent(o)'
    <2>1. CASE o = r
      BY <2>1
    <2>2. CASE o # r
      BY <2>2, UnmovedConsistent DEF WellTyped, Others
    <2> QED BY <2>1, <2>2
  <1> QED BY <1>1 DEF WellTyped

\* Only r has moved, and r and the rows fit.
LEMMA OneFits ==
  ASSUME NEW tab, Fits(tab), NEW r \in Requests, \A o \in Others(r) : Unmoved(o), FitsRequest(tab, r)',
         UNCHANGED family, \A i \in Ids : Fit(tab, i, rows'[i]) /\ Fit(tab, i, ideal'[i])
  PROVE  Fits(tab)'
  <1>1. ASSUME NEW o \in Requests
        PROVE  FitsRequest(tab, o)'
    <2>1. CASE o = r
      BY <2>1
    <2>2. CASE o # r
      BY <2>2, UnmovedFits DEF Fits, Others
    <2> QED BY <2>1, <2>2
  <1> QED BY <1>1 DEF Fits, Fit

\* The answer leaves nothing that could not fit.
LEMMA GoneFits ==
  ASSUME NEW tab, NEW r \in Requests, NEW how \in Answered, Gone(r, how)
  PROVE  FitsRequest(tab, r)'
  <1>1. DOMAIN plan'[r] = {} /\ DOMAIN out'[r] = {}
    BY NothingWritten DEF Gone
  <1>2. how \notin Working /\ how \notin {"select", "write"} /\ how # "remove" /\ how # "idle"
    BY DEF Answered, Working
  <1> QED BY <1>1, <1>2 DEF Gone, FitsRequest

\* Who meets another request marks the rows of both.
LEMMA BeginMeets ==
  ASSUME WellTyped, NEW r \in Requests, NEW asked, NEW refers, NEW entity, NEW writes, NEW next,
         refers \subseteq Ids \cup {Null}, Begin(r, asked, refers, entity, writes, next)
  PROVE  /\ raced \subseteq raced' /\ raced' \subseteq Ids
         /\ \A o \in Others(r) : near'[r] \cap near[o] # {} => near'[r] \cup near[o] \subseteq raced'
  <1> DEFINE set == refers \ {Null}
             met == {o \in Others(r) : near[o] \cap set # {}}
  <1>1. raced' = IF met = {} THEN raced ELSE (raced \cup set) \cup UNION {near[o] : o \in met}
    BY DEF Begin
  <1>2. near'[r] = set
    BY DEF Begin, WellTyped, PerRequest
  <1>3. raced \subseteq Ids /\ set \subseteq Ids /\ \A o \in met : near[o] \subseteq Ids
    BY DEF WellTyped, Consistent, Others
  <1>4. \A o \in Others(r) : near[o] \cap set # {} => o \in met
    OBVIOUS
  <1> HIDE DEF met, set
  <1>5. ASSUME NEW o \in Others(r), set \cap near[o] # {}
        PROVE  set \cup near[o] \subseteq raced'
    <2>1. o \in met
      BY <1>4, <1>5
    <2> QED BY <1>1, <2>1
  <1> QED BY <1>1, <1>2, <1>3, <1>5

\* So every arrival does.
LEMMA ArrivalMeets ==
  ASSUME WellTyped, NEW r \in Requests, Creating(r) \/ Changing(r) \/ Deleting(r)
  PROVE  /\ raced \subseteq raced' /\ raced' \subseteq Ids
         /\ \A o \in Others(r) : near'[r] \cap near[o] # {} => near'[r] \cup near[o] \subseteq raced'
  <1>1. \E asked, refers, entity, writes, next :
          refers \subseteq Ids \cup {Null} /\ Begin(r, asked, refers, entity, writes, next)
    <2>1. CASE Creating(r)
      <3>1. PICK row \in Rows, product \in Rows \cup {Null} : BeginCreate(r, row, product)
        BY <2>1 DEF Creating
      <3>2. {r, row.parent} \subseteq Ids \cup {Null}
        BY RowColumns DEF Ids
      <3> QED BY <3>1, <3>2 DEF BeginCreate
    <2>2. CASE Changing(r)
      <3>1. \E i, change, refers, kids :
              /\ refers \subseteq Ids \cup {Null}
              /\ Begin(r, [op |-> "change", id |-> i, row |-> Null, change |-> change], refers,
                   [row |-> Changed(rows[i], change), kids |-> kids, product |-> Null], NoWrites, "select")
        BY <2>2, Zenon DEF Changing
      <3> QED BY <3>1
    <2>3. CASE Deleting(r)
      <3>1. PICK i \in Ids \ {r}, t \in family \cap (HardRemoved \cup DeletedById) :
              Begin(r, [op |-> "delete", id |-> i, row |-> Null, change |-> Null],
                   {i} \cup Children(rows, i, t), Null, NoWrites, "remove")
        BY <2>3 DEF Deleting
      <3>2. {i} \cup Children(rows, i, t) \subseteq Ids \cup {Null}
        BY DEF Children, ChildrenIn
      <3> QED BY <3>1, <3>2
    <2> QED BY <2>1, <2>2, <2>3
  <1>2. PICK asked, refers, entity, writes, next :
          refers \subseteq Ids \cup {Null} /\ Begin(r, asked, refers, entity, writes, next)
    BY <1>1
  <1> QED BY <1>2, BeginMeets

\* A refusal is an answer that changes no table.
LEMMA RefuseMoves ==
  ASSUME PerRequest, NEW r \in Requests, Refuse(r)
  PROVE  /\ PerRequest' /\ Gone(r, "refused") /\ \A o \in Others(r) : Unmoved(o)
         /\ UNCHANGED <<family, rows, ideal, raced>>
  BY AnswerMoves DEF Refuse, committed

\* A commit is an answer that stores what r saw.
LEMMA CommitMoves ==
  ASSUME PerRequest, NEW r \in Requests, Commit(r)
  PROVE  /\ PerRequest' /\ Gone(r, "ok") /\ \A o \in Others(r) : Unmoved(o)
         /\ pc[r] = "commit" /\ rows' = Seen(r) /\ ideal' = Done(ask[r], ideal)
         /\ UNCHANGED <<family, raced>>
  BY AnswerMoves DEF Commit

\* A crash answers everybody that was at work.
LEMMA CrashMoves ==
  ASSUME WellTyped, ServerCrash
  PROVE  /\ PerRequest' /\ UNCHANGED <<family, rows, ideal, raced>>
         /\ \A r \in Requests :
              /\ pc'[r] = IF pc[r] \in Working THEN "lost" ELSE pc[r]
              /\ ask'[r] = Null /\ near'[r] = {} /\ target'[r] = Null /\ held'[r] = Null
              /\ DOMAIN plan'[r] = {} /\ DOMAIN out'[r] = {}
  <1>1. PerRequest'
    BY DEF ServerCrash, PerRequest
  <1> QED BY <1>1, NothingWritten DEF ServerCrash, committed

\* Types are kept by every step.
LEMMA TypesKept == Types /\ [Next]_vars => Types'
  <1> SUFFICES ASSUME WellTyped, NEW tab, Fits(tab), [Next]_vars
               PROVE  Types'
    BY DEF Types
  <1>1. PerRequest /\ family \in Families /\ raced \subseteq Ids
        /\ rows \in [Ids -> Rows \cup {Null}] /\ ideal \in [Ids -> Rows \cup {Null}]
        /\ \A i \in Ids : Fit(tab, i, rows[i]) /\ Fit(tab, i, ideal[i])
    BY DEF WellTyped, Fits
  <1>2. "refused" \in Answered /\ "ok" \in Answered
    BY DEF Answered
  <1>3. ASSUME NEW r \in Requests, Refuse(r)
        PROVE  Types'
    <2>1. Consistent(r)' /\ FitsRequest(tab, r)'
      BY <1>1, <1>2, <1>3, RefuseMoves, GoneConsistent, GoneFits
    <2>2. WellTyped'
      BY <1>1, <1>3, <2>1, RefuseMoves, OneMoved
    <2>3. Fits(tab)'
      BY <1>1, <1>3, <2>1, RefuseMoves, OneFits
    <2> QED BY <2>2, <2>3 DEF Types
  <1>4. ASSUME NEW r \in Requests, Receive(r)
        PROVE  Types'
    <2>1. pc[r] = "idle" /\ (Refuse(r) \/ Creating(r) \/ Changing(r) \/ Deleting(r))
      BY <1>4, Received
    <2>2. CASE Creating(r)
      <3>1. WellTyped'
        BY <1>1, <2>1, <2>2, CreatingConsistent, ArrivalMeets, OneMoved
      <3> QED BY <2>1, <2>2, <3>1, CreatingFits DEF Types
    <2>3. CASE Changing(r)
      <3>1. /\ PerRequest' /\ (\A o \in Others(r) : Unmoved(o)) /\ Consistent(r)'
            /\ UNCHANGED <<family, rows, ideal>> /\ raced' \subseteq Ids /\ FitsRequest(tab, r)'
        BY <2>1, <2>3, ChangingConsistent, ChangingFits, ArrivalMeets
      <3>2. WellTyped'
        BY <1>1, <3>1, OneMoved
      <3>3. Fits(tab)'
        BY <1>1, <3>1, OneFits
      <3> QED BY <3>2, <3>3 DEF Types
    <2>4. CASE Deleting(r)
      <3>1. /\ PerRequest' /\ (\A o \in Others(r) : Unmoved(o)) /\ Consistent(r)'
            /\ UNCHANGED <<family, rows, ideal>> /\ raced' \subseteq Ids /\ FitsRequest(tab, r)'
        BY <2>1, <2>4, DeletingConsistent, DeletingFits, ArrivalMeets
      <3>2. WellTyped'
        BY <1>1, <3>1, OneMoved
      <3>3. Fits(tab)'
        BY <1>1, <3>1, OneFits
      <3> QED BY <3>2, <3>3 DEF Types
    <2> QED BY <1>3, <2>1, <2>2, <2>3, <2>4
  <1>5. ASSUME NEW r \in Requests, SelectForSave(r) \/ Stored(r) \/ Removed(r),
               PerRequest', \A o \in Others(r) : Unmoved(o), UNCHANGED <<family, rows, ideal, raced>>
        PROVE  Types'
    <2>1. Consistent(r)' /\ FitsRequest(tab, r)'
      BY <1>5, SelectConsistent, StoredConsistent, RemovedConsistent
    <2>2. WellTyped'
      BY <1>1, <1>5, <2>1, OneMoved
    <2>3. Fits(tab)'
      BY <1>1, <1>5, <2>1, OneFits
    <2> QED BY <2>2, <2>3 DEF Types
  <1>6. ASSUME NEW r \in Requests, SelectForSave(r)
        PROVE  Types'
    BY <1>1, <1>5, <1>6, SelectMoves
  <1>7. ASSUME NEW r \in Requests, Write(r)
        PROVE  Types'
    <2>1. CASE Refuse(r)
      BY <1>3, <2>1
    <2>2. CASE Stored(r) /\ PerRequest' /\ \A o \in Others(r) : Unmoved(o)
      BY <1>5, <2>2 DEF Stored
    <2> QED BY <1>1, <1>7, <2>1, <2>2, WriteMoves
  <1>8. ASSUME NEW r \in Requests, Remove(r)
        PROVE  Types'
    <2>1. CASE Refuse(r)
      BY <1>3, <2>1
    <2>2. CASE Removed(r) /\ PerRequest' /\ \A o \in Others(r) : Unmoved(o)
      BY <1>5, <2>2 DEF Removed
    <2> QED BY <1>1, <1>8, <2>1, <2>2, RemoveMoves
  <1>9. ASSUME NEW r \in Requests, Commit(r)
        PROVE  Types'
    <2>1. /\ PerRequest' /\ Gone(r, "ok") /\ \A o \in Others(r) : Unmoved(o)
          /\ pc[r] = "commit" /\ rows' = Seen(r) /\ ideal' = Done(ask[r], ideal)
          /\ UNCHANGED <<family, raced>>
      BY <1>1, <1>9, CommitMoves
    <2>2. Consistent(r)' /\ FitsRequest(tab, r)'
      BY <1>2, <2>1, GoneConsistent, GoneFits
    <2>3. rows' \in [Ids -> Rows \cup {Null}] /\ \A i \in Ids : Fit(tab, i, rows'[i])
      <3>1. rows' = [i \in Ids |-> rows'[i]]
        BY <2>1 DEF Seen
      <3> QED BY <2>1, <3>1, SeenRows
    <2>4. ideal' \in [Ids -> Rows \cup {Null}] /\ \A i \in Ids : Fit(tab, i, ideal'[i])
      <3>1. pc[r] \in Working
        BY <2>1 DEF Working
      <3> QED BY <1>1, <2>1, <3>1, DoneRows
    <2>5. WellTyped'
      BY <1>1, <2>1, <2>2, <2>3, <2>4, OneMoved
    <2>6. Fits(tab)'
      BY <1>1, <2>1, <2>2, <2>3, <2>4, OneFits
    <2> QED BY <2>5, <2>6 DEF Types
  <1>10. ASSUME ServerCrash
         PROVE  Types'
    <2>1. ASSUME NEW r \in Requests
          PROVE  Consistent(r)' /\ FitsRequest(tab, r)'
      <3>1. pc'[r] \in {"idle"} \cup Answered /\ pc'[r] \notin Working
        BY <1>10, CrashMoves DEF WellTyped, Consistent, Answered, Working
      <3>2. Consistent(r)'
        BY <1>10, <3>1, CrashMoves, NullIsNothing DEF Consistent, Working
      <3>3. pc'[r] = "idle" => pc[r] = "idle"
        BY <1>10, CrashMoves
      <3>4. FitsRequest(tab, r)'
        BY <1>10, <3>1, <3>3, CrashMoves DEF Fits, FitsRequest, Working
      <3> QED BY <3>2, <3>4
    <2>2. WellTyped'
      BY <1>1, <1>10, <2>1, CrashMoves DEF WellTyped
    <2>3. Fits(tab)'
      BY <1>1, <1>10, <2>1, CrashMoves DEF Fits, Fit
    <2> QED BY <2>2, <2>3 DEF Types
  <1>11. ASSUME UNCHANGED vars
         PROVE  Types'
    <2>1. UNCHANGED <<family, rows, ideal, raced, pc, ask, near, target, held, plan, out>>
      BY <1>11 DEF vars
    <2>2. PerRequest' /\ \A r \in Requests : Unmoved(r)
      BY <1>1, <2>1 DEF PerRequest, Unmoved
    <2>3. \A r \in Requests : Consistent(r)' /\ FitsRequest(tab, r)'
      BY <2>1, <2>2, UnmovedConsistent, UnmovedFits DEF WellTyped, Fits
    <2>4. WellTyped'
      BY <1>1, <2>1, <2>2, <2>3 DEF WellTyped
    <2>5. Fits(tab)'
      BY <1>1, <2>1, <2>3 DEF Fits, Fit
    <2> QED BY <2>4, <2>5 DEF Types
  <1> QED
    BY <1>4, <1>6, <1>7, <1>8, <1>9, <1>10, <1>11 DEF Next, Step, Settled

\* Every row is well formed and every request holds what its handler has read, wherever the
\* services are interrupted; ids never change their table, so that a save() by id finds its own.
THEOREM TypeCorrectness == Spec => []TypeOK
  <1>1. Init => Types
    BY TypesInitially
  <1>2. Types /\ [Next]_vars => Types'
    BY TypesKept
  <1>3. Types => TypeOK
    BY WellTypedIsTyped DEF Types
  <1> QED BY <1>1, <1>2, <1>3, PTL DEF Spec

--------------------------------------------------------------------------------
(* Keys: the constraints hold of what each transaction sees.                  *)

\* The constraints depend on nothing but the rows.
LEMMA KeyedSame ==
  ASSUME NEW db, NEW other, Keyed(db), \A i \in Ids : db[i] \in Rows \cup {Null},
         \A i \in Ids : other[i] = db[i]
  PROVE  Keyed(other)
  <1> SUFFICES ASSUME NEW i \in Ids, other[i] # Null
               PROVE  /\ other[i].parent # Null => ParentThere(other, other[i])
                      /\ \A j \in Ids \ {i} : other[j] # Null => ~SameKey(other[i], other[j])
    BY DEF Keyed
  <1>1. other[i] = db[i] /\ db[i] \in Rows
    OBVIOUS
  <1>2. db[i].parent \in Ids \cup {Null}
    BY <1>1, RowColumns
  <1>3. /\ db[i].parent # Null => ParentThere(db, db[i])
        /\ \A j \in Ids \ {i} : db[j] # Null => ~SameKey(db[i], db[j])
    BY <1>1 DEF Keyed
  <1> QED BY <1>1, <1>2, <1>3 DEF ParentThere

\* The keys and parents of one row, in tables that satisfy the constraints.
LEMMA KeyedAt ==
  ASSUME NEW db, Keyed(db), NEW i \in Ids, db[i] \in Rows
  PROVE  /\ db[i].parent # Null =>
              db[i].parent \in Ids /\ db[db[i].parent] # Null /\ db[db[i].parent].table = ParentTable[db[i].table]
         /\ \A j \in Ids \ {i} : db[j] # Null => ~SameKey(db[i], db[j]) /\ ~SameKey(db[j], db[i])
  <1>1. db[i] # Null /\ db[i].parent \in Ids \cup {Null}
    BY RowColumns
  <1>2. /\ db[i].parent # Null => ParentThere(db, db[i])
        /\ \A j \in Ids \ {i} : db[j] # Null => ~SameKey(db[i], db[j])
    BY <1>1 DEF Keyed
  <1> QED BY <1>1, <1>2 DEF ParentThere, SameKey

\* What r sees of a row that it has, or has not, written.
LEMMA SeenAt ==
  ASSUME NEW r, NEW i \in Ids
  PROVE  Seen(r)[i] = IF i \in DOMAIN out[r] THEN out[r][i] ELSE rows[i]
  BY DEF Seen

\* As long as nothing is written, the constraints go on to hold.
LEMMA KeysQuiet ==
  ASSUME WellTyped, NEW tab, Fits(tab), Keys, rows' = rows,
         \A r \in Requests : out'[r] = out[r] \/ DOMAIN out'[r] = {}
  PROVE  Keys'
  <1>1. Keyed(rows)'
    BY DEF Keys, Keyed, ParentThere
  <1>2. ASSUME NEW r \in Requests
        PROVE  Keyed(Seen(r))'
    <2>1. CASE out'[r] = out[r]
      <3> DEFINE db == Seen(r)
      <3>1. \A i \in Ids : db[i] \in Rows \cup {Null}
        BY SeenRows
      <3>2. \A i \in Ids : db'[i] = db[i]
        BY <2>1 DEF Seen
      <3>3. Keyed(db)
        BY DEF Keys
      <3> HIDE DEF db
      <3>4. Keyed(db')
        BY <3>1, <3>2, <3>3, KeyedSame
      <3> QED BY <3>4 DEF db, Keyed, ParentThere
    <2>2. CASE DOMAIN out'[r] = {}
      <3> DEFINE db == Seen(r)
      <3>1. \A i \in Ids : rows[i] \in Rows \cup {Null}
        BY DEF WellTyped
      <3>2. \A i \in Ids : db'[i] = rows[i]
        BY <2>2 DEF Seen
      <3>3. Keyed(rows)
        BY DEF Keys
      <3> HIDE DEF db
      <3>4. Keyed(db')
        BY <3>1, <3>2, <3>3, KeyedSame
      <3> QED BY <3>4 DEF db, Keyed, ParentThere
    <2> QED BY <2>1, <2>2
  <1>3. ASSUME NEW r \in Requests, NEW o \in Others(r)
        PROVE  Compatible(r, o)'
    <2>1. Compatible(r, o) /\ o \in Requests
      BY DEF Keys, Others
    <2>2. CASE DOMAIN out'[r] = {} \/ DOMAIN out'[o] = {}
      BY <2>2 DEF Compatible
    <2>3. CASE out'[r] = out[r] /\ out'[o] = out[o]
      BY <2>1, <2>3 DEF Compatible
    <2> QED BY <2>1, <2>2, <2>3
  <1> QED BY <1>1, <1>2, <1>3 DEF Keys, Others

\* The constraints are checked of what is written.
LEMMA NotViolated ==
  ASSUME WellTyped, NEW tab, Fits(tab), NEW r \in Requests, ~ConstraintViolated(r), NEW i \in DOMAIN plan[r]
  PROVE  /\ plan[r][i].new => Seen(r)[i] = Null
         /\ NewState(r)[i] # Null =>
              /\ \A j \in Ids \ {i} : NewState(r)[j] # Null => ~SameKey(NewState(r)[i], NewState(r)[j])
              /\ NewState(r)[i].parent # Null => ParentThere(NewState(r), NewState(r)[i])
  BY DEF ConstraintViolated

\* So they hold of what r sees of it.
LEMMA NewStateKeyed ==
  ASSUME WellTyped, NEW tab, Fits(tab), NEW r \in Requests, Keyed(Seen(r)), ~ConstraintViolated(r)
  PROVE  Keyed(NewState(r))
  <1> DEFINE before == Seen(r)
             after == NewState(r)
  <1> SUFFICES ASSUME NEW i \in Ids, after[i] # Null
               PROVE  /\ after[i].parent # Null => ParentThere(after, after[i])
                      /\ \A j \in Ids \ {i} : after[j] # Null => ~SameKey(after[i], after[j])
    BY DEF Keyed
  <1>1. CASE i \in DOMAIN plan[r]
    BY <1>1, NotViolated
  <1>2. CASE i \notin DOMAIN plan[r]
    <2>1. after[i] = before[i] /\ before[i] \in Rows
      BY <1>2, NewRows, SeenRows
    <2>2. /\ before[i].parent # Null =>
               /\ before[i].parent \in Ids /\ before[before[i].parent] # Null
               /\ before[before[i].parent].table = ParentTable[before[i].table]
          /\ \A j \in Ids \ {i} : before[j] # Null => ~SameKey(before[i], before[j])
      BY <2>1, KeyedAt
    <2>3. ASSUME NEW j \in Ids \ {i}, after[j] # Null
          PROVE  ~SameKey(after[i], after[j])
      <3>1. CASE j \in DOMAIN plan[r]
        <4>1. ~SameKey(after[j], after[i])
          BY <2>3, <3>1, NotViolated
        <4> QED BY <4>1 DEF SameKey
      <3>2. CASE j \notin DOMAIN plan[r]
        BY <2>1, <2>2, <2>3, <3>2, NewRows
      <3> QED BY <3>1, <3>2
    <2>4. ASSUME after[i].parent # Null
          PROVE  ParentThere(after, after[i])
      <3> DEFINE p == after[i].parent
      <3>1. p \in Ids /\ before[p] # Null /\ before[p].table = ParentTable[after[i].table]
        BY <2>1, <2>2, <2>4
      <3>2. after[p] # Null /\ after[p].table = before[p].table
        <4>1. CASE p \notin DOMAIN plan[r]
          BY <3>1, <4>1, NewRows
        <4>2. CASE p \in DOMAIN plan[r]
          <5>1. ~plan[r][p].new
            BY <3>1, <4>2, NotViolated
          <5>2. after[p] = Written(r, p)
            BY <3>1, <4>2, NewRows
          <5> QED BY <3>1, <4>2, <5>1, <5>2, WrittenRow
        <4> QED BY <4>1, <4>2
      <3> HIDE DEF after, before
      <3> QED BY <3>1, <3>2 DEF ParentThere
    <2> QED BY <2>3, <2>4
  <1> QED BY <1>1, <1>2

\* Writes that did not have to wait are compatible with those of the others.
LEMMA StoredCompatible ==
  ASSUME WellTyped, NEW tab, Fits(tab), Keys, NEW r \in Requests, Stored(r), NEW o \in Others(r), Unmoved(o)
  PROVE  Compatible(r, o)' /\ Compatible(o, r)'
  <1> DEFINE after == NewState(r)
  <1>1. /\ o \in Requests /\ r \in Others(o) /\ out'[o] = out[o] /\ rows' = rows
        /\ Compatible(r, o) /\ Compatible(o, r) /\ Keyed(Seen(o)) /\ Keyed(Seen(r))
    BY DEF Others, Keys, Stored, Unmoved
  <1>2. /\ DOMAIN out'[r] = DOMAIN out[r] \cup DOMAIN plan[r]
        /\ \A i \in DOMAIN out[r] \cup DOMAIN plan[r] : out'[r][i] = after[i]
        /\ ~Waits(r) /\ ~ConstraintViolated(r)
    BY DEF Stored
  <1>3. /\ \A i \in DOMAIN out[r] : i \in Ids
        /\ \A i \in DOMAIN plan[r] : i \in Ids
        /\ \A i \in DOMAIN out[o] : i \in Ids /\ out[o][i] \in Rows \cup {Null}
    BY <1>1 DEF WellTyped, Consistent
  <1>4. \A i \in DOMAIN plan[r] : i \notin DOMAIN out[o]
    BY <1>1, <1>2 DEF Waits, Locked
  <1>5. DOMAIN out'[r] \cap DOMAIN out[o] = {}
    BY <1>1, <1>2, <1>4 DEF Compatible
  \* a row of the plan whose code or whose parent is not written has the one it had
  <1>6. ASSUME NEW i \in DOMAIN plan[r], ~plan[r][i].new, after[i] # Null, i \notin DOMAIN out[r]
        PROVE  /\ rows[i] \in Rows /\ Seen(o)[i] = rows[i] /\ after[i].table = rows[i].table
               /\ "code" \notin plan[r][i].set => after[i].code = rows[i].code
               /\ "parent" \notin plan[r][i].set => after[i].parent = rows[i].parent
    <2>1. after[i] = Written(r, i) /\ Seen(r)[i] = rows[i] /\ Seen(o)[i] = rows[i]
      BY <1>3, <1>4, <1>6, NewRows, SeenAt
    <2>2. rows[i] # Null
      BY <1>6, <2>1, WrittenRow
    <2> QED BY <1>6, <2>1, <2>2, WrittenRow
  <1>7. ASSUME NEW i \in DOMAIN plan[r], ~plan[r][i].new, after[i] # Null, i \in DOMAIN out[r]
        PROVE  /\ out[r][i] # Null /\ after[i].table = out[r][i].table
               /\ "code" \notin plan[r][i].set => after[i].code = out[r][i].code
               /\ "parent" \notin plan[r][i].set => after[i].parent = out[r][i].parent
    <2>1. after[i] = Written(r, i) /\ Seen(r)[i] = out[r][i]
      BY <1>3, <1>7, NewRows, SeenAt
    <2>2. out[r][i] # Null
      BY <1>7, <2>1, WrittenRow
    <2> QED BY <1>7, <2>1, <2>2, WrittenRow
  <1>8. ASSUME NEW i \in DOMAIN out'[r], after[i] # Null, NEW j \in DOMAIN out[o], out[o][j] # Null
        PROVE  ~SameKey(after[i], out[o][j])
    <2>1. i \in Ids /\ j \in Ids /\ i # j /\ out[o][j] \in Rows
      BY <1>2, <1>3, <1>5, <1>8
    <2>2. CASE i \notin DOMAIN plan[r]
      <3>1. i \in DOMAIN out[r] /\ after[i] = out[r][i]
        BY <1>2, <2>1, <2>2, NewRows, SeenAt
      <3> QED BY <1>1, <1>8, <3>1 DEF Compatible
    <2>3. CASE i \in DOMAIN plan[r] /\ (plan[r][i].new \/ "code" \in plan[r][i].set)
      <3>1. ~SameKey(out[o][j], plan[r][i].row)
        BY <1>1, <1>2, <1>8, <2>1, <2>3 DEF Waits, KeyLocked
      <3>2. after[i] = Written(r, i)
        BY <2>1, <2>3, NewRows
      <3>3. after[i].code = plan[r][i].row.code /\ after[i].table = plan[r][i].row.table
        BY <1>8, <2>3, <3>2, WrittenRow
      <3> QED BY <3>1, <3>3 DEF SameKey
    <2>4. CASE i \in DOMAIN plan[r] /\ ~plan[r][i].new /\ "code" \notin plan[r][i].set
      <3>1. CASE i \in DOMAIN out[r]
        <4>1. out[r][i] # Null /\ after[i].table = out[r][i].table /\ after[i].code = out[r][i].code
          BY <1>7, <1>8, <2>4, <3>1
        <4>2. ~SameKey(out[r][i], out[o][j])
          BY <1>1, <1>8, <3>1, <4>1 DEF Compatible
        <4> QED BY <4>1, <4>2 DEF SameKey
      <3>2. CASE i \notin DOMAIN out[r]
        <4>1. rows[i] \in Rows /\ Seen(o)[i] = rows[i] /\ after[i].table = rows[i].table
              /\ after[i].code = rows[i].code
          BY <1>6, <1>8, <2>4, <3>2
        <4>2. Seen(o)[j] = out[o][j]
          BY <2>1, SeenAt
        <4>3. ~SameKey(Seen(o)[i], Seen(o)[j])
          BY <1>1, <1>8, <2>1, <4>1, <4>2, KeyedAt
        <4> QED BY <4>1, <4>2, <4>3 DEF SameKey
      <3> QED BY <3>1, <3>2
    <2> QED BY <2>2, <2>3, <2>4
  <1>9. ASSUME NEW i \in DOMAIN out'[r], after[i] # Null, after[i].parent \in DOMAIN out[o]
        PROVE  out[o][after[i].parent] # Null
    <2> DEFINE p == after[i].parent
    <2>1. i \in Ids /\ p \in Ids /\ p # Null /\ p \notin DOMAIN out'[r]
      BY <1>2, <1>3, <1>5, <1>9, NullIsNothing
    <2>2. CASE i \notin DOMAIN plan[r]
      <3>1. i \in DOMAIN out[r] /\ after[i] = out[r][i]
        BY <1>2, <2>1, <2>2, NewRows, SeenAt
      <3> QED BY <1>1, <1>9, <3>1 DEF Compatible
    <2>3. CASE i \in DOMAIN plan[r] /\ (plan[r][i].new \/ "parent" \in plan[r][i].set)
      <3>1. after[i] = Written(r, i)
        BY <2>1, <2>3, NewRows
      <3>2. after[i].parent = plan[r][i].row.parent
        BY <1>9, <2>3, <3>1, WrittenRow
      <3>3. ~ParentLocked(r, plan[r][i].row)
        BY <1>2, <2>3 DEF Waits
      <3>4. ParentThere(after, after[i])
        BY <1>2, <1>9, <2>1, <2>3, NotViolated
      <3>5. after[p] # Null /\ after[p] = rows[p]
        <4>1. after[p] # Null
          BY <3>4 DEF ParentThere
        <4>2. p \notin DOMAIN out[r] /\ p \notin DOMAIN plan[r]
          BY <1>2, <2>1
        <4> QED BY <2>1, <4>1, <4>2, NewRows, SeenAt
      <3>6. rows[p] # Null
        BY <3>5
      <3> HIDE DEF after
      <3> QED BY <1>1, <1>9, <3>2, <3>3, <3>6 DEF ParentLocked
    <2>4. CASE i \in DOMAIN plan[r] /\ ~plan[r][i].new /\ "parent" \notin plan[r][i].set
      <3>1. CASE i \in DOMAIN out[r]
        <4>1. out[r][i] # Null /\ after[i].parent = out[r][i].parent
          BY <1>7, <1>9, <2>4, <3>1
        <4> QED BY <1>1, <1>9, <3>1, <4>1 DEF Compatible
      <3>2. CASE i \notin DOMAIN out[r]
        <4>1. rows[i] \in Rows /\ Seen(o)[i] = rows[i] /\ after[i].parent = rows[i].parent
          BY <1>6, <1>9, <2>4, <3>2
        <4>2. Seen(o)[p] = out[o][p]
          BY <1>9, <2>1, SeenAt
        <4>3. Seen(o)[p] # Null
          BY <1>1, <2>1, <4>1, KeyedAt
        <4> QED BY <4>2, <4>3
      <3> QED BY <3>1, <3>2
    <2> QED BY <2>2, <2>3, <2>4
  <1>10. ASSUME NEW i \in DOMAIN out[o], out[o][i] # Null, out[o][i].parent \in DOMAIN out'[r]
         PROVE  after[out[o][i].parent] # Null
    <2> DEFINE p == out[o][i].parent
    <2>1. i \in Ids /\ p \in Ids /\ p # Null /\ p \notin DOMAIN out[o] /\ out[o][i] \in Rows
      BY <1>2, <1>3, <1>5, <1>10, NullIsNothing
    <2>2. p \in DOMAIN out[r] => out[r][p] # Null
      BY <1>1, <1>10 DEF Compatible
    <2>3. rows[p] # Null
      <3>1. Seen(o)[i] = out[o][i] /\ Seen(o)[p] = rows[p]
        BY <2>1, SeenAt
      <3> QED BY <1>1, <2>1, <3>1, KeyedAt
    <2>4. Seen(r)[p] # Null
      BY <2>1, <2>2, <2>3, SeenAt
    <2>5. CASE p \in DOMAIN plan[r]
      <3>1. after[p] = Written(r, p)
        BY <2>1, <2>5, NewRows
      <3> QED BY <2>4, <2>5, <3>1, WrittenRow
    <2>6. CASE p \notin DOMAIN plan[r]
      BY <2>1, <2>4, <2>6, NewRows
    <2> QED BY <2>5, <2>6
  <1> HIDE DEF after
  <1>11. Compatible(r, o)'
    BY <1>1, <1>2, <1>5, <1>8, <1>9 DEF Compatible
  <1>12. Compatible(o, r)'
    BY <1>1, <1>2, <1>5, <1>8, <1>10 DEF Compatible, SameKey
  <1> QED BY <1>11, <1>12

\* What is compatible before is compatible after, if neither of the two has moved.
LEMMA UnmovedCompatible ==
  ASSUME NEW r, NEW o, Compatible(r, o), out'[r] = out[r], out'[o] = out[o]
  PROVE  Compatible(r, o)'
  BY DEF Compatible

\* A write that the database accepts keeps the keys: in what its request sees, by the constraints
\* it passed; against every other request, by the locks it found free.
LEMMA KeysStored ==
  ASSUME WellTyped, NEW tab, Fits(tab), Keys, NEW r \in Requests, Stored(r), \A o \in Others(r) : Unmoved(o)
  PROVE  Keys'
  <1>1. rows' = rows
    BY DEF Stored
  <1>2. Keyed(rows)'
    BY <1>1 DEF Keys, Keyed, ParentThere
  <1>3. Keyed(Seen(r))'
    <2> DEFINE after == NewState(r)
               db == Seen(r)
    <2>1. Keyed(after)
      BY NewStateKeyed DEF Keys, Stored
    <2>2. \A i \in Ids : after[i] \in Rows \cup {Null}
      BY NewRows
    <2>3. ASSUME NEW i \in Ids
          PROVE  db'[i] = after[i]
      <3>1. db'[i] = IF i \in DOMAIN out'[r] THEN out'[r][i] ELSE rows[i]
        BY <1>1 DEF Seen
      <3> QED BY <3>1, NewRows, SeenAt DEF Stored
    <2> HIDE DEF after, db
    <2>4. Keyed(db')
      BY <2>1, <2>2, <2>3, KeyedSame
    <2> QED BY <2>4 DEF db, Keyed, ParentThere
  <1>4. ASSUME NEW o \in Others(r)
        PROVE  Keyed(Seen(o))'
    <2> DEFINE db == Seen(o)
    <2>1. o \in Requests /\ out'[o] = out[o]
      BY DEF Others, Unmoved
    <2>2. \A i \in Ids : db[i] \in Rows \cup {Null}
      BY <2>1, SeenRows
    <2>3. \A i \in Ids : db'[i] = db[i]
      BY <1>1, <2>1 DEF Seen
    <2>4. Keyed(db)
      BY <2>1 DEF Keys
    <2> HIDE DEF db
    <2>5. Keyed(db')
      BY <2>2, <2>3, <2>4, KeyedSame
    <2> QED BY <2>5 DEF db, Keyed, ParentThere
  <1>5. ASSUME NEW q \in Requests, NEW o \in Others(q)
        PROVE  Compatible(q, o)'
    <2>1. CASE q = r
      BY <2>1, StoredCompatible
    <2>2. CASE o = r
      BY <2>2, StoredCompatible DEF Others
    <2>3. CASE q # r /\ o # r
      BY <2>3, UnmovedCompatible DEF Keys, Others, Unmoved
    <2> QED BY <2>1, <2>2, <2>3
  <1> QED BY <1>2, <1>3, <1>4, <1>5 DEF Keys, Others

\* What lies under a row that can be removed goes with it, and nothing lies under that.
LEMMA UnderRemoved ==
  ASSUME WellTyped, NEW tab, Fits(tab), Keyed(rows), NEW r \in Requests, pc[r] = "remove",
         NEW i \in Ids, rows[i] # Null
  PROVE  /\ rows[i].parent = target[r] =>
              i \in Cascade(target[r]) /\ rows[target[r]] # Null /\ tab[target[r]] = "employee"
         /\ rows[i].parent \notin Cascade(target[r])
  <1> DEFINE x == target[r]
             p == rows[i].parent
  <1>1. x \in Ids /\ rows[i] \in Rows /\ (tab[x] \in HardRemoved \/ family \subseteq DeletedById)
    BY DEF WellTyped, Consistent, Fits, FitsRequest
  <1>2. p # Null => /\ p \in Ids /\ rows[p] # Null /\ rows[p].table = ParentTable[rows[i].table]
                    /\ rows[p].table = tab[p] /\ rows[i].table \in WithParent
    <2>1. p # Null => /\ p \in Ids /\ rows[p] # Null /\ rows[p].table = ParentTable[rows[i].table]
      BY <1>1, KeyedAt
    <2>2. p # Null => rows[i].table \in WithParent
      BY <1>1, RowColumns
    <2> QED BY <2>1, <2>2 DEF Fits, Fit
  <1>3. ASSUME p = x
        PROVE  i \in Cascade(x) /\ rows[x] # Null /\ tab[x] = "employee"
    <2>1. p # Null
      BY <1>1, <1>3, NullIsNothing
    <2>2. tab[x] \in Tables /\ rows[i].table \in Tables /\ tab[x] = ParentTable[rows[i].table]
      BY <1>1, <1>2, <1>3, <2>1, RowColumns DEF WellTyped
    <2>3. tab[x] \in HardRemoved
      <3>1. CASE family \subseteq DeletedById
        <4>1. rows[i].table \in family
          <5>1. rows[i].table = tab[i] /\ tab[i] \in family \cup {"none"}
            BY DEF Fits, Fit
          <5> QED BY <2>2, <5>1, TableNames
        <4> QED BY <1>2, <2>1, <3>1, <4>1, ParentTables
      <3> QED BY <1>1, <3>1
    <2>4. rows[i].table \in Owned
      BY <1>2, <2>1, <2>2, <2>3, ParentTables
    <2>5. tab[x] = "employee"
      <3>1. rows[i].table \in {"contract", "variant", "translation", "category", "location"}
        BY <1>2, <2>1, TableNames
      <3>2. ParentTable["contract"] = "employee" /\ ParentTable["variant"] = "product"
            /\ ParentTable["translation"] = "product" /\ ParentTable["category"] = "category"
            /\ ParentTable["location"] = "location"
        BY DEF ParentTable
      <3> QED BY <2>2, <2>3, <3>1, <3>2 DEF HardRemoved
    <2> QED BY <1>2, <1>3, <2>1, <2>4, <2>5 DEF Cascade
  <1>4. p \notin Cascade(x)
    <2> SUFFICES ASSUME p \in Cascade(x) PROVE FALSE
      OBVIOUS
    <2>1. p \in Ids /\ p # Null /\ rows[p].table \in Owned
      BY NullIsNothing DEF Cascade
    <2> QED BY <1>2, <2>1, ParentTables
  <1> QED BY <1>3, <1>4

\* Removals that did not have to wait keep the constraints.
LEMMA KeysRemoved ==
  ASSUME WellTyped, NEW tab, Fits(tab), Keys, NEW r \in Requests, Removed(r), \A o \in Others(r) : Unmoved(o)
  PROVE  Keys'
  <1>1. /\ rows' = rows /\ pc[r] = "remove" /\ target[r] \in Ids
        /\ DOMAIN out'[r] = GoneWith(r) /\ \A j \in GoneWith(r) : out'[r][j] = Null
        /\ \A j \in GoneWith(r) : ~Locked(r, j)
        /\ ~ChildPending(r, target[r])
    BY DEF Removed, WellTyped, Consistent
  <1>2. Keyed(rows) /\ Keyed(rows)'
    BY <1>1 DEF Keys, Keyed, ParentThere
  <1>3. Keyed(Seen(r))'
    <2> DEFINE db == Seen(r)
    <2>1. \A i \in Ids : db'[i] = IF i \in GoneWith(r) THEN Null ELSE rows[i]
      BY <1>1 DEF Seen
    <2> HIDE DEF db
    <2>2. ASSUME NEW i \in Ids, db'[i] # Null
          PROVE  /\ db'[i].parent # Null => ParentThere(db', db'[i])
                 /\ \A j \in Ids \ {i} : db'[j] # Null => ~SameKey(db'[i], db'[j])
      <3>1. db'[i] = rows[i] /\ rows[i] \in Rows /\ i \notin GoneWith(r)
        BY <2>1, <2>2 DEF WellTyped
      <3>2. \A j \in Ids \ {i} : db'[j] # Null => ~SameKey(db'[i], db'[j])
        BY <1>2, <2>1, <3>1, KeyedAt
      <3>3. ASSUME rows[i].parent # Null
            PROVE  ParentThere(db', rows[i])
        <4> DEFINE p == rows[i].parent
        <4>1. p \in Ids /\ rows[p] # Null /\ rows[p].table = ParentTable[rows[i].table]
          BY <1>2, <3>1, <3>3, KeyedAt
        <4>2. p \notin GoneWith(r)
          <5>1. rows[i] # Null
            BY <2>2, <3>1
          <5>2. p \notin Cascade(target[r]) /\ (p = target[r] => i \in Cascade(target[r]))
            BY <1>1, <1>2, <5>1, UnderRemoved
          <5> QED BY <3>1, <5>1, <5>2 DEF GoneWith
        <4> QED BY <2>1, <4>1, <4>2 DEF ParentThere
      <3> QED BY <3>1, <3>2, <3>3
    <2>3. Keyed(db')
      BY <2>2 DEF Keyed
    <2> QED BY <2>3 DEF db, Keyed, ParentThere
  <1>4. ASSUME NEW o \in Others(r)
        PROVE  Keyed(Seen(o))'
    <2> DEFINE db == Seen(o)
    <2>1. o \in Requests /\ out'[o] = out[o]
      BY DEF Others, Unmoved
    <2>2. \A i \in Ids : db[i] \in Rows \cup {Null}
      BY <2>1, SeenRows
    <2>3. \A i \in Ids : db'[i] = db[i]
      BY <1>1, <2>1 DEF Seen
    <2>4. Keyed(db)
      BY <2>1 DEF Keys
    <2> HIDE DEF db
    <2>5. Keyed(db')
      BY <2>2, <2>3, <2>4, KeyedSame
    <2> QED BY <2>5 DEF db, Keyed, ParentThere
  <1>5. ASSUME NEW o \in Others(r)
        PROVE  Compatible(r, o)' /\ Compatible(o, r)'
    <2>1. o \in Requests /\ out'[o] = out[o] /\ Keyed(Seen(o))
          /\ \A i \in DOMAIN out[o] : i \in Ids /\ out[o][i] \in Rows \cup {Null}
      BY DEF Others, Unmoved, Keys, WellTyped, Consistent
    <2>2. \A j \in GoneWith(r) : j \notin DOMAIN out[o]
      BY <1>1 DEF Locked
    <2>3. Compatible(r, o)'
      BY <1>1, <2>1, <2>2 DEF Compatible
    <2>4. ASSUME NEW i \in DOMAIN out[o], out[o][i] # Null, out[o][i].parent \in GoneWith(r)
          PROVE  FALSE
      <3> DEFINE p == out[o][i].parent
      <3>1. i \in Ids /\ p \in Ids /\ p # Null /\ rows[p] # Null /\ p \notin DOMAIN out[o]
        BY <1>1, <2>1, <2>2, <2>4, NullIsNothing DEF GoneWith, Cascade
      <3>2. CASE p = target[r]
        <4>1. rows[i] # Null /\ rows[i].parent = target[r]
          BY <1>1, <2>4, <3>2 DEF ChildPending
        <4>2. i \in GoneWith(r)
          BY <1>1, <1>2, <3>1, <4>1, UnderRemoved DEF GoneWith
        <4> QED BY <2>2, <2>4, <4>2
      <3>3. CASE p # target[r]
        <4>1. rows[p].table \in Owned
          BY <2>4, <3>3 DEF GoneWith, Cascade
        <4>2. Seen(o)[i] = out[o][i] /\ Seen(o)[p] = rows[p]
          BY <2>1, <2>4, <3>1, SeenAt
        <4>3. rows[p].table = ParentTable[out[o][i].table] /\ out[o][i] \in Rows
          BY <2>1, <2>4, <3>1, <4>2, KeyedAt
        <4>4. out[o][i].table \in WithParent
          BY <3>1, <4>3, RowColumns
        <4> QED BY <4>1, <4>3, <4>4, ParentTables
      <3> QED BY <3>2, <3>3
    <2>5. Compatible(o, r)'
      BY <1>1, <2>1, <2>2, <2>4 DEF Compatible
    <2> QED BY <2>3, <2>5
  <1>6. ASSUME NEW q \in Requests, NEW o \in Others(q)
        PROVE  Compatible(q, o)'
    <2>1. CASE q = r
      BY <1>5, <2>1
    <2>2. CASE o = r
      BY <1>5, <2>2 DEF Others
    <2>3. CASE q # r /\ o # r
      BY <2>3, UnmovedCompatible DEF Keys, Others, Unmoved
    <2> QED BY <2>1, <2>2, <2>3
  <1> QED BY <1>2, <1>3, <1>4, <1>6 DEF Keys, Others

\* What one has stored merges with what another has written and not stored.
LEMMA KeysCommitted ==
  ASSUME WellTyped, NEW tab, Fits(tab), Keys, NEW r \in Requests, \A o \in Others(r) : Unmoved(o),
         Gone(r, "ok"), rows' = Seen(r)
  PROVE  Keys'
  <1>1. DOMAIN out'[r] = {} /\ Keyed(Seen(r))
    BY NothingWritten DEF Gone, Keys
  <1>2. \A i \in Ids : rows'[i] = Seen(r)[i] /\ Seen(r)[i] \in Rows \cup {Null}
    BY SeenRows
  <1>3. Keyed(rows)'
    <2>1. Keyed(rows')
      BY <1>1
    <2> QED BY <2>1 DEF Keyed, ParentThere
  <1>4. Keyed(Seen(r))'
    <2> DEFINE db == Seen(r)
    <2>1. \A i \in Ids : db'[i] = rows'[i]
      BY <1>1 DEF Seen
    <2>2. \A i \in Ids : db'[i] = db[i] /\ db[i] \in Rows \cup {Null}
      BY <1>2, <2>1
    <2>3. Keyed(db)
      BY <1>1
    <2> HIDE DEF db
    <2>4. Keyed(db')
      BY <2>2, <2>3, KeyedSame
    <2> QED BY <2>4 DEF db, Keyed, ParentThere
  <1>5. ASSUME NEW o \in Others(r)
        PROVE  Keyed(Seen(o))'
    <2> DEFINE db == Seen(o)
               mine == Seen(r)
    <2>1. /\ o \in Requests /\ out'[o] = out[o] /\ Keyed(db) /\ Keyed(mine)
          /\ Compatible(r, o) /\ Compatible(o, r)
      BY DEF Others, Unmoved, Keys
    <2>2. /\ \A i \in DOMAIN out[o] : i \in Ids /\ out[o][i] \in Rows \cup {Null}
          /\ \A i \in DOMAIN out[r] : i \in Ids /\ out[r][i] \in Rows \cup {Null}
          /\ \A i \in Ids : /\ db[i] = IF i \in DOMAIN out[o] THEN out[o][i] ELSE rows[i]
                            /\ mine[i] = IF i \in DOMAIN out[r] THEN out[r][i] ELSE rows[i]
                            /\ db[i] \in Rows \cup {Null} /\ mine[i] \in Rows \cup {Null}
                            /\ Fit(tab, i, db[i]) /\ Fit(tab, i, mine[i])
      BY <2>1, SeenAt, SeenRows DEF WellTyped, Consistent
    <2>3. \A i \in Ids : db'[i] = IF i \in DOMAIN out[o] THEN db[i] ELSE mine[i]
      BY <1>2, <2>1, <2>2 DEF Seen
    <2> HIDE DEF db, mine
    <2>4. ASSUME NEW i \in Ids, db'[i] # Null, NEW j \in Ids \ {i}, db'[j] # Null
          PROVE  ~SameKey(db'[i], db'[j])
      <3>1. CASE i \in DOMAIN out[o] /\ j \in DOMAIN out[o]
        BY <2>1, <2>2, <2>3, <2>4, <3>1, KeyedAt
      <3>2. CASE i \notin DOMAIN out[o] /\ j \notin DOMAIN out[o]
        BY <2>1, <2>2, <2>3, <2>4, <3>2, KeyedAt
      <3>3. CASE i \in DOMAIN out[o] /\ j \notin DOMAIN out[o]
        <4>1. CASE j \in DOMAIN out[r]
          <5>1. db'[i] = out[o][i] /\ db'[j] = out[r][j]
            BY <2>2, <2>3, <3>3, <4>1
          <5> QED BY <2>1, <2>4, <3>3, <4>1, <5>1 DEF Compatible
        <4>2. CASE j \notin DOMAIN out[r]
          <5>1. db'[i] = db[i] /\ db'[j] = db[j]
            BY <2>2, <2>3, <3>3, <4>2
          <5> QED BY <2>1, <2>2, <2>4, <5>1, KeyedAt
        <4> QED BY <4>1, <4>2
      <3>4. CASE i \notin DOMAIN out[o] /\ j \in DOMAIN out[o]
        <4>1. CASE i \in DOMAIN out[r]
          <5>1. db'[i] = out[r][i] /\ db'[j] = out[o][j]
            BY <2>2, <2>3, <3>4, <4>1
          <5> QED BY <2>1, <2>4, <3>4, <4>1, <5>1 DEF Compatible
        <4>2. CASE i \notin DOMAIN out[r]
          <5>1. db'[i] = db[i] /\ db'[j] = db[j]
            BY <2>2, <2>3, <3>4, <4>2
          <5> QED BY <2>1, <2>2, <2>4, <5>1, KeyedAt
        <4> QED BY <4>1, <4>2
      <3> QED BY <3>1, <3>2, <3>3, <3>4
    <2>5. ASSUME NEW i \in Ids, db'[i] # Null, db'[i].parent # Null
          PROVE  ParentThere(db', db'[i])
      <3> DEFINE p == db'[i].parent
      <3>1. CASE i \in DOMAIN out[o]
        <4>1. db'[i] = db[i] /\ db[i] = out[o][i] /\ db[i] \in Rows
          BY <2>2, <2>3, <2>5, <3>1
        <4>2. p \in Ids /\ db[p] # Null /\ db[p].table = ParentTable[db[i].table] /\ db[p].table = tab[p]
          BY <2>1, <2>2, <2>5, <4>1, KeyedAt DEF Fit
        <4>3. p \in DOMAIN out[o] => db'[p] = db[p]
          BY <2>3, <4>2
        <4>4. p \notin DOMAIN out[o] /\ p \notin DOMAIN out[r] => db'[p] = db[p]
          BY <2>2, <2>3, <4>2
        <4>5. p \notin DOMAIN out[o] /\ p \in DOMAIN out[r] => db'[p] # Null /\ db'[p].table = tab[p]
          BY <2>1, <2>2, <2>3, <2>5, <3>1, <4>1, <4>2 DEF Compatible, Fit
        <4> QED BY <4>1, <4>2, <4>3, <4>4, <4>5 DEF ParentThere
      <3>2. CASE i \notin DOMAIN out[o]
        <4>1. db'[i] = mine[i] /\ mine[i] \in Rows
          BY <2>2, <2>3, <2>5, <3>2
        <4>2. p \in Ids /\ mine[p] # Null /\ mine[p].table = ParentTable[mine[i].table] /\ mine[p].table = tab[p]
          BY <2>1, <2>2, <2>5, <4>1, KeyedAt DEF Fit
        <4>3. p \notin DOMAIN out[o] => db'[p] = mine[p]
          BY <2>3, <4>2
        <4>4. ASSUME p \in DOMAIN out[o]
              PROVE  db'[p] # Null /\ db'[p].table = tab[p]
          <5>1. CASE i \in DOMAIN out[r]
            <6>1. mine[i] = out[r][i]
              BY <2>2, <5>1
            <6> QED BY <2>1, <2>2, <2>3, <2>5, <4>1, <4>2, <4>4, <5>1, <6>1 DEF Compatible, Fit
          <5>2. CASE i \notin DOMAIN out[r]
            <6>1. db[i] = rows[i] /\ mine[i] = rows[i] /\ db[i] \in Rows
              BY <2>2, <3>2, <4>1, <5>2
            <6>2. db[p] # Null
              BY <2>1, <2>5, <4>1, <6>1, KeyedAt
            <6> QED BY <2>2, <2>3, <4>2, <4>4, <6>2 DEF Fit
          <5> QED BY <5>1, <5>2
        <4> QED BY <4>1, <4>2, <4>3, <4>4 DEF ParentThere
      <3> QED BY <3>1, <3>2
    <2>6. Keyed(db')
      BY <2>4, <2>5 DEF Keyed
    <2> QED BY <2>6 DEF db, Keyed, ParentThere
  <1>6. ASSUME NEW q \in Requests, NEW o \in Others(q)
        PROVE  Compatible(q, o)'
    <2>1. CASE q = r \/ o = r
      BY <1>1, <2>1 DEF Compatible
    <2>2. CASE q # r /\ o # r
      BY <2>2, UnmovedCompatible DEF Keys, Others, Unmoved
    <2> QED BY <2>1, <2>2
  <1> QED BY <1>3, <1>4, <1>5, <1>6 DEF Keys, Others

\* At the start there is a row and perhaps one under it.
LEMMA KeysInitially == Init => Keys
  <1> SUFFICES ASSUME Init PROVE Keys
    OBVIOUS
  <1>1. PICK root \in family \ Owned, leaf \in BOOLEAN :
         \E t \in IF family \cap Owned = {} THEN {root} ELSE family \cap Owned :
         rows = [i \in Ids |->
           IF i = Root THEN [table |-> root, code |-> RootCode, parent |-> Null,
                             mark |-> leaf /\ t = "variant"]
           ELSE IF i = Leaf /\ leaf
             THEN [table |-> t, code |-> LeafCode, mark |-> FALSE,
                   parent |-> IF t \in WithParent THEN Root ELSE Null]
             ELSE Null]
    BY DEF Init
  <1>2. PICK t \in IF family \cap Owned = {} THEN {root} ELSE family \cap Owned :
         rows = [i \in Ids |->
           IF i = Root THEN [table |-> root, code |-> RootCode, parent |-> Null,
                             mark |-> leaf /\ t = "variant"]
           ELSE IF i = Leaf /\ leaf
             THEN [table |-> t, code |-> LeafCode, mark |-> FALSE,
                   parent |-> IF t \in WithParent THEN Root ELSE Null]
             ELSE Null]
    BY <1>1
  <1> DEFINE rootRow == [table |-> root, code |-> RootCode, parent |-> Null, mark |-> leaf /\ t = "variant"]
             leafRow == [table |-> t, code |-> LeafCode, parent |-> IF t \in WithParent THEN Root ELSE Null,
                         mark |-> FALSE]
  <1>3. rows = [i \in Ids |-> IF i = Root THEN rootRow ELSE IF i = Leaf /\ leaf THEN leafRow ELSE Null]
    BY <1>2
  <1>4. /\ rootRow.table = root /\ rootRow.code = RootCode /\ rootRow.parent = Null
        /\ leafRow.table = t /\ leafRow.code = LeafCode
        /\ leafRow.parent = IF t \in WithParent THEN Root ELSE Null
    OBVIOUS
  <1>5. Root \in Ids /\ Leaf \in Ids /\ Root # Leaf /\ RootCode # LeafCode /\ Root # Null
    BY ConstantsAssumption DEF Ids
  <1>6. t \in WithParent => ParentTable[t] = root
    <2>1. family \in Families
      BY DEF Init
    <2>2. ParentTable["contract"] = "employee" /\ ParentTable["variant"] = "product"
          /\ ParentTable["translation"] = "product" /\ ParentTable["category"] = "category"
          /\ ParentTable["location"] = "location"
      BY DEF ParentTable
    <2>3. CASE family \cap Owned = {}
      <3>1. t = root
        BY <1>2, <2>3
      <3>2. t \in WithParent => t \in {"category", "location"}
        BY <1>1, <3>1, TableNames DEF Owned
      <3> QED BY <2>2, <3>1, <3>2
    <2>4. CASE family \cap Owned # {}
      <3>1. family = {"employee", "contract"} \/ family = {"product", "variant", "translation"}
        BY <2>1, <2>4 DEF Families, Owned
      <3>2. t \in family \cap Owned
        BY <1>2, <2>4
      <3> QED BY <1>1, <2>2, <3>1, <3>2 DEF Owned
    <2> QED BY <2>3, <2>4
  <1>7. WellTyped
    BY TypesInitially DEF Types
  <1>8. rootRow \in Rows /\ rootRow # Null
    <2>1. rows[Root] \in Rows \cup {Null} /\ rows[Root] = rootRow
      BY <1>3, <1>5, <1>7 DEF WellTyped
    <2>2. rootRow # Null
      <3>1. root \in Tables
        BY <1>1, TableNames DEF Init
      <3> DEFINE m == leaf /\ t = "variant"
      <3>2. m \in BOOLEAN
        OBVIOUS
      <3> HIDE DEF m
      <3>3. [table |-> root, code |-> RootCode, parent |-> Null, mark |-> m] \in Rows
        BY <3>1, <3>2, RowOf, ConstantsAssumption
      <3>4. rootRow \in Rows
        BY <3>3 DEF m
      <3> QED BY <3>4, NullIsNothing
    <2> QED BY <2>1, <2>2
  <1> HIDE DEF rootRow, leafRow
  <1>9. Keyed(rows)
    <2>1. ASSUME NEW i \in Ids, rows[i] # Null, rows[i].parent # Null
          PROVE  ParentThere(rows, rows[i])
      <3>1. i # Root
        BY <1>3, <1>4, <2>1
      <3>2. i = Leaf /\ rows[i] = leafRow
        BY <1>3, <2>1, <3>1
      <3>3. t \in WithParent /\ leafRow.parent = Root
        BY <1>4, <2>1, <3>2
      <3>4. rows[Root] = rootRow
        BY <1>3, <1>5
      <3> QED BY <1>4, <1>6, <1>8, <3>2, <3>3, <3>4 DEF ParentThere
    <2>2. ASSUME NEW i \in Ids, rows[i] # Null, NEW j \in Ids \ {i}, rows[j] # Null
          PROVE  ~SameKey(rows[i], rows[j])
      BY <1>3, <1>4, <1>5, <2>2 DEF SameKey
    <2> QED BY <2>1, <2>2 DEF Keyed
  <1>10. \A r \in Requests : DOMAIN out[r] = {}
    BY NothingWritten DEF Init
  <1>11. \A r \in Requests : Keyed(Seen(r))
    <2>1. ASSUME NEW r \in Requests
          PROVE  Keyed(Seen(r))
      <3>1. \A i \in Ids : Seen(r)[i] = rows[i] /\ rows[i] \in Rows \cup {Null}
        BY <1>7, <1>10, SeenAt DEF WellTyped
      <3> QED BY <1>9, <3>1, KeyedSame
    <2> QED BY <2>1
  <1>12. \A r \in Requests : \A o \in Others(r) : Compatible(r, o)
    BY <1>10 DEF Compatible
  <1> QED BY <1>9, <1>11, <1>12 DEF Keys

\* A step is a quiet one, or some request writes, removes or commits.
LEMMA StepForms ==
  ASSUME WellTyped, [Next]_vars
  PROVE  \/ /\ rows' = rows /\ UNCHANGED <<family, ideal>>
            /\ \A r \in Requests : out'[r] = out[r] \/ DOMAIN out'[r] = {}
         \/ \E r \in Requests :
              /\ \A o \in Others(r) : Unmoved(o)
              /\ Stored(r) \/ Removed(r) \/ (Gone(r, "ok") /\ Commit(r) /\ rows' = Seen(r))
  <1>1. PerRequest
    BY DEF WellTyped
  <1>2. ASSUME NEW r \in Requests, \A o \in Others(r) : Unmoved(o), out'[r] = out[r] \/ DOMAIN out'[r] = {}
        PROVE  \A q \in Requests : out'[q] = out[q] \/ DOMAIN out'[q] = {}
    BY <1>2 DEF Others, Unmoved
  <1>3. ASSUME NEW r \in Requests, Refuse(r)
        PROVE  /\ rows' = rows /\ UNCHANGED <<family, ideal>>
               /\ \A q \in Requests : out'[q] = out[q] \/ DOMAIN out'[q] = {}
    BY <1>1, <1>2, <1>3, RefuseMoves, NothingWritten DEF Gone
  <1>4. ASSUME NEW r \in Requests, Receive(r)
        PROVE  /\ rows' = rows /\ UNCHANGED <<family, ideal>>
               /\ \A q \in Requests : out'[q] = out[q] \/ DOMAIN out'[q] = {}
    <2>1. pc[r] = "idle" /\ (Refuse(r) \/ Creating(r) \/ Changing(r) \/ Deleting(r))
      BY <1>4, Received
    <2>2. ASSUME Creating(r) \/ Changing(r) \/ Deleting(r)
          PROVE  /\ UNCHANGED <<family, rows, ideal>> /\ (\A o \in Others(r) : Unmoved(o))
                 /\ Consistent(r)' /\ PerRequest' /\ out' = out
      <3>1. /\ UNCHANGED <<family, rows, ideal>> /\ (\A o \in Others(r) : Unmoved(o))
            /\ Consistent(r)' /\ PerRequest'
        BY <2>1, <2>2, CreatingConsistent, ChangingConsistent, DeletingConsistent
      <3>2. CASE Creating(r)
        BY <3>1, <3>2 DEF Creating, BeginCreate, Begin
      <3>3. CASE Changing(r)
        BY <3>1, <3>3, Zenon DEF Changing, Begin
      <3>4. CASE Deleting(r)
        BY <3>1, <3>4 DEF Deleting, Begin
      <3> QED BY <2>2, <3>1, <3>2, <3>3, <3>4
    <2> QED BY <1>3, <2>1, <2>2
  <1>5. ASSUME NEW r \in Requests, SelectForSave(r)
        PROVE  /\ rows' = rows /\ UNCHANGED <<family, ideal>>
               /\ \A q \in Requests : out'[q] = out[q] \/ DOMAIN out'[q] = {}
    BY <1>1, <1>2, <1>5, SelectMoves
  <1>6. ASSUME ServerCrash
        PROVE  /\ rows' = rows /\ UNCHANGED <<family, ideal>>
               /\ \A q \in Requests : out'[q] = out[q] \/ DOMAIN out'[q] = {}
    BY <1>6, CrashMoves
  <1>7. ASSUME NEW r \in Requests, Write(r) \/ Remove(r)
        PROVE  Refuse(r) \/ ((\A o \in Others(r) : Unmoved(o)) /\ (Stored(r) \/ Removed(r)))
    BY <1>1, <1>7, WriteMoves, RemoveMoves
  <1>8. ASSUME NEW r \in Requests, Commit(r)
        PROVE  (\A o \in Others(r) : Unmoved(o)) /\ Gone(r, "ok") /\ rows' = Seen(r)
    BY <1>1, <1>8, CommitMoves
  <1>9. ASSUME UNCHANGED vars
        PROVE  /\ rows' = rows /\ UNCHANGED <<family, ideal>>
               /\ \A q \in Requests : out'[q] = out[q] \/ DOMAIN out'[q] = {}
    BY <1>9 DEF vars
  <1>10. CASE \E r \in Requests : Receive(r) \/ SelectForSave(r)
    BY <1>4, <1>5, <1>10
  <1>11. CASE \E r \in Requests : Write(r) \/ Remove(r)
    BY <1>3, <1>7, <1>11
  <1>12. CASE \E r \in Requests : Commit(r)
    BY <1>8, <1>12
  <1> QED
    BY <1>6, <1>9, <1>10, <1>11, <1>12 DEF Next, Step, Settled

\* The constraints are kept by every step.
LEMMA KeysKept == Types /\ Keys /\ [Next]_vars => Keys'
  <1> SUFFICES ASSUME WellTyped, NEW tab, Fits(tab), Keys, [Next]_vars
               PROVE  Keys'
    BY DEF Types
  <1> QED BY StepForms, KeysQuiet, KeysStored, KeysRemoved, KeysCommitted

\* No code is twice in a table where it is unique, and every row has its parent,
\* whatever stale entities save() writes beside insertions and removals: PostgreSQL checks
\* each statement against what its transaction sees, and the locks do the rest.
THEOREM KeysAlwaysHold == Spec => []KeysHold
  <1>1. Init => Types /\ Keys
    BY TypesInitially, KeysInitially
  <1>2. Types /\ Keys /\ [Next]_vars => (Types /\ Keys)'
    BY TypesKept, KeysKept
  <1>3. Types /\ Keys => KeysHold
    BY DEF Keys, Keyed, KeysHold
  <1> QED BY <1>1, <1>2, <1>3, PTL DEF Spec

--------------------------------------------------------------------------------
(* Races: rows that are not raced are what was asked for.                     *)

\* What the request a asks for of row i.
Effect(a, i, row) ==
  CASE a.op = "create" ->
         IF i = a.id THEN a.row
         ELSE IF a.row.table = "variant" /\ i = a.row.parent /\ row # Null THEN Changed(row, Marked)
         ELSE row
    [] a.op = "change" -> IF i # a.id THEN row ELSE IF row = Null THEN Null ELSE Changed(row, a.change)
    [] a.op = "delete" ->
         IF i = a.id \/ (row # Null /\ row.table \in Owned /\ row.parent = a.id) THEN Null ELSE row

\* It depends on that row alone.
LEMMA DoneLocal ==
  ASSUME WellTyped, NEW r \in Requests, pc[r] \in Working, NEW s, DOMAIN s = Ids, s = [i \in Ids |-> s[i]],
         NEW i \in Ids
  PROVE  Done(ask[r], s)[i] = Effect(ask[r], i, s[i])
  <1>1. ask[r] \in Asks
    BY DEF WellTyped, Consistent
  <1>2. ask[r].op \in {"create", "change", "delete"}
    BY <1>1 DEF Asks
  <1>3. CASE ask[r].op = "create"
    BY <1>3, DoneAt DEF Effect
  <1>4. CASE ask[r].op = "change"
    BY <1>4, DoneAt DEF Effect
  <1>5. CASE ask[r].op = "delete"
    BY <1>5, DoneAt DEF Effect
  <1> QED BY <1>2, <1>3, <1>4, <1>5

\* The rows that a request is about are near it.
LEMMA AboutIsNear ==
  ASSUME WellTyped, NEW tab, Fits(tab), NEW r \in Requests, StaysNear(r), pc[r] \in Working
  PROVE  /\ ask[r].op \in {"create", "change", "delete"}
         /\ ask[r].id \in About(r) /\ About(r) \subseteq near[r]
         /\ ask[r].op = "create" /\ ask[r].row.table = "variant" => ask[r].row.parent \in About(r) \ {r}
         /\ pc[r] \in {"select", "remove"} => target[r] \in About(r)
         /\ near[r] \subseteq Ids
  <1>1. Consistent(r) /\ FitsRequest(tab, r)
    BY DEF WellTyped, Fits
  <1>2. ask[r] \in Asks
    BY <1>1, NullIsNothing DEF Consistent
  <1>3. ask[r].op \in {"create", "change", "delete"}
    BY <1>2 DEF Asks
  <1>4. ASSUME ask[r].op = "create", ask[r].row.table = "variant"
        PROVE  ask[r].row.parent \in near[r] /\ ask[r].row.parent # r
    <2>1. ask[r].row.parent \in Ids
      BY <1>1, <1>4 DEF FitsRequest, FindsParent
    <2> QED BY <1>1, <1>4, <2>1, NullIsNothing DEF StaysNear, Consistent
  <1>5. pc[r] \in {"select", "remove"} => target[r] \in About(r)
    BY <1>1, <1>3 DEF Consistent, About
  <1>6. About(r) \subseteq near[r]
    BY <1>4 DEF About, StaysNear
  <1> QED BY <1>1, <1>3, <1>4, <1>5, <1>6 DEF About, Consistent

\* What a request asks for leaves the rows it is not about as they are.
LEMMA DoneElsewhere ==
  ASSUME WellTyped, NEW r \in Requests, pc[r] \in Working,
         NEW s, DOMAIN s = Ids, s = [i \in Ids |-> s[i]],
         NEW i \in Ids \ About(r),
         ask[r].op = "delete" => s[i] = Null \/ s[i].parent # ask[r].id
  PROVE  Done(ask[r], s)[i] = s[i]
  <1>1. ask[r] \in Asks
    BY DEF WellTyped, Consistent
  <1>2. ask[r].op \in {"create", "change", "delete"}
    BY <1>1 DEF Asks
  <1>3. CASE ask[r].op = "create"
    BY <1>3, DoneAt DEF About
  <1>4. CASE ask[r].op = "change"
    BY <1>4, DoneAt DEF About
  <1>5. CASE ask[r].op = "delete"
    BY <1>5, DoneAt DEF About
  <1> QED BY <1>2, <1>3, <1>4, <1>5

\* Requests that did not move, while no row changed, are as up to date as they were.
LEMMA UnmovedRaces ==
  ASSUME NEW o \in Requests, Unmoved(o), rows' = rows, raced \subseteq raced', StaysNear(o), UpToDate(o)
  PROVE  StaysNear(o)' /\ UpToDate(o)'
  <1>1. About(o)' = About(o)
    BY DEF About, Unmoved
  <1>2. StaysNear(o)'
    BY <1>1 DEF StaysNear, Unmoved
  <1>3. /\ Seen(o)' = Seen(o) /\ Inserted(o)' = Inserted(o)
        /\ Done(ask[o], rows)' = Done(ask[o], rows)
    BY DEF Seen, Inserted, Unmoved
  <1>4. NewState(o)' = NewState(o)
    BY <1>3 DEF NewState, Written, Unmoved
  <1>5. AsRead(o) => AsRead(o)'
    BY <1>3 DEF AsRead, Unmoved
  <1>6. AsPlanned(o) => AsPlanned(o)'
    BY <1>3, <1>4 DEF AsPlanned, Unmoved
  <1>7. AsFound(o) => AsFound(o)'
    BY DEF AsFound, Unmoved
  <1>8. AsWritten(o) => AsWritten(o)'
    BY <1>3 DEF AsWritten
  <1>9. UpToDate(o)'
    BY <1>5, <1>6, <1>7, <1>8 DEF UpToDate, Unmoved
  <1> QED BY <1>2, <1>9

\* A request that has been answered has nothing that could be out of date.
LEMMA GoneRaces ==
  ASSUME NEW r \in Requests, pc'[r] \in {"idle"} \cup Answered, DOMAIN plan'[r] = {}, DOMAIN out'[r] = {}
  PROVE  StaysNear(r)' /\ UpToDate(r)'
  <1>1. pc'[r] \notin Working /\ pc'[r] \notin {"select", "write", "remove", "commit"}
    BY DEF Answered, Working
  <1> QED BY <1>1 DEF StaysNear, UpToDate

\* Nobody is nearer to another than before.
LEMMA MeetsKept ==
  ASSUME \A q \in Requests : Meets(q), raced \subseteq raced',
         \A q \in Requests : near'[q] = near[q] \/ near'[q] = {}
  PROVE  \A q \in Requests : Meets(q)'
  <1> SUFFICES ASSUME NEW q \in Requests, NEW o \in Others(q), near'[q] \cap near'[o] # {}
               PROVE  near'[q] \subseteq raced'
    BY DEF Meets, Others
  <1>1. o \in Requests /\ near'[q] = near[q] /\ near'[o] = near[o]
    BY DEF Others
  <1> QED BY <1>1 DEF Meets

\* Nobody but r, who has marked the rows of those it is near to, and its own.
LEMMA MeetsArrival ==
  ASSUME NEW r \in Requests, \A q \in Requests : Meets(q), raced \subseteq raced',
         \A o \in Others(r) : near'[o] = near[o],
         \A o \in Others(r) : near'[r] \cap near[o] # {} => near'[r] \cup near[o] \subseteq raced'
  PROVE  \A q \in Requests : Meets(q)'
  <1> SUFFICES ASSUME NEW q \in Requests, NEW o \in Others(q), near'[q] \cap near'[o] # {}
               PROVE  near'[q] \subseteq raced'
    BY DEF Meets, Others
  <1>1. CASE q = r
    BY <1>1
  <1>2. CASE o = r
    <2>1. q \in Others(r) /\ near'[q] = near[q]
      BY <1>2 DEF Others
    <2> QED BY <1>2, <2>1
  <1>3. CASE q # r /\ o # r
    <2>1. q \in Others(r) /\ o \in Others(r) /\ near'[q] = near[q] /\ near'[o] = near[o]
      BY <1>3 DEF Others
    <2> QED BY <2>1 DEF Meets
  <1> QED BY <1>1, <1>2, <1>3

\* What r commits is far from the rows of the others, but for rows that are raced.
LEMMA CommitIsFar ==
  ASSUME WellTyped, NEW tab, Fits(tab), Keys, Races, NEW r \in Requests, pc[r] = "commit", rows' = Seen(r),
         NEW o \in Others(r), pc[o] \in Working, NEW i \in Ids \ raced
  PROVE  \/ /\ rows'[i] = rows[i]
            /\ i \notin DOMAIN out[r]
         \/ /\ i \notin near[o] /\ i \notin DOMAIN out[o] /\ i \notin DOMAIN plan[o] /\ i \notin About(o)
            /\ rows'[i] = Null \/ rows'[i].parent \notin near[o]
  <1>1. o \in Requests /\ rows'[i] = IF i \in DOMAIN out[r] THEN out[r][i] ELSE rows[i]
    BY SeenAt DEF Others
  <1> SUFFICES ASSUME i \in DOMAIN out[r]
               PROVE  /\ i \notin near[o] /\ i \notin DOMAIN out[o] /\ i \notin DOMAIN plan[o] /\ i \notin About(o)
                      /\ rows'[i] = Null \/ rows'[i].parent \notin near[o]
    BY <1>1
  <1>2. StaysNear(r) /\ Meets(r) /\ StaysNear(o)
    BY <1>1 DEF Races
  <1>3. i \in near[r] /\ i \notin raced
    BY <1>2 DEF StaysNear
  <1>4. near[r] \cap near[o] = {}
    BY <1>2, <1>3 DEF Meets
  <1>5. DOMAIN out[o] \cup DOMAIN plan[o] \subseteq near[o] \cup raced
    BY <1>2 DEF StaysNear
  <1>6. About(o) \subseteq near[o] /\ near[o] \subseteq Ids
    BY <1>1, <1>2, AboutIsNear
  <1>7. rows'[i] = Null \/ rows'[i].parent \in near[r] \cup {Null}
    BY <1>1, <1>2 DEF StaysNear
  <1> QED BY <1>3, <1>4, <1>5, <1>6, <1>7, NullIsNothing

\* So the others are as up to date as they were.
LEMMA CommitRaces ==
  ASSUME WellTyped, NEW tab, Fits(tab), Keys, Races, NEW r \in Requests, pc[r] = "commit", rows' = Seen(r),
         raced' = raced, NEW o \in Others(r), Unmoved(o), pc[o] \in Working
  PROVE  StaysNear(o)' /\ UpToDate(o)'
  <1>1. /\ o \in Requests /\ StaysNear(o) /\ UpToDate(o) /\ Consistent(o)
        /\ out'[o] = out[o] /\ plan'[o] = plan[o] /\ near'[o] = near[o] /\ ask'[o] = ask[o]
        /\ pc'[o] = pc[o] /\ target'[o] = target[o] /\ held'[o] = held[o]
    BY DEF Others, Races, Unmoved, WellTyped
  <1>2. \A i \in Ids \ raced :
          \/ rows'[i] = rows[i]
          \/ /\ i \notin near[o] /\ i \notin DOMAIN out[o] /\ i \notin DOMAIN plan[o] /\ i \notin About(o)
             /\ rows'[i] = Null \/ rows'[i].parent \notin near[o]
    BY CommitIsFar
  <1>3. /\ ask[o].op \in {"create", "change", "delete"}
        /\ ask[o].id \in About(o) /\ About(o) \subseteq near[o] /\ near[o] \subseteq Ids
        /\ ask[o].op = "create" /\ ask[o].row.table = "variant" => ask[o].row.parent \in About(o)
        /\ pc[o] \in {"select", "remove"} => target[o] \in About(o)
    BY <1>1, AboutIsNear
  <1>4. /\ DOMAIN rows = Ids /\ rows = [i \in Ids |-> rows[i]]
        /\ DOMAIN rows' = Ids /\ rows' = [i \in Ids |-> rows'[i]]
    BY DEF WellTyped, Seen
  <1>5. \A i \in near[o] \ raced : rows'[i] = rows[i]
    BY <1>2, <1>3
  <1>6. \A i \in Ids : /\ Seen(o)[i] = IF i \in DOMAIN out[o] THEN out[o][i] ELSE rows[i]
                       /\ Seen(o)'[i] = IF i \in DOMAIN out[o] THEN out[o][i] ELSE rows'[i]
    BY <1>1 DEF Seen
  <1>7. \A i \in Ids : /\ NewState(o)[i] = IF i \in DOMAIN plan[o] THEN Written(o, i) ELSE Seen(o)[i]
                       /\ NewState(o)'[i] = IF i \in DOMAIN plan[o] THEN Written(o, i)' ELSE Seen(o)'[i]
    BY <1>1 DEF NewState
  <1>8. \A i \in Ids \ raced : rows'[i] = rows[i] => Seen(o)'[i] = Seen(o)[i] /\ NewState(o)'[i] = NewState(o)[i]
    <2>1. ASSUME NEW i \in Ids, rows'[i] = rows[i]
          PROVE  Seen(o)'[i] = Seen(o)[i]
      BY <1>6, <2>1
    <2>2. ASSUME NEW i \in Ids, i \in DOMAIN plan[o], Seen(o)'[i] = Seen(o)[i]
          PROVE  Written(o, i)' = Written(o, i)
      BY <1>1, <2>2 DEF Written
    <2> QED BY <1>7, <2>1, <2>2
  \* what is asked for of a row is the same if the row is, and is the row itself elsewhere
  <1>9. \A i \in Ids \ raced :
          \/ rows'[i] = rows[i] /\ Done(ask[o], rows')[i] = Done(ask[o], rows)[i]
          \/ /\ i \notin About(o) /\ i \notin DOMAIN out[o] /\ i \notin DOMAIN plan[o]
             /\ Done(ask[o], rows')[i] = rows'[i]
    <2>1. ASSUME NEW i \in Ids, rows'[i] = rows[i]
          PROVE  Done(ask[o], rows')[i] = Done(ask[o], rows)[i]
      <3>1. Done(ask[o], rows')[i] = Effect(ask[o], i, rows'[i])
        BY <1>1, <1>4, DoneLocal
      <3>2. Done(ask[o], rows)[i] = Effect(ask[o], i, rows[i])
        BY <1>1, <1>4, DoneLocal
      <3> QED BY <2>1, <3>1, <3>2
    <2>2. ASSUME NEW i \in Ids \ About(o), rows'[i] = Null \/ rows'[i].parent \notin near[o]
          PROVE  Done(ask[o], rows')[i] = rows'[i]
      <3>1. ask[o].op = "delete" => rows'[i] = Null \/ rows'[i].parent # ask[o].id
        BY <1>3, <2>2
      <3> QED BY <1>1, <1>4, <3>1, DoneElsewhere
    <2> QED BY <1>2, <2>1, <2>2
  <1>10. StaysNear(o)'
    <2>1. About(o)' = About(o)
      BY <1>1 DEF About
    <2>2. ask[o].id \notin raced => rows'[ask[o].id] = rows[ask[o].id]
      BY <1>3, <1>5
    <2> QED BY <1>1, <2>1, <2>2 DEF StaysNear
  <1>11. AsRead(o) /\ pc[o] = "select" => AsRead(o)'
    <2> SUFFICES ASSUME AsRead(o), pc[o] = "select"
                 PROVE  AsRead(o)'
      OBVIOUS
    <2>1. ASSUME NEW i \in Ids \ raced
          PROVE  Seen(o)'[i] = Inserted(o)'[i]
      <3>1. Inserted(o)[i] = IF ask[o].op = "create" /\ i = o THEN ask[o].row ELSE rows[i]
        BY DEF Inserted
      <3>2. Inserted(o)'[i] = IF ask[o].op = "create" /\ i = o THEN ask[o].row ELSE rows'[i]
        BY <1>1 DEF Inserted
      <3>3. ask[o].op = "create" => o \in near[o]
        BY <1>1, <1>3 DEF Consistent
      <3> QED BY <1>2, <1>6, <1>8, <3>1, <3>2, <3>3 DEF AsRead
    <2>2. target[o] \notin raced => rows'[target[o]] = rows[target[o]]
      BY <1>3, <1>5
    <2>3. held[o].kids # Null => \A k \in DOMAIN held[o].kids \ raced : held[o].kids[k] = rows'[k]
      BY <1>5 DEF AsRead
    <2>4. ASSUME held[o].kids # Null, NEW k \in Ids \ raced,
                 k \in Children(rows, target[o], held[o].row.table)'
          PROVE  k \in DOMAIN held[o].kids
      <3>1. rows'[k] # Null /\ rows'[k].parent = target[o]
        BY <1>1, <2>4 DEF Children, ChildrenIn
      <3>2. rows'[k] = rows[k]
        BY <1>2, <1>3, <3>1
      <3>3. k \in Children(rows, target[o], held[o].row.table)
        BY <1>1, <2>4, <3>2 DEF Children, ChildrenIn
      <3> QED BY <2>4, <3>3 DEF AsRead
    <2> QED BY <1>1, <2>1, <2>2, <2>3, <2>4 DEF AsRead
  <1>12. AsPlanned(o) /\ pc[o] = "write" => AsPlanned(o)'
    <2> SUFFICES ASSUME AsPlanned(o), pc[o] = "write"
                 PROVE  AsPlanned(o)'
      OBVIOUS
    <2>1. held[o].product = Null => \A i \in Ids \ raced : NewState(o)'[i] = Done(ask[o], rows')[i]
      BY <1>6, <1>7, <1>8, <1>9 DEF AsPlanned
    <2>2. ASSUME held[o].product # Null, NEW i \in Ids \ raced
          PROVE  NewState(o)'[i] = Inserted(o)'[i]
      <3>1. Inserted(o)[i] = IF ask[o].op = "create" /\ i = o THEN ask[o].row ELSE rows[i]
        BY DEF Inserted
      <3>2. Inserted(o)'[i] = IF ask[o].op = "create" /\ i = o THEN ask[o].row ELSE rows'[i]
        BY <1>1 DEF Inserted
      <3>3. ask[o].op = "create" => o \in About(o)
        BY <1>1, <1>3 DEF Consistent
      <3>4. NewState(o)[i] = Inserted(o)[i]
        BY <2>2 DEF AsPlanned
      <3> QED BY <1>2, <1>3, <1>6, <1>7, <1>8, <3>1, <3>2, <3>3, <3>4
    <2>3. held[o].product # Null /\ ask[o].row.parent \notin raced =>
            rows'[ask[o].row.parent] = rows[ask[o].row.parent]
      BY <1>1, <1>3, <1>5 DEF Consistent
    <2> QED BY <1>1, <2>1, <2>2, <2>3 DEF AsPlanned
  <1>13. AsFound(o) /\ pc[o] = "remove" => AsFound(o)'
    BY <1>1, <1>2, <1>3 DEF AsFound
  <1>14. AsWritten(o) => AsWritten(o)'
    BY <1>1, <1>6, <1>8, <1>9 DEF AsWritten
  <1>15. UpToDate(o)'
    BY <1>1, <1>11, <1>12, <1>13, <1>14 DEF UpToDate
  <1> QED BY <1>10, <1>15

\* A row that is read again is written as it is to be, or already is so.
LEMMA SelectedRow ==
  ASSUME WellTyped, NEW tab, Fits(tab), NEW r \in Requests, SelectForSave(r), StaysNear(r), AsRead(r),
         NEW i \in Ids \ raced
  PROVE  /\ i \in ToPlan(r) => i = target[r]
         /\ NewState(r)'[i] = Done(ask[r], rows)[i]
  <1> DEFINE ch == IF ask[r].op = "create" THEN Marked ELSE ask[r].change
             x == target[r]
  <1>1. /\ pc[r] = "select" /\ pc[r] \in Working /\ Consistent(r) /\ FitsRequest(tab, r) /\ PerRequest
        /\ DOMAIN plan'[r] = ToPlan(r) /\ \A k \in ToPlan(r) : plan'[r][k] = PlanOf(r, k)
        /\ out' = out /\ rows' = rows /\ ask'[r] = ask[r]
    BY SelectMoves DEF WellTyped, Fits, Working
  <1>2. /\ ask[r].op \in {"create", "change"} /\ x \in Ids /\ held[r].row \in Rows
        /\ ask[r].op = "change" => x = ask[r].id /\ DOMAIN out[r] = {}
        /\ ask[r].op = "create" => /\ x = ask[r].row.parent /\ ask[r].row.table = "variant" /\ held[r].kids = Null
                                   /\ ask[r].id = r /\ x # r
    <2>1. ask[r].op \in {"create", "change", "delete"}
      BY <1>1, AboutIsNear
    <2> QED BY <1>1, <2>1 DEF Consistent
  <1>3. Seen(r)' = Seen(r) /\ Seen(r)[i] = Inserted(r)[i]
        /\ Inserted(r)[i] = IF ask[r].op = "create" /\ i = r THEN ask[r].row ELSE rows[i]
    BY <1>1 DEF Seen, AsRead, Inserted
  <1>4. NewState(r)'[i] = IF i \in ToPlan(r) THEN Written(r, i)' ELSE Seen(r)[i]
    BY <1>1, <1>3 DEF NewState
  <1>5. Done(ask[r], rows)[i] = Effect(ask[r], i, rows[i])
    BY <1>1, DoneLocal DEF WellTyped
  <1>6. rows[i] \in Rows \cup {Null} /\ Fit(tab, i, rows[i])
    BY DEF WellTyped, Fits
  <1>7. CASE i = x
    <2>1. /\ rows[i] \in Rows /\ rows[i] # Null /\ held[r].row = Changed(rows[i], ch) /\ Seen(r)[i] = rows[i]
          /\ rows[i].table = tab[i]
      BY <1>2, <1>3, <1>6, <1>7 DEF AsRead, Fit
    <2>2. Suits(ch, rows[i].table)
      BY <1>1, <1>2, <1>7, <2>1, MarkSuits DEF FitsRequest
    <2>3. held[r].row.table = rows[i].table
      BY <2>1, <2>2, ChangedRow
    <2>4. Done(ask[r], rows)[i] = held[r].row
      BY <1>2, <1>5, <1>7, <2>1 DEF Effect
    <2>5. ToWrite(r, i) = held[r].row /\ ToSet(r, i) = Difference(held[r].row, rows[i])
      BY <1>7, <2>1 DEF ToWrite, ToSet
    <2>6. CASE i \notin ToPlan(r)
      <3>1. Difference(held[r].row, rows[i]) = {}
        BY <1>7, <2>1, <2>5, <2>6 DEF ToPlan, KnownTo
      <3>2. \A f \in Fields : held[r].row[f] = rows[i][f]
        BY <3>1 DEF Difference
      <3>3. held[r].row = rows[i]
        BY <1>2, <2>1, <2>3, <3>2, SameRow DEF Fields
      <3> QED BY <1>4, <1>7, <2>1, <2>4, <2>6, <3>3
    <2>7. CASE i \in ToPlan(r)
      <3> DEFINE set == Difference(held[r].row, rows[i])
      <3>1. plan'[r][i] = Columns(held[r].row, set)
        BY <1>1, <2>1, <2>5, <2>7 DEF PlanOf
      <3>2. set \in SUBSET Fields /\ \A f \in Fields \ set : held[r].row[f] = rows[i][f]
        BY DEF Difference
      <3> HIDE DEF set
      <3>3. Written(r, i)' = [f \in DOMAIN rows[i] |-> IF f \in set THEN held[r].row[f] ELSE rows[i][f]]
        BY <1>3, <2>1, <3>1 DEF Written, Columns
      <3>4. /\ Written(r, i)' \in Rows /\ Written(r, i)'.table = rows[i].table
            /\ Written(r, i)'.code = IF "code" \in set THEN held[r].row.code ELSE rows[i].code
            /\ Written(r, i)'.parent = IF "parent" \in set THEN held[r].row.parent ELSE rows[i].parent
            /\ Written(r, i)'.mark = IF "mark" \in set THEN held[r].row.mark ELSE rows[i].mark
        BY <1>2, <2>1, <2>3, <3>2, <3>3, UpdatedRow
      <3>5. Written(r, i)' = held[r].row
        <4>1. Written(r, i)'.code = held[r].row.code
          BY <3>2, <3>4 DEF Fields
        <4>2. Written(r, i)'.parent = held[r].row.parent
          BY <3>2, <3>4 DEF Fields
        <4>3. Written(r, i)'.mark = held[r].row.mark
          BY <3>2, <3>4 DEF Fields
        <4> QED BY <1>2, <2>3, <3>4, <4>1, <4>2, <4>3, SameRow
      <3> QED BY <1>4, <1>7, <2>4, <2>7, <3>5
    <2> QED BY <1>7, <2>6, <2>7
  <1>8. CASE i # x
    <2>1. i \notin ToPlan(r)
      <3>1. CASE held[r].kids = Null
        BY <1>8, <3>1, NothingWritten DEF ToPlan, KnownTo, KidsOf
      <3>2. CASE held[r].kids # Null
        <4>1. ask[r].op = "change" /\ Seen(r)[i] = rows[i]
          BY <1>2, <1>3, <3>2
        <4>2. CASE i \in DOMAIN held[r].kids
          <5>1. rows[i] # Null /\ held[r].kids[i] = rows[i]
            BY <1>1, <3>2, <4>2, NullIsNothing DEF Consistent, AsRead
          <5>2. ToSet(r, i) = {}
            BY <1>8, <3>2, <4>1, <4>2, <5>1 DEF ToSet, KidsOf, Difference
          <5> QED BY <4>1, <5>1, <5>2 DEF ToPlan
        <4>3. CASE i \notin DOMAIN held[r].kids
          <5>1. i \notin Children(rows, x, held[r].row.table)
            BY <3>2, <4>3 DEF AsRead
          <5>2. i \notin Children(Seen(r), x, held[r].row.table)
            BY <4>1, <5>1 DEF Children, ChildrenIn
          <5> QED BY <1>8, <3>2, <4>3, <5>2 DEF ToPlan, KnownTo, KidsOf
        <4> QED BY <4>2, <4>3
      <3> QED BY <3>1, <3>2
    <2>2. Done(ask[r], rows)[i] = Inserted(r)[i]
      BY <1>2, <1>3, <1>5, <1>8 DEF Effect
    <2> QED BY <1>3, <1>4, <2>1, <2>2
  <1> QED BY <1>7, <1>8

\* So r is up to date when it has read again.
LEMMA SelectRaces ==
  ASSUME WellTyped, NEW tab, Fits(tab), NEW r \in Requests, SelectForSave(r), StaysNear(r), UpToDate(r)
  PROVE  StaysNear(r)' /\ UpToDate(r)'
  <1>1. /\ pc[r] = "select" /\ pc[r] \in Working /\ Consistent(r) /\ PerRequest /\ pc'[r] = "write"
        /\ DOMAIN plan'[r] = ToPlan(r) /\ near'[r] = near[r] /\ ask'[r] = ask[r] /\ held'[r] = held[r]
        /\ out' = out /\ rows' = rows /\ raced' = raced
    BY SelectMoves DEF WellTyped, Working
  <1>2. AsRead(r) /\ held[r].product = Null
    BY <1>1 DEF UpToDate, Consistent
  <1>3. \A i \in Ids \ raced : (i \in ToPlan(r) => i = target[r]) /\ NewState(r)'[i] = Done(ask[r], rows)[i]
    BY <1>2, SelectedRow
  <1>4. target[r] \in About(r) /\ About(r) \subseteq near[r]
    BY <1>1, AboutIsNear
  <1>5. \A k \in ToPlan(r) : k \in Ids
    BY <1>1, PlannedRows
  <1>6. ToPlan(r) \ raced \subseteq About(r)
    BY <1>3, <1>4, <1>5
  <1>7. StaysNear(r)'
    <2>1. About(r)' = About(r)
      BY <1>1 DEF About
    <2> QED BY <1>1, <1>4, <1>6, <2>1 DEF StaysNear, Working
  <1>8. AsPlanned(r)'
    BY <1>1, <1>2, <1>3 DEF AsPlanned
  <1> QED BY <1>1, <1>7, <1>8 DEF UpToDate

\* What r has written is as it was planned.
LEMMA StoredRaces ==
  ASSUME WellTyped, NEW tab, Fits(tab), NEW r \in Requests, Stored(r), StaysNear(r), UpToDate(r)
  PROVE  StaysNear(r)' /\ UpToDate(r)'
  <1>1. /\ pc[r] = "write" /\ pc[r] \in Working /\ pc'[r] \in {"select", "commit"} /\ pc'[r] \in Working
        /\ Consistent(r) /\ FitsRequest(tab, r) /\ AsPlanned(r)
        /\ DOMAIN out'[r] = DOMAIN out[r] \cup DOMAIN plan[r] /\ DOMAIN plan'[r] = {}
        /\ ask'[r] = ask[r] /\ near'[r] = near[r] /\ rows' = rows /\ raced' = raced
    BY NothingWritten DEF Stored, WellTyped, Fits, UpToDate, Working
  <1>2. /\ ask[r].op \in {"create", "change"} /\ ask[r].id \in About(r) /\ About(r) \subseteq near[r]
        /\ ask[r].op = "create" => ask[r].id = r
    <2>1. ask[r].op \in {"create", "change", "delete"} /\ ask[r].id \in About(r) /\ About(r) \subseteq near[r]
      BY <1>1, AboutIsNear
    <2> QED BY <1>1, <2>1 DEF Consistent
  <1>3. \A i \in DOMAIN out'[r] : i \in Ids /\ out'[r][i] = NewState(r)[i] /\ NewState(r)[i] \in Rows \cup {Null}
                                  /\ Fit(tab, i, NewState(r)[i])
    <2>1. \A i \in DOMAIN out'[r] : i \in Ids
      BY <1>1 DEF Consistent
    <2> QED BY <2>1, <1>1, NewRows DEF Stored
  <1>4. \A i \in Ids : Seen(r)'[i] = NewState(r)[i]
    <2>1. ASSUME NEW i \in Ids
          PROVE  Seen(r)'[i] = NewState(r)[i]
      <3>1. Seen(r)'[i] = IF i \in DOMAIN out'[r] THEN out'[r][i] ELSE rows[i]
        BY <1>1 DEF Seen
      <3>2. i \notin DOMAIN out'[r] => NewState(r)[i] = rows[i]
        BY <1>1, NewRows, SeenAt
      <3> QED BY <1>3, <3>1, <3>2
    <2> QED BY <2>1
  <1>5. (DOMAIN out[r] \cup DOMAIN plan[r]) \ raced \subseteq About(r)
    BY <1>1, <1>2 DEF StaysNear
  <1>6. ASSUME NEW i \in DOMAIN out'[r] \ raced, out'[r][i] # Null
        PROVE  out'[r][i].parent \in near[r] \cup {Null}
    <2>1. i \in Ids \ raced /\ i \in About(r) /\ out'[r][i] \in Rows /\ out'[r][i] = NewState(r)[i]
          /\ out'[r][i].table = tab[i]
      BY <1>1, <1>3, <1>5, <1>6 DEF Fit
    <2>2. Done(ask[r], rows)[i] = Effect(ask[r], i, rows[i])
      BY <1>1, <2>1, DoneLocal DEF WellTyped
    <2>3. CASE ask[r].op = "create" /\ i = r
      <3>1. NewState(r)[i] = ask[r].row
        <4>1. CASE held[r].product = Null
          BY <1>1, <1>2, <2>1, <2>2, <2>3, <4>1 DEF AsPlanned, Effect
        <4>2. CASE held[r].product # Null
          BY <1>1, <2>1, <2>3, <4>2 DEF AsPlanned, Inserted
        <4> QED BY <4>1, <4>2
      <3> QED BY <1>1, <2>1, <2>3, <3>1 DEF StaysNear
    <2>4. CASE ask[r].op = "create" /\ i # r
      <3>1. ask[r].row.table = "variant" /\ i = ask[r].row.parent
        BY <1>2, <2>1, <2>4 DEF About
      <3>2. ParentTable["variant"] = "product"
        BY DEF ParentTable
      <3>3. tab[i] = "product"
        BY <1>1, <2>4, <3>1, <3>2 DEF FitsRequest, FindsParent
      <3> QED BY <2>1, <3>3, RowColumns, TableNames
    <2>5. CASE ask[r].op = "change"
      <3>1. i = ask[r].id /\ rows[i] # Null /\ rows[i].parent \in near[r] \cup {Null}
            /\ (ask[r].change.field = "parent" => ask[r].change.value \in near[r])
        BY <1>1, <2>1, <2>5 DEF About, StaysNear
      <3>2. held[r].product = Null
        BY <1>1, <2>5 DEF Consistent
      <3>3. out'[r][i] = Changed(rows[i], ask[r].change)
        BY <1>1, <2>1, <2>2, <2>5, <3>1, <3>2 DEF AsPlanned, Effect
      <3>4. rows[i] \in Rows /\ Suits(ask[r].change, rows[i].table)
        <4>1. rows[i] \in Rows /\ rows[i].table = tab[i]
          BY <2>1, <3>1 DEF WellTyped, Fits, Fit
        <4> QED BY <1>1, <2>5, <3>1, <4>1 DEF FitsRequest
      <3> QED BY <3>1, <3>3, <3>4, ChangedRow
    <2> QED BY <1>2, <2>3, <2>4, <2>5
  <1>7. StaysNear(r)'
    <2>1. About(r)' = About(r)
      BY <1>1 DEF About
    <2> QED BY <1>1, <1>5, <1>6, <2>1 DEF StaysNear
  <1>8. CASE held[r].product = Null
    <2>1. pc'[r] = "commit"
      BY <1>8 DEF Stored
    <2>2. AsWritten(r)'
      BY <1>1, <1>4, <1>8 DEF AsPlanned, AsWritten
    <2> QED BY <1>7, <2>1, <2>2 DEF UpToDate
  <1>9. CASE held[r].product # Null
    <2>1. /\ pc'[r] = "select" /\ target'[r] = held[r].row.parent
          /\ held'[r] = [row |-> Changed(held[r].product, Marked), kids |-> Null, product |-> Null]
      BY <1>9 DEF Stored
    <2>2. ask[r].op = "create" /\ held[r].row = ask[r].row
      BY <1>1, <1>9 DEF Consistent
    <2>3. \A i \in Ids \ raced : Seen(r)'[i] = Inserted(r)'[i]
      <3>1. Inserted(r)' = Inserted(r)
        BY <1>1 DEF Inserted
      <3> QED BY <1>1, <1>4, <1>9, <3>1 DEF AsPlanned
    <2>4. held'[r].row = Changed(held[r].product, Marked) /\ held'[r].kids = Null
      BY <2>1
    <2>5. AsRead(r)'
      BY <1>1, <1>9, <2>1, <2>2, <2>3, <2>4 DEF AsPlanned, AsRead
    <2> QED BY <1>7, <2>1, <2>5 DEF UpToDate
  <1> QED BY <1>8, <1>9

\* What r has removed is what it was asked to.
LEMMA RemovedRaces ==
  ASSUME WellTyped, NEW tab, Fits(tab), NEW r \in Requests, Removed(r), StaysNear(r), UpToDate(r)
  PROVE  StaysNear(r)' /\ UpToDate(r)'
  <1>1. /\ pc[r] = "remove" /\ pc[r] \in Working /\ pc'[r] = "commit" /\ Consistent(r) /\ AsFound(r)
        /\ ask[r].op = "delete" /\ target[r] = ask[r].id /\ target[r] \in Ids
        /\ DOMAIN out'[r] = GoneWith(r) /\ (\A j \in GoneWith(r) : out'[r][j] = Null)
        /\ plan'[r] = plan[r] /\ ask'[r] = ask[r] /\ near'[r] = near[r] /\ rows' = rows /\ raced' = raced
    BY DEF Removed, WellTyped, UpToDate, Consistent, Working
  <1>2. GoneWith(r) \subseteq near[r] \cup raced
    BY <1>1 DEF GoneWith, Cascade, AsFound, StaysNear
  <1>3. StaysNear(r)'
    BY <1>1, <1>2 DEF StaysNear
  <1>4. ASSUME NEW i \in Ids
        PROVE  Seen(r)'[i] = Done(ask[r], rows)[i]
    <2>1. Seen(r)'[i] = IF i \in GoneWith(r) THEN Null ELSE rows[i]
      BY <1>1 DEF Seen
    <2>2. Done(ask[r], rows)[i] = Effect(ask[r], i, rows[i])
      BY <1>1, DoneLocal DEF WellTyped
    <2> QED BY <1>1, <2>1, <2>2 DEF Effect, GoneWith, Cascade
  <1>5. AsWritten(r)'
    BY <1>1, <1>4 DEF AsWritten
  <1> QED BY <1>1, <1>3, <1>5 DEF UpToDate

\* A request that comes in to create has read what is so.
LEMMA CreatingRaces ==
  ASSUME WellTyped, NEW tab, Fits(tab), NEW r \in Requests, pc[r] = "idle", Creating(r)
  PROVE  StaysNear(r)' /\ UpToDate(r)'
  <1>1. PICK row \in Rows, product \in Rows \cup {Null} :
          /\ row.table \in family /\ row.parent # r
          /\ row.table \in FindsParent => Is(row.parent, ParentTable[row.table])
          /\ product # Null => row.table = "variant" /\ product = rows[row.parent]
          /\ product = Null /\ row.table = "variant" => rows[row.parent].mark
          /\ BeginCreate(r, row, product)
    BY DEF Creating
  <1> DEFINE asked == [op |-> "create", id |-> r, row |-> row, change |-> Null]
             entity == [row |-> row, kids |-> Null, product |-> product]
             writes == [i \in {r} |-> Insertion(row)]
  <1>2. /\ pc'[r] = "write" /\ ask'[r] = asked /\ near'[r] = {r, row.parent} \ {Null} /\ target'[r] = r
        /\ held'[r] = entity /\ plan'[r] = writes /\ out'[r] = out[r]
        /\ UNCHANGED <<family, rows, ideal>>
    <2>1. Begin(r, asked, {r, row.parent}, entity, writes, "write")
      BY <1>1 DEF BeginCreate
    <2>2. PerRequest /\ asked.id = r
      BY DEF WellTyped
    <2> HIDE DEF asked, entity, writes
    <2> QED BY <2>1, <2>2, BeginMoves
  <1>3. DOMAIN writes = {r} /\ writes[r] = Insertion(row) /\ Insertion(row).new /\ Insertion(row).row = row
    BY DEF Insertion
  <1>4. entity.row = row /\ entity.kids = Null /\ entity.product = product
        /\ asked.op = "create" /\ asked.row = row /\ asked.id = r
    OBVIOUS
  <1>5. DOMAIN out[r] = {} /\ r \in Ids /\ r # Null
    BY NullIsNothing DEF WellTyped, Consistent, Working, Ids
  <1>6. Consistent(r)' /\ PerRequest'
    BY CreatingConsistent
  <1> HIDE DEF asked, entity, writes
  <1>7. StaysNear(r)'
    <2>1. About(r)' = {r} \cup (IF row.table = "variant" THEN {row.parent} ELSE {})
      BY <1>2, <1>4 DEF About
    <2> QED BY <1>2, <1>3, <1>4, <1>5, <2>1 DEF StaysNear
  <1>8. \A i \in Ids : NewState(r)'[i] = IF i = r THEN row ELSE rows[i]
    <2>1. \A i \in Ids : Seen(r)'[i] = rows[i]
      BY <1>2, <1>5 DEF Seen
    <2>2. Written(r, r)' = row
      BY <1>2, <1>3 DEF Written
    <2>3. \A i \in Ids : NewState(r)'[i] = IF i \in DOMAIN plan'[r] THEN Written(r, i)' ELSE Seen(r)'[i]
      BY DEF NewState
    <2> QED BY <1>2, <1>3, <2>1, <2>2, <2>3
  <1>9. ASSUME product = Null, NEW i \in Ids
        PROVE  NewState(r)'[i] = Done(asked, rows)[i]
    <2>1. DOMAIN rows = Ids /\ rows = [k \in Ids |-> rows[k]] /\ rows[i] \in Rows \cup {Null}
      BY DEF WellTyped
    <2>2. Done(asked, rows)[i] = IF i = r THEN row
                                 ELSE IF row.table = "variant" /\ i = row.parent /\ rows[i] # Null
                                   THEN Changed(rows[i], Marked) ELSE rows[i]
      BY <1>4, <2>1, DoneAt
    <2>3. row.table = "variant" /\ i = row.parent /\ rows[i] # Null => Changed(rows[i], Marked) = rows[i]
      <3> SUFFICES ASSUME row.table = "variant", i = row.parent, rows[i] # Null
                   PROVE  Changed(rows[i], Marked) = rows[i]
        OBVIOUS
      <3>1. rows[i] \in Rows /\ rows[i].mark = TRUE
        BY <1>1, <1>9, <2>1, RowColumns
      <3>2. Changed(rows[i], Marked) = [rows[i] EXCEPT !["mark"] = TRUE]
        BY DEF Changed, Marked
      <3>3. rows[i] = [table |-> rows[i].table, code |-> rows[i].code, parent |-> rows[i].parent,
                       mark |-> rows[i].mark]
        BY <3>1, RowColumns
      <3> QED BY <3>1, <3>2, <3>3
    <2> QED BY <1>8, <2>2, <2>3
  <1>10. \A i \in Ids : Inserted(r)'[i] = IF i = r THEN row ELSE rows[i]
    BY <1>2, <1>4 DEF Inserted
  <1>11. AsPlanned(r)'
    BY <1>1, <1>2, <1>4, <1>8, <1>9, <1>10 DEF AsPlanned
  <1> QED BY <1>2, <1>7, <1>11 DEF UpToDate

\* So has one that comes in to change a row.
LEMMA ChangingRaces ==
  ASSUME WellTyped, NEW tab, Fits(tab), NEW r \in Requests, pc[r] = "idle", Changing(r)
  PROVE  StaysNear(r)' /\ UpToDate(r)'
  <1>1. PICK i \in Ids \ {r} : \E change, refers, kids :
    /\ Is(i, rows[i].table) /\ Suits(change, rows[i].table)
    /\ refers \subseteq Ids \cup {Null} /\ i \in refers
    /\ rows[i].parent # Null => rows[i].parent \in refers
    /\ change.field = "parent" => change.value \in refers
    /\ kids # Null => /\ kids = [k \in Children(rows, i, rows[i].table) |-> rows[k]]
                      /\ Children(rows, i, rows[i].table) \subseteq refers
    /\ Begin(r, [op |-> "change", id |-> i, row |-> Null, change |-> change], refers,
             [row |-> Changed(rows[i], change), kids |-> kids, product |-> Null], NoWrites, "select")
    BY Zenon DEF Changing
  <1>2. PICK change, refers, kids :
    /\ Is(i, rows[i].table) /\ Suits(change, rows[i].table)
    /\ refers \subseteq Ids \cup {Null} /\ i \in refers
    /\ rows[i].parent # Null => rows[i].parent \in refers
    /\ change.field = "parent" => change.value \in refers
    /\ kids # Null => /\ kids = [k \in Children(rows, i, rows[i].table) |-> rows[k]]
                      /\ Children(rows, i, rows[i].table) \subseteq refers
    /\ Begin(r, [op |-> "change", id |-> i, row |-> Null, change |-> change], refers,
             [row |-> Changed(rows[i], change), kids |-> kids, product |-> Null], NoWrites, "select")
    BY <1>1
  <1> DEFINE asked == [op |-> "change", id |-> i, row |-> Null, change |-> change]
             entity == [row |-> Changed(rows[i], change), kids |-> kids, product |-> Null]
             K == Children(rows, i, rows[i].table)
  <1>3. /\ pc'[r] = "select" /\ ask'[r] = asked /\ near'[r] = refers \ {Null} /\ target'[r] = i
        /\ held'[r] = entity /\ plan'[r] = NoWrites /\ out'[r] = out[r]
        /\ UNCHANGED <<family, rows, ideal>>
    <2>1. Begin(r, asked, refers, entity, NoWrites, "select")
      BY <1>2
    <2>2. PerRequest /\ asked.id = i
      BY DEF WellTyped
    <2> HIDE DEF asked, entity
    <2> QED BY <2>1, <2>2, BeginMoves
  <1>4. asked.op = "change" /\ asked.id = i /\ asked.change = change
    OBVIOUS
  <1>5. /\ rows[i] \in Rows /\ rows[i] # Null /\ rows[i].parent \in Ids \cup {Null} /\ i # Null
    BY <1>2, RowColumns, NullIsNothing DEF WellTyped, Is
  <1>6. entity.row = Changed(rows[i], change) /\ entity.kids = kids /\ entity.row.table = rows[i].table
    BY <1>2, <1>5, ChangedRow
  <1>7. DOMAIN out[r] = {} /\ DOMAIN plan'[r] = {}
    BY <1>3, NothingWritten DEF WellTyped, Consistent, Working
  <1>8. kids # Null => DOMAIN kids = K /\ (\A k \in K : kids[k] = rows[k]) /\ K \subseteq refers
                       /\ \A k \in K : k \in Ids /\ k # Null
    <2>1. \A k \in K : k \in Ids /\ k # Null
      BY NullIsNothing DEF Children, ChildrenIn
    <2>2. kids # Null => kids = [k \in K |-> rows[k]] /\ K \subseteq refers
      BY <1>2
    <2> HIDE DEF K
    <2> QED BY <2>1, <2>2
  <1>9. change.field = "parent" => change.value # Null
    BY <1>2, NullIsNothing DEF Suits
  <1> HIDE DEF asked, entity
  <1>10. StaysNear(r)'
    BY <1>2, <1>3, <1>4, <1>5, <1>7, <1>9 DEF StaysNear
  <1>11. \A k \in Ids : Seen(r)'[k] = rows[k] /\ Inserted(r)'[k] = rows[k]
    BY <1>3, <1>4, <1>7 DEF Seen, Inserted
  <1>12. Children(rows', target'[r], held'[r].row.table) = K
    BY <1>3, <1>6
  <1> HIDE DEF K
  <1>13. AsRead(r)'
    <2>1. Children(rows, target[r], held[r].row.table)' = K
      BY <1>12
    <2> QED BY <1>2, <1>3, <1>4, <1>5, <1>6, <1>8, <1>11, <2>1 DEF AsRead
  <1> QED BY <1>3, <1>10, <1>13 DEF UpToDate

\* So has one that comes in to delete a row.
LEMMA DeletingRaces ==
  ASSUME WellTyped, NEW tab, Fits(tab), Keyed(rows), NEW r \in Requests, pc[r] = "idle", Deleting(r)
  PROVE  StaysNear(r)' /\ UpToDate(r)'
  <1>1. PICK i \in Ids \ {r}, t \in family \cap (HardRemoved \cup DeletedById) :
          /\ Is(i, t) \/ t \in DeletedById
          /\ Begin(r, [op |-> "delete", id |-> i, row |-> Null, change |-> Null],
               {i} \cup Children(rows, i, t), Null, NoWrites, "remove")
    BY DEF Deleting
  <1> DEFINE asked == [op |-> "delete", id |-> i, row |-> Null, change |-> Null]
             refers == {i} \cup Children(rows, i, t)
  <1>2. /\ pc'[r] = "remove" /\ ask'[r] = asked /\ near'[r] = refers \ {Null} /\ target'[r] = i
        /\ plan'[r] = NoWrites /\ out'[r] = out[r]
        /\ UNCHANGED <<family, rows, ideal>>
    <2>1. Begin(r, asked, refers, Null, NoWrites, "remove")
      BY <1>1
    <2>2. PerRequest /\ asked.id = i
      BY DEF WellTyped
    <2> HIDE DEF asked, refers
    <2> QED BY <2>1, <2>2, BeginMoves
  <1>3. asked.op = "delete" /\ asked.id = i /\ i # Null /\ i \in refers
    BY NullIsNothing
  <1>4. DOMAIN out[r] = {} /\ DOMAIN plan'[r] = {}
    BY <1>2, NothingWritten DEF WellTyped, Consistent, Working
  <1>5. ASSUME NEW k \in Ids, rows[k] # Null, rows[k].parent = i
        PROVE  k \in refers /\ k # Null
    <2>1. rows[k] \in Rows /\ k # Null /\ rows[k].table = tab[k] /\ tab[k] \in family \cup {"none"}
      BY <1>5, NullIsNothing DEF WellTyped, Fits, Fit
    <2>2. /\ rows[k].table \in WithParent /\ rows[k].table \in Tables
          /\ rows[i] # Null /\ rows[i].table = ParentTable[rows[k].table]
      BY <1>3, <1>5, <2>1, KeyedAt, RowColumns
    <2>3. t \notin DeletedById
      <3> SUFFICES ASSUME t \in DeletedById PROVE FALSE
        OBVIOUS
      <3>1. family = {"paymentTerm"}
        BY DEF WellTyped, Families, DeletedById
      <3>2. rows[k].table = "paymentTerm"
        BY <2>1, <2>2, <3>1, TableNames
      <3> QED BY <2>2, <3>2, TableNames
    <2>4. rows[i].table = t /\ t \in HardRemoved
      BY <1>1, <2>3 DEF Is
    <2>5. t = "employee" /\ rows[k].table = "contract"
      <3>1. rows[k].table \in {"contract", "variant", "translation", "category", "location"}
        BY <2>2, TableNames
      <3>2. ParentTable["contract"] = "employee" /\ ParentTable["variant"] = "product"
            /\ ParentTable["translation"] = "product" /\ ParentTable["category"] = "category"
            /\ ParentTable["location"] = "location"
        BY DEF ParentTable
      <3> QED BY <2>2, <2>4, <3>1, <3>2 DEF HardRemoved
    <2>6. "employee" \in DOMAIN LoadedChildren /\ LoadedChildren["employee"] = "contract"
      BY DEF LoadedChildren
    <2>7. k \in Children(rows, i, t)
      BY <1>5, <2>5, <2>6 DEF Children, ChildrenIn
    <2> QED BY <2>1, <2>7
  <1> HIDE DEF asked, refers
  <1>6. StaysNear(r)'
    BY <1>2, <1>3, <1>4 DEF StaysNear
  <1>7. AsFound(r)'
    BY <1>2, <1>5 DEF AsFound
  <1> QED BY <1>2, <1>6, <1>7 DEF UpToDate

\* As long as nothing is committed, only the request that moves has to be looked at.
LEMMA RacesQuiet ==
  ASSUME WellTyped, Races, NEW r \in Requests, UNCHANGED <<rows, ideal>>, raced \subseteq raced',
         \A o \in Others(r) : Unmoved(o), \A q \in Requests : Meets(q)', StaysNear(r)', UpToDate(r)'
  PROVE  Races'
  <1>1. ASSUME NEW q \in Requests
        PROVE  StaysNear(q)' /\ UpToDate(q)'
    <2>1. CASE q = r
      BY <2>1
    <2>2. CASE q # r
      BY <2>2, UnmovedRaces DEF Others, Races
    <2> QED BY <2>1, <2>2
  <1>2. UndisturbedRowsAreAsAsked'
    BY DEF UndisturbedRowsAreAsAsked, Races
  <1> QED BY <1>1, <1>2 DEF Races

\* Races are kept by every step.
LEMMA RacesKept == Types /\ Keys /\ Races /\ [Next]_vars => Races'
  <1> SUFFICES ASSUME WellTyped, NEW tab, Fits(tab), Keys, Races, [Next]_vars
               PROVE  Races'
    BY DEF Types
  <1>1. /\ PerRequest /\ Keyed(rows)
        /\ \A q \in Requests : Meets(q) /\ StaysNear(q) /\ UpToDate(q)
    BY DEF WellTyped, Keys, Races
  <1>2. ASSUME NEW r \in Requests, NEW how \in Answered, Gone(r, how)
        PROVE  StaysNear(r)' /\ UpToDate(r)'
    BY <1>2, GoneRaces, NothingWritten DEF Gone
  <1>3. ASSUME NEW r \in Requests, \A o \in Others(r) : Unmoved(o), near'[r] = near[r] \/ near'[r] = {},
               raced' = raced
        PROVE  \A q \in Requests : Meets(q)'
    <2>1. \A q \in Requests : near'[q] = near[q] \/ near'[q] = {}
      BY <1>3 DEF Others, Unmoved
    <2> QED BY <1>1, <1>3, <2>1, MeetsKept
  <1>4. ASSUME NEW r \in Requests, Refuse(r)
        PROVE  Races'
    <2>1. /\ Gone(r, "refused") /\ \A o \in Others(r) : Unmoved(o)
          /\ UNCHANGED <<rows, ideal>> /\ raced' = raced
      BY <1>1, <1>4, RefuseMoves
    <2>2. StaysNear(r)' /\ UpToDate(r)'
      BY <1>2, <2>1 DEF Answered
    <2>3. \A q \in Requests : Meets(q)'
      BY <1>3, <2>1 DEF Gone
    <2> QED BY <2>1, <2>2, <2>3, RacesQuiet
  <1>5. ASSUME NEW r \in Requests, Receive(r)
        PROVE  Races'
    <2>1. pc[r] = "idle" /\ (Refuse(r) \/ Creating(r) \/ Changing(r) \/ Deleting(r))
      BY <1>5, Received
    <2>2. ASSUME Creating(r) \/ Changing(r) \/ Deleting(r)
          PROVE  Races'
      <3>1. (\A o \in Others(r) : Unmoved(o)) /\ UNCHANGED <<rows, ideal>>
        BY <2>1, <2>2, CreatingConsistent, ChangingConsistent, DeletingConsistent
      <3>2. StaysNear(r)' /\ UpToDate(r)'
        BY <1>1, <2>1, <2>2, CreatingRaces, ChangingRaces, DeletingRaces
      <3>3. /\ raced \subseteq raced'
            /\ \A o \in Others(r) : near'[r] \cap near[o] # {} => near'[r] \cup near[o] \subseteq raced'
        BY <2>2, ArrivalMeets
      <3>4. \A o \in Others(r) : near'[o] = near[o]
        BY <3>1 DEF Unmoved
      <3>5. \A q \in Requests : Meets(q)'
        BY <1>1, <3>3, <3>4, MeetsArrival
      <3> QED BY <3>1, <3>2, <3>3, <3>5, RacesQuiet
    <2> QED BY <1>4, <2>1, <2>2
  <1>6. ASSUME NEW r \in Requests, SelectForSave(r) \/ Stored(r) \/ Removed(r), \A o \in Others(r) : Unmoved(o),
               UNCHANGED <<rows, ideal, raced>>, near'[r] = near[r]
        PROVE  Races'
    <2>1. StaysNear(r)' /\ UpToDate(r)'
      BY <1>1, <1>6, SelectRaces, StoredRaces, RemovedRaces
    <2>2. \A q \in Requests : Meets(q)'
      BY <1>3, <1>6
    <2> QED BY <1>6, <2>1, <2>2, RacesQuiet
  <1>7. ASSUME NEW r \in Requests, SelectForSave(r)
        PROVE  Races'
    BY <1>1, <1>6, <1>7, SelectMoves
  <1>8. ASSUME NEW r \in Requests, Write(r)
        PROVE  Races'
    <2>1. CASE Refuse(r)
      BY <1>4, <2>1
    <2>2. CASE Stored(r) /\ PerRequest' /\ \A o \in Others(r) : Unmoved(o)
      BY <1>6, <2>2 DEF Stored
    <2> QED BY <1>1, <1>8, <2>1, <2>2, WriteMoves
  <1>9. ASSUME NEW r \in Requests, Remove(r)
        PROVE  Races'
    <2>1. CASE Refuse(r)
      BY <1>4, <2>1
    <2>2. CASE Removed(r) /\ PerRequest' /\ \A o \in Others(r) : Unmoved(o)
      BY <1>6, <2>2 DEF Removed
    <2> QED BY <1>1, <1>9, <2>1, <2>2, RemoveMoves
  <1>10. ASSUME NEW r \in Requests, Commit(r)
         PROVE  Races'
    <2>1. /\ Gone(r, "ok") /\ \A o \in Others(r) : Unmoved(o)
          /\ pc[r] = "commit" /\ pc[r] \in Working /\ rows' = Seen(r) /\ ideal' = Done(ask[r], ideal)
          /\ raced' = raced
      BY <1>1, <1>10, CommitMoves DEF Working
    <2>2. StaysNear(r)' /\ UpToDate(r)'
      BY <1>2, <2>1 DEF Answered
    <2>3. ASSUME NEW o \in Others(r)
          PROVE  StaysNear(o)' /\ UpToDate(o)'
      <3>1. CASE pc[o] \in Working
        BY <2>1, <3>1, CommitRaces
      <3>2. CASE pc[o] \notin Working
        <4>1. o \in Requests /\ pc[o] \in {"idle"} \cup Answered
              /\ DOMAIN plan[o] = {} /\ DOMAIN out[o] = {}
          BY <3>2 DEF Others, WellTyped, Consistent
        <4>2. pc'[o] \in {"idle"} \cup Answered /\ DOMAIN plan'[o] = {} /\ DOMAIN out'[o] = {}
          BY <2>1, <4>1 DEF Unmoved
        <4> QED BY <4>1, <4>2, GoneRaces
      <3> QED BY <3>1, <3>2
    <2>4. \A q \in Requests : Meets(q)'
      BY <1>3, <2>1 DEF Gone
    <2>5. ASSUME NEW i \in Ids \ raced
          PROVE  rows'[i] = ideal'[i]
      <3>1. Seen(r)[i] = Done(ask[r], rows)[i]
        BY <1>1, <2>1 DEF UpToDate, AsWritten
      <3>2. Done(ask[r], rows)[i] = Effect(ask[r], i, rows[i])
        BY <2>1, DoneLocal DEF WellTyped
      <3>3. Done(ask[r], ideal)[i] = Effect(ask[r], i, ideal[i])
        BY <2>1, DoneLocal DEF WellTyped
      <3>4. rows[i] = ideal[i]
        BY DEF Races, UndisturbedRowsAreAsAsked
      <3> QED BY <2>1, <3>1, <3>2, <3>3, <3>4
    <2>6. UndisturbedRowsAreAsAsked'
      BY <2>1, <2>5 DEF UndisturbedRowsAreAsAsked
    <2> QED BY <2>2, <2>3, <2>4, <2>6 DEF Races, Others
  <1>11. ASSUME ServerCrash
         PROVE  Races'
    <2>1. ASSUME NEW r \in Requests
          PROVE  StaysNear(r)' /\ UpToDate(r)'
      <3>1. pc'[r] \in {"idle"} \cup Answered
        BY <1>11, CrashMoves DEF WellTyped, Consistent, Answered
      <3> QED BY <1>11, <3>1, CrashMoves, GoneRaces
    <2>2. \A q \in Requests : Meets(q)'
      BY <1>1, <1>11, CrashMoves, MeetsKept
    <2>3. UndisturbedRowsAreAsAsked'
      BY <1>11, CrashMoves DEF UndisturbedRowsAreAsAsked, Races
    <2> QED BY <2>1, <2>2, <2>3 DEF Races
  <1>12. ASSUME UNCHANGED vars
         PROVE  Races'
    <2>1. UNCHANGED <<family, rows, ideal, raced, pc, ask, near, target, held, plan, out>>
      BY <1>12 DEF vars
    <2>2. \A q \in Requests : StaysNear(q)' /\ UpToDate(q)'
      BY <1>1, <2>1, UnmovedRaces DEF Unmoved
    <2>3. \A q \in Requests : Meets(q)'
      BY <1>1, <2>1, MeetsKept
    <2>4. UndisturbedRowsAreAsAsked'
      BY <2>1 DEF UndisturbedRowsAreAsAsked, Races
    <2> QED BY <2>2, <2>3, <2>4 DEF Races
  <1> QED
    BY <1>5, <1>7, <1>8, <1>9, <1>10, <1>11, <1>12 DEF Next, Step, Settled

\* At the start nobody is at work.
LEMMA RacesInitially == Init => Races
  <1> SUFFICES ASSUME Init PROVE Races
    OBVIOUS
  <1>1. \A r \in Requests : /\ pc[r] = "idle" /\ near[r] = {} /\ DOMAIN plan[r] = {} /\ DOMAIN out[r] = {}
    BY NothingWritten DEF Init
  <1>2. \A r \in Requests : Meets(r) /\ StaysNear(r) /\ UpToDate(r)
    BY <1>1 DEF Meets, StaysNear, UpToDate, Working
  <1>3. UndisturbedRowsAreAsAsked
    BY DEF Init, UndisturbedRowsAreAsAsked
  <1> QED BY <1>2, <1>3 DEF Races

\* A row that no two requests were at work on at once is what the acknowledged ones
\* made it, one after the other, whatever else was saved, refused or lost: save() writes
\* back, with the change, only what the services read and still is so.
THEOREM UndisturbedRows == Spec => []UndisturbedRowsAreAsAsked
  <1>1. Init => Types /\ Keys /\ Races
    BY TypesInitially, KeysInitially, RacesInitially
  <1>2. Types /\ Keys /\ Races /\ [Next]_vars => (Types /\ Keys /\ Races)'
    BY TypesKept, KeysKept, RacesKept
  <1>3. Types /\ Keys /\ Races => UndisturbedRowsAreAsAsked
    BY DEF Races
  <1> QED BY <1>1, <1>2, <1>3, PTL DEF Spec
================================================================================
