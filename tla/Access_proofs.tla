------------------------------ MODULE Access_proofs -----------------------------
(***************************************************************************)
(* Theorems about Access: type correctness, no link outlives its role, and *)
(* the cache is what the roles grant.                                      *)
(*                                                                         *)
(* The invariants come in layers, each inductive beside those before it.   *)
(* TypeInv says where a process is and what it then has in hand; LinksInv, *)
(* who may add or have deleted links; UsersInv, that users stay; and       *)
(* HistoryInv, that processes noted as undisturbed have users and roles of *)
(* their own, and write no others' rows.  RightInv then follows each       *)
(* process from the check to the commit: what its users' caches will be is *)
(* what it sees their roles to grant (Keeps).                              *)
(***************************************************************************)
EXTENDS Access, TLAPS

USE DEF Working, Ended

(* Where each process is, and what it then has in hand.                        *)

RoleRows == {Role(r) : r \in Roles}
Busy == {"delete", "select", "write", "list"}

\* Functions on the processes and on the rows.
AreFunctions ==
  /\ db = [c \in Rows |-> db[c]] /\ out = [p \in Procs |-> out[p]]
  /\ pc = [p \in Procs |-> pc[p]] /\ held = [p \in Procs |-> held[p]]
  /\ plan = [p \in Procs |-> plan[p]] /\ todo = [p \in Procs |-> todo[p]]
  /\ next = [p \in Procs |-> next[p]] /\ work = [p \in Procs |-> work[p]]

Typed(p) ==
  /\ out[p] = [c \in DOMAIN out[p] |-> out[p][c]] /\ DOMAIN out[p] \subseteq Rows
  /\ \A c \in DOMAIN out[p] : out[p][c] \in Values(c)
  /\ pc[p] \in {"idle"} \cup Working \cup Ended
  /\ held[p] \in Entities \cup {Null} /\ todo[p] \subseteq Users
  /\ next[p] \in {"commit", "list", "sync", Null}
  /\ work[p] \in Tasks \cup {Null}

\* What it may have planned: the row of its entity and its links.
Fits(e, f) ==
  /\ f = [c \in DOMAIN f |-> f[c]] /\ DOMAIN f \subseteq {e.row} \cup LinkRows(e)
  /\ \A c \in DOMAIN f :
       f[c] \in IF c \in UserRows THEN (SUBSET Permissions) \cup {Null}
                ELSE IF c \in RoleRows THEN {TRUE, Null} ELSE BOOLEAN

Listing(p) == pc[p] = "list" \/ (pc[p] \in {"select", "write"} /\ next[p] = "list")
Placed(p) ==
  /\ IF pc[p] \in Working THEN work[p] # Null
     ELSE out[p] = NoRows /\ held[p] = Null /\ todo[p] = {} /\ work[p] = Null
  /\ pc[p] \in Busy => held[p] # Null /\ held[p].row \in UserRows \cup RoleRows
  /\ pc[p] = "delete" \/ Listing(p) => held[p].row \in RoleRows
  /\ pc[p] = "delete" => out[p] = NoRows
  /\ pc[p] \in {"select", "write"} => next[p] \in {"commit", "list", "sync"}
  /\ IF pc[p] = "write" THEN Fits(held[p], plan[p]) ELSE plan[p] = NoRows

\* The synchronisation at the start.
BootPlaced == pc[Boot] \notin Ended /\ (server # "boot" => pc[Boot] = "idle")

TypeInv ==
  /\ AreFunctions
  /\ \A c \in Rows : db[c] \in Values(c)
  /\ \A p \in Procs : Typed(p) /\ Placed(p)
  /\ BootPlaced
  /\ server \in {"down", "boot", "up"} /\ policed \in BOOLEAN /\ stale \subseteq Users

--------------------------------------------------------------------------------
(* Links and roles.                                                            *)

LinksOf(r) == {c \in Rows : LinksRole(c, r)}
Deletes(p, r) == Role(r) \in DOMAIN out[p] /\ ~out[p][Role(r)]

\* Who adds a link sees its role, and nobody deletes it.
AddedHaveRoles ==
  \A p \in Procs, r \in Roles : \A c \in LinksOf(r) :
    c \in DOMAIN out[p] /\ out[p][c] => Sees(p, Role(r)) /\ \A o \in Procs : ~Deletes(o, r)
\* Who deletes a role sees no link of it left.
DeletedHaveNone ==
  \A p \in Procs, r \in Roles :
    Deletes(p, r) => pc[p] = "commit" /\ \A c \in LinksOf(r) : ~Sees(p, c)

LinksInv == LinksHaveRoles /\ AddedHaveRoles /\ DeletedHaveNone

--------------------------------------------------------------------------------
(* The cache.                                                                  *)

AtWork(p) == work[p] # Null
Alone(p) == work[p] # Null /\ work[p].alone

\* The users whose rows a process may write.
Touched(p) == IF work[p].changes = {} THEN work[p].users ELSE work[p].users \cup stale
Within(p, c) ==
  /\ \A u \in Users : c = User(u) \/ (\E r \in Roles : c = Has(u, r)) => u \in Touched(p)
  /\ \A r \in Roles : c = Role(r) \/ (\E q \in Permissions : c = Grants(r, q)) => r \in work[p].changes

Bounded(p) ==
  /\ work[p].fixes \subseteq work[p].users /\ work[p].breaks \subseteq work[p].users
  /\ todo[p] \subseteq Touched(p)
  /\ \A c \in DOMAIN out[p] : Within(p, c)
  /\ pc[p] \in Busy => Within(p, held[p].row)
  /\ \A r \in work[p].changes, u \in Users : db[Has(u, r)] => u \in Touched(p)

\* History: who is disturbed leaves its users stale.
Recorded(p) == ~work[p].alone => work[p].users \subseteq stale
Apart ==
  \A p, o \in Procs :
    Alone(p) /\ AtWork(o) /\ o # p => ~Disturb(work[o], work[p]) /\ ~Disturb(work[p], work[o])

\* Users are there for good.
UsersStay(p) ==
  /\ \A u \in Users : User(u) \in DOMAIN out[p] => out[p][User(u)] # Null
  /\ \A u \in Users, r \in Roles : Has(u, r) \in DOMAIN out[p] /\ out[p][Has(u, r)] => db[User(u)] # Null
  /\ \A u \in todo[p] : db[User(u)] # Null
  /\ \A u \in Users : pc[p] \in Busy /\ held[p].row = User(u) => db[User(u)] # Null
HoldersAreUsers == \A u \in Users, r \in Roles : db[Has(u, r)] => db[User(u)] # Null

\* The cache of u once p has saved what it holds.
WillBe(p, u) ==
  IF pc[p] = "select" /\ held[p].row = User(u) /\ held[p].cache # Null THEN held[p].cache
  ELSE IF pc[p] = "write" /\ User(u) \in DOMAIN plan[p] /\ plan[p][User(u)] # Null
       THEN plan[p][User(u)] ELSE Sees(p, User(u))

\* The users about whose caches p owes nothing, or not yet.
Open(p) ==
  todo[p] \cup ((stale \cup work[p].breaks) \ work[p].fixes)
  \cup IF Listing(p) THEN work[p].users ELSE {}

Keeps(p) ==
  /\ \A u \in work[p].users \ Open(p) :
       /\ WillBe(p, u) \in {Null, CalculatePermissions(p, u)}
       /\ pc[p] = "select" /\ held[p].row = User(u) => held[p].links \in {Null, RolesOf(p, u)}
       /\ pc[p] = "write" => \A r \in Roles : Has(u, r) \notin DOMAIN plan[p]
  /\ \A r \in Roles : pc[p] \in {"select", "write"} /\ held[p].row = Role(r) =>
       IF next[p] = "list" THEN \A u \in work[p].users : Sees(p, Has(u, r))
       ELSE IF pc[p] = "select" THEN held[p].links = GrantsOf(p, r)
       ELSE \A q \in Permissions : Grants(r, q) \notin DOMAIN plan[p]
  /\ \A r \in Roles : pc[p] = "list" /\ held[p].row = Role(r) =>
       \A u \in work[p].users : Sees(p, Has(u, r))
  /\ pc[p] = "delete" => work[p].users \subseteq work[p].breaks \ work[p].fixes
  /\ pc[p] \in {"delete", "commit"} \/ (pc[p] \in {"select", "write"} /\ next[p] = "commit") =>
       p = Boot \/ todo[p] = {}

BootKeeps ==
  AtWork(Boot) =>
    /\ work[Boot].changes = {}
    /\ \A u \in work[Boot].users \ stale :
         Sees(Boot, User(u)) \in {Null, CalculatePermissions(Boot, u)}
    /\ pc[Boot] \in {"sync", "select", "write", "commit"}
    /\ work[Boot].breaks = {}
    /\ pc[Boot] \in {"select", "write"} => \E u \in Users \ todo[Boot] : held[Boot].row = User(u)

RightInv == CacheMatchesRoles /\ BootKeeps /\ \A p \in Procs : Alone(p) => Keeps(p)

--------------------------------------------------------------------------------
(* Rows.                                                                       *)

\* The five kinds of rows, and what is stored in each.
LEMMA RowKinds ==
  /\ \A u \in Users : User(u) \in Rows /\ User(u) \in UserRows /\ Values(User(u)) = (SUBSET Permissions) \cup {Null}
  /\ \A r \in Roles : Role(r) \in Rows /\ Role(r) \notin UserRows /\ Values(Role(r)) = BOOLEAN
  /\ \A q \in Permissions :
       Permission(q) \in Rows /\ Permission(q) \notin UserRows /\ Values(Permission(q)) = BOOLEAN
  /\ \A u \in Users, r \in Roles :
       Has(u, r) \in Rows /\ Has(u, r) \notin UserRows /\ Values(Has(u, r)) = BOOLEAN
  /\ \A r \in Roles, q \in Permissions :
       Grants(r, q) \in Rows /\ Grants(r, q) \notin UserRows /\ Values(Grants(r, q)) = BOOLEAN
<1>1. \A u \in Users : User(u) \in Rows /\ User(u) \in UserRows /\ User(u)[1] = "users"
  BY DEF Rows, UserRows, User
<1>2. \A r \in Roles : Role(r) \in Rows /\ Role(r)[1] = "roles"
  BY DEF Rows, Role
<1>3. \A q \in Permissions : Permission(q) \in Rows /\ Permission(q)[1] = "permissions"
  BY DEF Rows, Permission
<1>4. \A u \in Users, r \in Roles : Has(u, r) \in Rows /\ Has(u, r)[1] = "user_roles"
  BY DEF Rows, Has
<1>5. \A r \in Roles, q \in Permissions : Grants(r, q) \in Rows /\ Grants(r, q)[1] = "role_permissions"
  BY DEF Rows, Grants
<1>6. \A c \in UserRows : c[1] = "users"
  BY <1>1 DEF UserRows
<1> QED
  BY <1>1, <1>2, <1>3, <1>4, <1>5, <1>6 DEF Values

\* Every row is of one of the kinds.
LEMMA KindsOfRows ==
  ASSUME NEW c \in Rows
  PROVE  \/ \E u \in Users : c = User(u)
         \/ \E r \in Roles : c = Role(r)
         \/ \E q \in Permissions : c = Permission(q)
         \/ \E u \in Users, r \in Roles : c = Has(u, r)
         \/ \E r \in Roles, q \in Permissions : c = Grants(r, q)
BY DEF Rows, UserRows

\* A row says what it is a row of.
LEMMA RowsDiffer ==
  /\ \A u, v : User(u) = User(v) => u = v
  /\ \A r, s : Role(r) = Role(s) => r = s
  /\ \A u, v, r, s : Has(u, r) = Has(v, s) => u = v /\ r = s
  /\ \A r, s, q, k : Grants(r, q) = Grants(s, k) => r = s /\ q = k
  /\ \A u, r : User(u) # Role(r)
  /\ \A u, q : User(u) # Permission(q)
  /\ \A u, v, r : User(u) # Has(v, r)
  /\ \A u, r, q : User(u) # Grants(r, q)
  /\ \A r, q : Role(r) # Permission(q)
  /\ \A r, v, s : Role(r) # Has(v, s)
  /\ \A r, s, q : Role(r) # Grants(s, q)
  /\ \A q, v, s : Permission(q) # Has(v, s)
  /\ \A q, s, k : Permission(q) # Grants(s, k)
  /\ \A u, r, s, q : Has(u, r) # Grants(s, q)
<1>1. \A u : User(u)[1] = "users" /\ User(u)[2] = u
  BY DEF User
<1>2. \A r : Role(r)[1] = "roles" /\ Role(r)[2] = r
  BY DEF Role
<1>3. \A q : Permission(q)[1] = "permissions"
  BY DEF Permission
<1>4. \A u, r : Has(u, r)[1] = "user_roles" /\ Has(u, r)[2] = u /\ Has(u, r)[3] = r
  BY DEF Has
<1>5. \A r, q : Grants(r, q)[1] = "role_permissions" /\ Grants(r, q)[2] = r /\ Grants(r, q)[3] = q
  BY DEF Grants
<1>6. /\ \A u, v : User(u) = User(v) => u = v
      /\ \A r, s : Role(r) = Role(s) => r = s
      /\ \A u, v, r, s : Has(u, r) = Has(v, s) => u = v /\ r = s
  BY ONLY <1>1, <1>2, <1>4
<1>7. \A r, s, q, k : Grants(r, q) = Grants(s, k) => r = s /\ q = k
  BY ONLY <1>5
<1>8. /\ \A u, r : User(u) # Role(r)
      /\ \A u, q : User(u) # Permission(q)
      /\ \A u, v, r : User(u) # Has(v, r)
      /\ \A u, r, q : User(u) # Grants(r, q)
  BY ONLY <1>1, <1>2, <1>3, <1>4, <1>5
<1>9. /\ \A r, q : Role(r) # Permission(q)
      /\ \A r, v, s : Role(r) # Has(v, s)
      /\ \A r, s, q : Role(r) # Grants(s, q)
  BY ONLY <1>1, <1>2, <1>3, <1>4, <1>5
<1>10. /\ \A q, v, s : Permission(q) # Has(v, s)
       /\ \A q, s, k : Permission(q) # Grants(s, k)
       /\ \A u, r, s, q : Has(u, r) # Grants(s, q)
  BY ONLY <1>1, <1>2, <1>3, <1>4, <1>5
<1> QED
  BY ONLY <1>6, <1>7, <1>8, <1>9, <1>10

\* The parts of a row.
LEMMA Parts ==
  /\ \A u : User(u)[2] = u
  /\ \A r : Role(r)[2] = r
  /\ \A u, r : Has(u, r)[2] = u /\ Has(u, r)[3] = r
  /\ \A r, q : Grants(r, q)[2] = r /\ Grants(r, q)[3] = q
BY DEF User, Role, Has, Grants

\* The links of a role.
LEMMA LinksOfRole ==
  /\ \A u \in Users, r, s \in Roles : LinksRole(Has(u, r), s) <=> r = s
  /\ \A r, s \in Roles, q \in Permissions : LinksRole(Grants(r, q), s) <=> r = s
  /\ \A u \in Users, s \in Roles : ~LinksRole(User(u), s)
  /\ \A r, s \in Roles : ~LinksRole(Role(r), s)
  /\ \A q \in Permissions, s \in Roles : ~LinksRole(Permission(q), s)
BY DEF LinksRole, Has, Grants, User, Role, Permission

LEMMA LinksOfEntity ==
  ASSUME NEW e
  PROVE  /\ \A u \in Users : e.row = User(u) => LinkRows(e) = {Has(u, r) : r \in Roles}
         /\ \A r \in Roles : e.row = Role(r) => LinkRows(e) = {Grants(r, q) : q \in Permissions}
BY RowKinds, Parts DEF LinkRows

--------------------------------------------------------------------------------
(* Values.                                                                     *)

LEMMA NullApart ==
  /\ Null \notin Entities /\ Null \notin Tasks /\ Null \notin BOOLEAN
  /\ \A s \in SUBSET Permissions : Null # s
  /\ \A s \in SUBSET Roles : Null # s
<1>1. \A b \in BOOLEAN : Null # b
  BY AccessAssumption, Zenon
<1>2. Null \notin BOOLEAN
  BY <1>1, Zenon
<1>3. \A s \in (SUBSET Permissions) \cup (SUBSET Roles) : Null # s
  BY AccessAssumption, Zenon
<1>4. Null \notin Entities /\ Null \notin Tasks
  BY AccessAssumption, Zenon
<1>5. (\A s \in SUBSET Permissions : Null # s) /\ (\A s \in SUBSET Roles : Null # s)
  BY <1>3
<1> QED
  BY <1>2, <1>4, <1>5, Zenon

LEMMA Processes ==
  /\ \A p \in Requests \cup Scripts : p \in Procs /\ p # Boot
  /\ Boot \in Procs
BY AccessAssumption DEF Procs

LEMMA NoRowsEmpty ==
  /\ NoRows = [c \in DOMAIN NoRows |-> NoRows[c]] /\ DOMAIN NoRows = {}
BY DEF NoRows

LEMMA SeenTyped ==
  ASSUME TypeInv, NEW p \in Procs
  PROVE  /\ \A c \in Rows : Sees(p, c) \in Values(c)
         /\ \A u \in Users : Sees(p, User(u)) \in (SUBSET Permissions) \cup {Null}
         /\ \A r \in Roles : Sees(p, Role(r)) \in BOOLEAN
         /\ \A u \in Users, r \in Roles : Sees(p, Has(u, r)) \in BOOLEAN
         /\ \A r \in Roles, q \in Permissions : Sees(p, Grants(r, q)) \in BOOLEAN
<1>1. \A c \in Rows : Sees(p, c) \in Values(c)
  BY DEF TypeInv, Typed, Sees
<1> QED
  BY <1>1, RowKinds

LEMMA SetsTyped ==
  ASSUME NEW p
  PROVE  /\ \A u : RolesOf(p, u) \subseteq Roles
         /\ \A r : GrantsOf(p, r) \subseteq Permissions
         /\ \A r : Holders(p, r) \subseteq Users
         /\ \A u : CalculatePermissions(p, u) \subseteq Permissions
         /\ Known(p) \subseteq Users
BY DEF RolesOf, GrantsOf, Holders, CalculatePermissions, Known

LEMMA OnlyTyped ==
  ASSUME NEW c, NEW v
  PROVE  /\ Only(c, v) = [d \in DOMAIN Only(c, v) |-> Only(c, v)[d]]
         /\ DOMAIN Only(c, v) = {c} /\ Only(c, v)[c] = v
BY DEF Only

LEMMA TaskTyped ==
  ASSUME NEW users \in SUBSET Users, NEW changes \in SUBSET Roles,
         NEW fixes \in SUBSET Users, NEW breaks \in SUBSET Users
  PROVE  /\ Task(users, changes, fixes, breaks) \in Tasks
         /\ Task(users, changes, fixes, breaks).users = users
         /\ Task(users, changes, fixes, breaks).changes = changes
         /\ Task(users, changes, fixes, breaks).fixes = fixes
         /\ Task(users, changes, fixes, breaks).breaks = breaks
BY DEF Task, Tasks

LEMMA EntityTyped ==
  ASSUME NEW row \in Rows, NEW links \in (SUBSET Roles) \cup (SUBSET Permissions) \cup {Null},
         NEW cache \in (SUBSET Permissions) \cup {Null}, NEW dirty \in BOOLEAN
  PROVE  /\ Entity(row, links, cache, dirty) \in Entities
         /\ Entity(row, links, cache, dirty) # Null
         /\ Entity(row, links, cache, dirty).row = row
         /\ Entity(row, links, cache, dirty).links = links
         /\ Entity(row, links, cache, dirty).cache = cache
         /\ Entity(row, links, cache, dirty).dirty = dirty
<1>1. Entity(row, links, cache, dirty) \in Entities
  BY DEF Entity, Entities
<1> QED
  BY <1>1, NullApart DEF Entity

--------------------------------------------------------------------------------
(* A step of one process.                                                      *)

\* A process is left alone by the step of another, which may disturb it.
WorkStays(o) ==
  work'[o] = work[o] \/ (work[o] # Null /\ work'[o] = [work[o] EXCEPT !.alone = FALSE])
Stays(o) ==
  /\ out'[o] = out[o] /\ pc'[o] = pc[o] /\ held'[o] = held[o] /\ plan'[o] = plan[o]
  /\ todo'[o] = todo[o] /\ next'[o] = next[o] /\ WorkStays(o)
Moves(p) == AreFunctions' /\ \A o \in Procs \ {p} : Stays(o)

LEMMA DisturbedTyped ==
  ASSUME TypeInv, NEW o \in Procs, WorkStays(o)
  PROVE  /\ work'[o] \in Tasks \cup {Null} /\ (work'[o] = Null <=> work[o] = Null)
         /\ work[o] # Null =>
              /\ work[o] \in Tasks /\ work'[o] \in Tasks
              /\ work'[o].users = work[o].users /\ work'[o].changes = work[o].changes
              /\ work'[o].fixes = work[o].fixes /\ work'[o].breaks = work[o].breaks
              /\ work'[o].alone => work[o].alone
<1>1. work[o] \in Tasks \cup {Null}
  BY DEF TypeInv, Typed
<1>2. CASE work'[o] = work[o]
  BY <1>1, <1>2
<1>3. CASE work[o] # Null /\ work'[o] = [work[o] EXCEPT !.alone = FALSE]
  <2>1. work[o] \in Tasks
    BY <1>1, <1>3
  <2>2. work'[o] \in Tasks /\ work'[o].users = work[o].users /\ work'[o].changes = work[o].changes
        /\ work'[o].fixes = work[o].fixes /\ work'[o].breaks = work[o].breaks /\ ~work'[o].alone
    BY <1>3, <2>1 DEF Tasks
  <2> QED
    BY <1>3, <2>1, <2>2, NullApart
<1> QED
  BY <1>2, <1>3 DEF WorkStays

LEMMA StaysTyped ==
  ASSUME TypeInv, NEW o \in Procs, Stays(o)
  PROVE  Typed(o)' /\ Placed(o)'
<1> USE DEF Stays
<1>1. work'[o] \in Tasks \cup {Null} /\ (work'[o] = Null <=> work[o] = Null)
  BY DisturbedTyped
<1>2. Typed(o) /\ Placed(o)
  BY DEF TypeInv
<1>3. Typed(o)'
  BY <1>1, <1>2 DEF Typed
<1>4. Placed(o)'
  BY <1>1, <1>2 DEF Placed, Listing
<1> QED
  BY <1>3, <1>4

LEMMA MovesTyped ==
  ASSUME TypeInv, NEW p \in Procs, Moves(p), Typed(p)', Placed(p)', BootPlaced',
         \A c \in Rows : db'[c] \in Values(c),
         server' \in {"down", "boot", "up"}, policed' \in BOOLEAN, stale' \subseteq Users
  PROVE  TypeInv'
<1>1. \A o \in Procs : Typed(o)' /\ Placed(o)'
  BY StaysTyped DEF Moves
<1> QED
  BY <1>1 DEF TypeInv, Moves, Values

\* Taking up work.
LEMMA TakeTyped ==
  ASSUME TypeInv, NEW p \in Procs, NEW w \in Tasks, Take(p, w)
  PROVE  /\ work' = [o \in Procs |-> work'[o]] /\ \A o \in Procs \ {p} : WorkStays(o)
         /\ work'[p] \in Tasks /\ work'[p] # Null
         /\ work'[p].users = w.users /\ work'[p].changes = w.changes
         /\ work'[p].fixes = w.fixes /\ work'[p].breaks = w.breaks
         /\ stale' \subseteq Users /\ stale \subseteq stale'
         /\ work'[p].alone => stale' = stale
         /\ \A o \in Procs \ {p} : work[o] # Null =>
              IF Disturb(work[o], w) THEN ~work'[o].alone /\ ~work'[p].alone /\ work[o].users \subseteq stale'
              ELSE work'[o] = work[o]
         /\ ~work'[p].alone => w.users \subseteq stale'
<1> DEFINE met == {o \in Procs \ {p} : work[o] # Null /\ Disturb(work[o], w)}
<1> DEFINE more == w.users \cup UNION {work[o].users : o \in met}
<1>1. /\ work' = [o \in Procs |->
                    IF o \in met THEN [work[o] EXCEPT !.alone = FALSE]
                    ELSE IF o = p THEN [w EXCEPT !.alone = (met = {})] ELSE work[o]]
      /\ stale' = IF met = {} THEN stale ELSE stale \cup more
  BY Zenon DEF Take
<1>2. \A o \in Procs : work[o] \in Tasks \cup {Null}
  BY DEF TypeInv, Typed
<1>3. /\ \A o \in met : work[o] \in Tasks /\ work[o].users \subseteq Users
      /\ w.users \subseteq Users /\ stale \subseteq Users
  BY <1>2 DEF Tasks, TypeInv
<1>4. stale' \subseteq Users /\ stale \subseteq stale' /\ \A o \in met : work[o].users \subseteq stale'
  BY <1>1, <1>3
<1>5. /\ work' = [o \in Procs |-> work'[o]]
      /\ \A o \in met : work'[o] = [work[o] EXCEPT !.alone = FALSE]
      /\ \A o \in Procs \ {p} : o \notin met => work'[o] = work[o]
  BY <1>1
<1>6. \A o \in Procs \ {p} : WorkStays(o)
  BY <1>5 DEF WorkStays
<1>7. \A o \in met : ~work'[o].alone
  <2>1. \A v \in Tasks : ~[v EXCEPT !.alone = FALSE].alone
    BY DEF Tasks
  <2> QED
    BY <1>3, <1>5, <2>1
<1>8. work'[p] = [w EXCEPT !.alone = (met = {})]
  BY <1>1
<1>9. /\ work'[p] \in Tasks /\ work'[p].users = w.users /\ work'[p].changes = w.changes
      /\ work'[p].fixes = w.fixes /\ work'[p].breaks = w.breaks
  BY <1>8 DEF Tasks
<1>10. work'[p].alone <=> met = {}
  <2>1. \A b \in BOOLEAN, v \in Tasks : [v EXCEPT !.alone = b].alone = b
    BY DEF Tasks
  <2>2. work'[p].alone = (met = {})
    BY <1>8, <2>1, Zenon
  <2> QED
    BY <2>2
<1>11. (met # {} => w.users \subseteq stale') /\ (met = {} => stale' = stale)
  BY <1>1
<1>12. ASSUME NEW o \in Procs \ {p}, work[o] # Null
       PROVE  IF Disturb(work[o], w) THEN ~work'[o].alone /\ ~work'[p].alone /\ work[o].users \subseteq stale'
              ELSE work'[o] = work[o]
  BY <1>4, <1>5, <1>7, <1>10, <1>12
<1> HIDE DEF met, more
<1> QED
  BY <1>4, <1>5, <1>6, <1>9, <1>10, <1>11, <1>12, NullApart
--------------------------------------------------------------------------------
(* Type correctness, action by action.                                         *)

LEMMA IdlePlaced ==
  ASSUME TypeInv, NEW p \in Procs, pc[p] = "idle"
  PROVE  /\ out[p] = NoRows /\ plan[p] = NoRows /\ held[p] = Null /\ todo[p] = {} /\ work[p] = Null
         /\ \A c : Sees(p, c) = db[c]
<1>1. Placed(p)
  BY DEF TypeInv
<1>2. out[p] = NoRows /\ plan[p] = NoRows /\ held[p] = Null /\ todo[p] = {} /\ work[p] = Null
  BY <1>1 DEF Placed
<1> QED
  BY <1>2, NoRowsEmpty DEF Sees

LEMMA StartTyped ==
  ASSUME TypeInv, NEW p \in Requests \cup Scripts, pc[p] = "idle",
         NEW w \in Tasks, NEW e \in Entities \cup {Null}, NEW to \in {"delete", "select", "sync"},
         NEW then \in {"commit", "list", "sync", Null}, NEW users \in SUBSET Users,
         to # "sync" => e # Null /\ e.row \in UserRows \cup RoleRows,
         to = "delete" \/ (to = "select" /\ then = "list") => e.row \in RoleRows,
         to = "select" => then \in {"commit", "list", "sync"},
         Start(p, w, e, to, then, users)
  PROVE  TypeInv' /\ Moves(p)
<1>1. p \in Procs /\ p # Boot
  BY Processes
<1>2. out[p] = NoRows /\ plan[p] = NoRows /\ held[p] = Null /\ todo[p] = {}
  BY <1>1, IdlePlaced
<1>3. /\ work' = [o \in Procs |-> work'[o]] /\ \A o \in Procs \ {p} : WorkStays(o)
      /\ work'[p] \in Tasks /\ work'[p] # Null /\ stale' \subseteq Users
  BY <1>1, TakeTyped DEF Start
<1>4. AreFunctions
  BY DEF TypeInv
<1>5. /\ pc' = [pc EXCEPT ![p] = to] /\ held' = [held EXCEPT ![p] = e]
      /\ next' = [next EXCEPT ![p] = then] /\ todo' = [todo EXCEPT ![p] = users]
      /\ UNCHANGED <<db, out, plan, server, policed>>
  BY DEF Start
<1>6. /\ pc'[p] = to /\ held'[p] = e /\ next'[p] = then /\ todo'[p] = users
      /\ out'[p] = NoRows /\ plan'[p] = NoRows
  BY <1>1, <1>2, <1>4, <1>5 DEF AreFunctions
<1>7. Moves(p)
  BY <1>1, <1>3, <1>4, <1>5 DEF Moves, Stays, AreFunctions
<1>8. Typed(p)'
  BY <1>3, <1>6, NoRowsEmpty, Zenon DEF Typed
<1>9. Placed(p)'
  BY <1>3, <1>6, NullApart DEF Placed, Busy, Listing
<1>10. BootPlaced'
  BY <1>1, <1>5, <1>4, Processes DEF TypeInv, BootPlaced, AreFunctions
<1>11. \A c \in Rows : db'[c] \in Values(c)
  BY <1>5 DEF TypeInv, Values
<1> QED
  BY <1>1, <1>3, <1>5, <1>7, <1>8, <1>9, <1>10, <1>11, MovesTyped DEF TypeInv

\* A statement at once: the rows are written, and what is left is to synchronise.
LEMMA InsertTyped ==
  ASSUME TypeInv, NEW p \in Requests \cup Scripts, pc[p] = "idle",
         NEW w \in Tasks, NEW to \in {"commit", "sync"}, NEW f,
         f = [c \in DOMAIN f |-> f[c]], DOMAIN f \subseteq Rows,
         \A c \in DOMAIN f : f[c] \in Values(c), Take(p, w),
         out' = [out EXCEPT ![p] = f], pc' = [pc EXCEPT ![p] = to],
         \E users \in SUBSET Users : todo' = [todo EXCEPT ![p] = users],
         UNCHANGED <<db, held, plan, next, server, policed>>
  PROVE  TypeInv' /\ Moves(p)
<1>1. p \in Procs /\ p # Boot
  BY Processes
<1>2. plan[p] = NoRows /\ held[p] = Null
  BY <1>1, IdlePlaced
<1>3. /\ work' = [o \in Procs |-> work'[o]] /\ \A o \in Procs \ {p} : WorkStays(o)
      /\ work'[p] \in Tasks /\ work'[p] # Null /\ stale' \subseteq Users
  BY <1>1, TakeTyped
<1>4. AreFunctions
  BY DEF TypeInv
<1>5. PICK users \in SUBSET Users : todo' = [todo EXCEPT ![p] = users]
  OBVIOUS
<1>6. pc'[p] = to /\ held'[p] = Null /\ todo'[p] = users /\ out'[p] = f /\ plan'[p] = NoRows /\ next'[p] = next[p]
  BY <1>1, <1>2, <1>4, <1>5 DEF AreFunctions
<1>7. Moves(p)
  BY <1>1, <1>3, <1>4, <1>5 DEF Moves, Stays, AreFunctions
<1>8. Typed(p)'
  <2>1. \A c \in DOMAIN f : f[c] \in Values(c)'
    BY DEF Values
  <2>2. next[p] \in {"commit", "list", "sync", Null}
    BY <1>1 DEF TypeInv, Typed
  <2> QED
    BY <1>3, <1>6, <2>1, <2>2 DEF Typed
<1>9. Placed(p)'
  BY <1>3, <1>6, NullApart DEF Placed, Busy, Listing
<1>10. BootPlaced'
  BY <1>1, <1>4, Processes DEF TypeInv, BootPlaced, AreFunctions
<1>11. \A c \in Rows : db'[c] \in Values(c)
  BY DEF TypeInv, Values
<1> QED
  BY <1>1, <1>3, <1>7, <1>8, <1>9, <1>10, <1>11, MovesTyped DEF TypeInv

LEMMA FailTyped ==
  ASSUME TypeInv, NEW p \in Procs, pc[p] \in Working, Fail(p)
  PROVE  TypeInv' /\ Moves(p) /\ out'[p] = NoRows /\ work'[p] = Null /\ pc'[p] \notin Working
<1>1. AreFunctions
  BY DEF TypeInv
<1>2. /\ out'[p] = NoRows /\ held'[p] = Null /\ plan'[p] = NoRows /\ todo'[p] = {} /\ next'[p] = Null
      /\ work'[p] = Null /\ pc'[p] = IF p = Boot THEN "idle" ELSE "failed"
  BY <1>1 DEF Fail, Forget, AreFunctions
<1>3. Moves(p)
  BY <1>1 DEF Fail, Forget, Moves, Stays, WorkStays, AreFunctions
<1>4. Typed(p)'
  BY <1>2, NoRowsEmpty, Zenon DEF Typed
<1>5. Placed(p)'
  BY <1>2 DEF Placed, Busy, Listing
<1>6. BootPlaced' /\ server' \in {"down", "boot", "up"}
  BY <1>1, Processes DEF TypeInv, BootPlaced, Fail, AreFunctions
<1>7. \A c \in Rows : db'[c] \in Values(c)
  BY DEF TypeInv, Values, Fail
<1>8. policed' \in BOOLEAN /\ stale' \subseteq Users
  BY DEF TypeInv, Fail
<1>9. TypeInv'
  BY <1>3, <1>4, <1>5, <1>6, <1>7, <1>8, MovesTyped
<1> QED
  BY <1>2, <1>3, <1>9

LEMMA CommitTyped ==
  ASSUME TypeInv, NEW p \in Procs, Commit(p)
  PROVE  TypeInv' /\ Moves(p)
<1>1. AreFunctions
  BY DEF TypeInv
<1>2. \A c \in Rows : db'[c] = Sees(p, c) /\ Sees(p, c) \in Values(c)
  BY SeenTyped DEF Commit
<1>3. db' = [c \in Rows |-> db'[c]]
  BY DEF Commit
<1>4. Typed(p) /\ Placed(p) /\ pc[p] = "commit"
  BY DEF TypeInv, Commit
<1>5. CASE /\ p = Boot /\ out' = [out EXCEPT ![p] = NoRows] /\ pc' = [pc EXCEPT ![p] = "sync"]
           /\ UNCHANGED <<held, plan, todo, next, server, work, stale, policed>>
  <2>1. out'[p] = NoRows /\ pc'[p] = "sync"
    BY <1>1, <1>5 DEF AreFunctions
  <2>2. Moves(p)
    BY <1>1, <1>3, <1>5 DEF Moves, Stays, WorkStays, AreFunctions
  <2>3. Typed(p)'
    BY <1>4, <1>5, <2>1, NoRowsEmpty DEF Typed
  <2>4. Placed(p)'
    BY <1>4, <1>5, <2>1 DEF Placed, Busy, Listing
  <2>5. BootPlaced'
    BY <1>4, <1>5, <2>1 DEF TypeInv, BootPlaced
  <2>6. \A c \in Rows : db'[c] \in Values(c)
    BY <1>2
  <2>7. policed' \in BOOLEAN /\ stale' \subseteq Users /\ server' \in {"down", "boot", "up"}
    BY <1>5 DEF TypeInv
  <2> QED
    BY <2>2, <2>3, <2>4, <2>5, <2>6, <2>7, MovesTyped
<1>6. CASE /\ pc' = [pc EXCEPT ![p] = IF p = Boot THEN "idle" ELSE "ok"]
           /\ server' = IF p = Boot THEN "up" ELSE server
           /\ Forget(p) /\ work' = [work EXCEPT ![p] = Null] /\ UNCHANGED policed
           /\ stale' = LET w == work[p] IN (stale \cup w.breaks) \ (IF w.alone THEN w.fixes ELSE {})
  <2>1. /\ out'[p] = NoRows /\ held'[p] = Null /\ plan'[p] = NoRows /\ todo'[p] = {} /\ next'[p] = Null
        /\ work'[p] = Null /\ pc'[p] = IF p = Boot THEN "idle" ELSE "ok"
    BY <1>1, <1>6 DEF Forget, AreFunctions
  <2>2. Moves(p)
    BY <1>1, <1>3, <1>6 DEF Forget, Moves, Stays, WorkStays, AreFunctions
  <2>3. Typed(p)'
    BY <2>1, NoRowsEmpty, Zenon DEF Typed
  <2>4. Placed(p)'
    BY <2>1 DEF Placed, Busy, Listing
  <2>5. BootPlaced' /\ server' \in {"down", "boot", "up"}
    BY <1>1, <1>6, Processes DEF TypeInv, BootPlaced, AreFunctions
  <2>6. \A c \in Rows : db'[c] \in Values(c)
    BY <1>2
  <2>7. work[p] \in Tasks
    BY <1>4 DEF Typed, Placed
  <2>8. policed' \in BOOLEAN /\ stale' \subseteq Users
    BY <1>6, <2>7 DEF TypeInv, Tasks
  <2> QED
    BY <2>2, <2>3, <2>4, <2>5, <2>6, <2>8, MovesTyped
<1> QED
  BY <1>5, <1>6, Zenon DEF Commit

\* A row or nothing, when only a process's own variables change.
LEMMA StepTyped ==
  ASSUME TypeInv, NEW p \in Procs, Typed(p)', Placed(p)',
         out' = [out EXCEPT ![p] = out'[p]], pc' = [pc EXCEPT ![p] = pc'[p]],
         held' = [held EXCEPT ![p] = held'[p]], plan' = [plan EXCEPT ![p] = plan'[p]],
         todo' = [todo EXCEPT ![p] = todo'[p]], next' = [next EXCEPT ![p] = next'[p]],
         pc[p] \in Working, pc'[p] \in Working,
         UNCHANGED <<db, server, policed, work, stale>>
  PROVE  TypeInv' /\ Moves(p)
<1>1. AreFunctions
  BY DEF TypeInv
<1>2. Moves(p)
  BY <1>1 DEF Moves, Stays, WorkStays, AreFunctions
<1>3. BootPlaced'
  BY <1>1, Processes DEF TypeInv, BootPlaced, AreFunctions
<1>4. \A c \in Rows : db'[c] \in Values(c)
  BY DEF TypeInv
<1> QED
  BY <1>2, <1>3, <1>4, MovesTyped DEF TypeInv

LEMMA ListTyped ==
  ASSUME TypeInv, NEW p \in Procs, List(p)
  PROVE  TypeInv' /\ Moves(p)
<1>1. AreFunctions /\ Typed(p) /\ Placed(p)
  BY DEF TypeInv
<1>2. /\ todo'[p] = Holders(p, held[p].row[2]) /\ pc'[p] = "sync"
      /\ UNCHANGED <<db, out, held, plan, next, server, policed, work, stale>>
  BY <1>1 DEF List, AreFunctions
<1>3. Typed(p)'
  BY <1>1, <1>2, SetsTyped DEF Typed
<1>4. Placed(p)'
  BY <1>1, <1>2 DEF Placed, Busy, Listing, List
<1> QED
  BY <1>1, <1>2, <1>3, <1>4, StepTyped DEF List, AreFunctions

\* The entity that a synchronisation saves.
LEMMA SyncEntity ==
  ASSUME TypeInv, NEW p \in Procs, NEW u \in Users
  PROVE  LET e == Entity(User(u), RolesOf(p, u), CalculatePermissions(p, u), FALSE)
         IN /\ e \in Entities /\ e # Null /\ e.row = User(u)
            /\ e.links = RolesOf(p, u) /\ e.cache = CalculatePermissions(p, u)
<1>1. /\ User(u) \in Rows /\ RolesOf(p, u) \in (SUBSET Roles) \cup (SUBSET Permissions) \cup {Null}
      /\ CalculatePermissions(p, u) \in (SUBSET Permissions) \cup {Null}
  BY RowKinds, SetsTyped
<1> QED
  BY <1>1, EntityTyped

LEMMA SyncUserTyped ==
  ASSUME TypeInv, NEW p \in Procs, SyncUser(p)
  PROVE  TypeInv' /\ Moves(p)
<1>1. AreFunctions /\ Typed(p) /\ Placed(p) /\ pc[p] = "sync"
  BY DEF TypeInv, SyncUser
<1>2. UNCHANGED <<db, out, plan, server, policed, work, stale>>
  BY DEF SyncUser
<1>3. CASE pc' = [pc EXCEPT ![p] = "commit"] /\ UNCHANGED <<held, todo, next>>
  <2>1. pc'[p] = "commit"
    BY <1>1, <1>3 DEF AreFunctions
  <2>2. Typed(p)' /\ Placed(p)'
    BY <1>1, <1>2, <1>3, <2>1 DEF Typed, Placed, Busy, Listing
  <2> QED
    BY <1>1, <1>2, <1>3, <2>1, <2>2, StepTyped DEF AreFunctions
<1>4. ASSUME NEW u \in todo[p], todo' = [todo EXCEPT ![p] = @ \ {u}], UNCHANGED <<pc, held, next>>
      PROVE  TypeInv' /\ Moves(p)
  <2>1. todo'[p] = todo[p] \ {u}
    BY <1>1, <1>4 DEF AreFunctions
  <2>2. Typed(p)' /\ Placed(p)'
    BY <1>1, <1>2, <1>4, <2>1 DEF Typed, Placed, Busy, Listing
  <2> QED
    BY <1>1, <1>2, <1>4, <2>1, <2>2, StepTyped DEF AreFunctions
<1>5. ASSUME NEW u \in todo[p], todo' = [todo EXCEPT ![p] = @ \ {u}],
             held' = [held EXCEPT ![p] =
                        Entity(User(u), RolesOf(p, u), CalculatePermissions(p, u), FALSE)],
             pc' = [pc EXCEPT ![p] = "select"],
             next' = [next EXCEPT ![p] = IF p = Boot THEN "commit" ELSE "sync"]
      PROVE  TypeInv' /\ Moves(p)
  <2> DEFINE e == Entity(User(u), RolesOf(p, u), CalculatePermissions(p, u), FALSE)
  <2>1. /\ todo'[p] = todo[p] \ {u} /\ held'[p] = e /\ pc'[p] = "select"
        /\ next'[p] = IF p = Boot THEN "commit" ELSE "sync"
    BY <1>1, <1>5 DEF AreFunctions
  <2>2. u \in Users
    BY <1>1 DEF Typed
  <2>3. e \in Entities /\ e # Null /\ e.row \in UserRows
    BY <2>2, SyncEntity, RowKinds
  <2> HIDE DEF e
  <2>4. Typed(p)'
    BY <1>1, <1>2, <2>1, <2>3 DEF Typed
  <2>5. Placed(p)'
    BY <1>1, <1>2, <2>1, <2>3, NullApart DEF Placed, Busy, Listing
  <2> QED
    BY <1>1, <1>2, <1>5, <2>1, <2>4, <2>5, StepTyped DEF AreFunctions
<1> QED
  BY <1>3, <1>4, <1>5, Zenon DEF SyncUser

\* What the comparison finds: see Select.
Wrong(p) ==
  IF held[p].links = Null THEN {}
  ELSE {c \in LinkRows(held[p]) : Sees(p, c) # (c[3] \in held[p].links)}
Cached(p) ==
  held[p].row \in UserRows /\ held[p].cache # Null /\ held[p].cache # Sees(p, held[p].row)
Gone(p) == held[p].row \notin UserRows /\ ~Sees(p, held[p].row)
Owned(p) == IF Gone(p) THEN TRUE ELSE IF Cached(p) THEN held[p].cache ELSE Null

LEMMA Planned ==
  ASSUME TypeInv, NEW p \in Procs, Select(p)
  PROVE  /\ plan'[p] = [c \in DOMAIN plan'[p] |-> plan'[p][c]]
         /\ DOMAIN plan'[p] =
              Wrong(p) \cup IF held[p].dirty \/ Cached(p) \/ Gone(p) THEN {held[p].row} ELSE {}
         /\ \A c \in Wrong(p) : plan'[p][c] = (c[3] \in held[p].links) /\ plan'[p][c] \in BOOLEAN
         /\ held[p].row \in DOMAIN plan'[p] /\ held[p].row \notin Wrong(p) => plan'[p][held[p].row] = Owned(p)
<1> DEFINE f == [c \in Wrong(p) |-> c[3] \in held[p].links]
<1> DEFINE g == IF held[p].dirty \/ Cached(p) \/ Gone(p) THEN Only(held[p].row, Owned(p)) ELSE NoRows
<1>1. plan' = [plan EXCEPT ![p] = Over(f, g)]
  BY Zenon DEF Select, Wrong, Cached, Gone, Owned
<1>2. plan'[p] = Over(f, g)
  BY <1>1 DEF TypeInv, AreFunctions
<1>3. DOMAIN f = Wrong(p) /\ \A c \in Wrong(p) : f[c] = (c[3] \in held[p].links) /\ f[c] \in BOOLEAN
  <2>1. f \in [Wrong(p) -> BOOLEAN]
    OBVIOUS
  <2> QED
    BY <2>1
<1>4. /\ DOMAIN g = IF held[p].dirty \/ Cached(p) \/ Gone(p) THEN {held[p].row} ELSE {}
      /\ held[p].dirty \/ Cached(p) \/ Gone(p) => g[held[p].row] = Owned(p)
  BY OnlyTyped, NoRowsEmpty
<1> HIDE DEF f, g
<1>5. /\ plan'[p] = [c \in DOMAIN plan'[p] |-> plan'[p][c]]
      /\ DOMAIN plan'[p] = DOMAIN f \cup DOMAIN g
      /\ \A c \in DOMAIN f : plan'[p][c] = f[c]
      /\ \A c \in DOMAIN g \ DOMAIN f : plan'[p][c] = g[c]
  <2> DEFINE h == Over(f, g)
  <2>1. /\ h = [c \in DOMAIN h |-> h[c]] /\ DOMAIN h = DOMAIN f \cup DOMAIN g
        /\ \A c \in DOMAIN f : h[c] = f[c]
        /\ \A c \in DOMAIN g \ DOMAIN f : h[c] = g[c]
    BY DEF Over
  <2>2. plan'[p] = h
    BY <1>2
  <2> HIDE DEF h
  <2> QED
    BY <2>1, <2>2, Zenon
<1>6. \A c \in Wrong(p) : plan'[p][c] = (c[3] \in held[p].links) /\ plan'[p][c] \in BOOLEAN
  BY <1>3, <1>5, Zenon
<1>7. held[p].row \in DOMAIN plan'[p] /\ held[p].row \notin Wrong(p) => plan'[p][held[p].row] = Owned(p)
  BY <1>3, <1>4, <1>5
<1> QED
  BY <1>3, <1>4, <1>5, <1>6, <1>7, Zenon

LEMMA SelectTyped ==
  ASSUME TypeInv, NEW p \in Procs, Select(p)
  PROVE  TypeInv' /\ Moves(p)
<1>1. AreFunctions /\ Typed(p) /\ Placed(p) /\ pc[p] = "select"
  BY DEF TypeInv, Select
<1>2. pc'[p] = "write" /\ UNCHANGED <<db, out, held, todo, next, server, policed, work, stale>>
  BY <1>1 DEF Select, AreFunctions
<1>3. held[p] \in Entities /\ held[p].row \in UserRows \cup RoleRows
  BY <1>1, NullApart DEF Typed, Placed, Busy
<1>4. Fits(held[p], plan'[p])
  <2>1. Wrong(p) \subseteq LinkRows(held[p])
    BY DEF Wrong
  <2>2. \A c \in LinkRows(held[p]) : c \notin UserRows /\ c \notin RoleRows
    <3>1. CASE \E u \in Users : held[p].row = User(u)
      BY <3>1, LinksOfEntity, RowKinds, RowsDiffer DEF RoleRows
    <3>2. CASE \E r \in Roles : held[p].row = Role(r)
      BY <3>2, LinksOfEntity, RowKinds, RowsDiffer DEF RoleRows
    <3> QED
      BY <1>3, <3>1, <3>2 DEF UserRows, RoleRows
  <2>3. \A c \in Wrong(p) : plan'[p][c] \in BOOLEAN /\ c \notin UserRows /\ c \notin RoleRows
    <3>1. \A c \in Wrong(p) : plan'[p][c] \in BOOLEAN
      BY Planned, Zenon
    <3> QED
      BY <2>1, <2>2, <3>1
  <2>4. held[p].row \in UserRows => Owned(p) \in (SUBSET Permissions) \cup {Null}
    BY <1>3 DEF Owned, Cached, Gone, Entities
  <2>5. held[p].row \in RoleRows => Owned(p) \in {TRUE, Null} /\ held[p].row \notin UserRows
    BY RowKinds DEF Owned, Cached, Gone, RoleRows
  <2>6. held[p].row \notin Wrong(p)
    BY <1>3, <2>1, <2>2
  <2>7. \A c \in DOMAIN plan'[p] :
          plan'[p][c] \in IF c \in UserRows THEN (SUBSET Permissions) \cup {Null}
                          ELSE IF c \in RoleRows THEN {TRUE, Null} ELSE BOOLEAN
    <3>1. \A c \in DOMAIN plan'[p] : c \in Wrong(p) \/ (c = held[p].row /\ plan'[p][c] = Owned(p))
      BY <2>6, Planned
    <3> QED
      BY <1>3, <2>3, <2>4, <2>5, <3>1
  <2>8. /\ DOMAIN plan'[p] \subseteq {held[p].row} \cup LinkRows(held[p])
        /\ plan'[p] = [c \in DOMAIN plan'[p] |-> plan'[p][c]]
    BY <2>1, Planned
  <2> QED
    BY <2>7, <2>8 DEF Fits
<1>5. Typed(p)'
  BY <1>1, <1>2 DEF Typed
<1>6. Placed(p)'
  <2>1. Fits(held'[p], plan'[p])
    BY <1>2, <1>4
  <2>2. Fits(held[p], plan[p])' <=> Fits(held'[p], plan'[p])
    BY DEF Fits, LinkRows
  <2> QED
    BY <1>1, <1>2, <2>1, <2>2 DEF Placed, Busy, Listing
<1> QED
  BY <1>1, <1>2, <1>5, <1>6, StepTyped DEF Select, AreFunctions

\* What is written: the plan, over what has been written before.
LEMMA Written ==
  ASSUME TypeInv, NEW p \in Procs, Write(p), ~ConstraintViolated(p)
  PROVE  /\ out'[p] = [c \in DOMAIN out'[p] |-> out'[p][c]]
         /\ DOMAIN out'[p] = Found(p) \cup DOMAIN out[p]
         /\ \A c \in Found(p) : out'[p][c] = IF plan[p][c] = Null THEN Sees(p, c) ELSE plan[p][c]
         /\ \A c \in DOMAIN out[p] \ Found(p) : out'[p][c] = out[p][c]
         /\ out' = [out EXCEPT ![p] = out'[p]] /\ pc' = [pc EXCEPT ![p] = next[p]]
         /\ plan' = [plan EXCEPT ![p] = NoRows]
         /\ UNCHANGED <<db, held, todo, next, server, policed, work, stale>>
<1> DEFINE f == [c \in Found(p) |-> IF plan[p][c] = Null THEN Sees(p, c) ELSE plan[p][c]]
<1>1. out' = [out EXCEPT ![p] = Over(f, out[p])]
  BY Zenon DEF Write
<1>2. out'[p] = Over(f, out[p])
  BY <1>1 DEF TypeInv, AreFunctions
<1>3. /\ DOMAIN f = Found(p)
      /\ \A c \in Found(p) : f[c] = IF plan[p][c] = Null THEN Sees(p, c) ELSE plan[p][c]
  OBVIOUS
<1> HIDE DEF f
<1>4. /\ out'[p] = [c \in DOMAIN out'[p] |-> out'[p][c]]
      /\ DOMAIN out'[p] = DOMAIN f \cup DOMAIN out[p]
      /\ \A c \in DOMAIN f : out'[p][c] = f[c]
      /\ \A c \in DOMAIN out[p] \ DOMAIN f : out'[p][c] = out[p][c]
  <2> DEFINE h == Over(f, out[p])
  <2>1. /\ h = [c \in DOMAIN h |-> h[c]] /\ DOMAIN h = DOMAIN f \cup DOMAIN out[p]
        /\ \A c \in DOMAIN f : h[c] = f[c]
        /\ \A c \in DOMAIN out[p] \ DOMAIN f : h[c] = out[p][c]
    BY DEF Over
  <2>2. out'[p] = h
    BY <1>2
  <2> HIDE DEF h
  <2> QED
    BY <2>1, <2>2, Zenon
<1>5. out' = [out EXCEPT ![p] = out'[p]]
  BY <1>1, <1>2, Zenon
<1>6. /\ pc' = [pc EXCEPT ![p] = next[p]] /\ plan' = [plan EXCEPT ![p] = NoRows]
      /\ UNCHANGED <<db, held, todo, next, server, policed, work, stale>>
  BY DEF Write
<1>7. \A c \in Found(p) : out'[p][c] = IF plan[p][c] = Null THEN Sees(p, c) ELSE plan[p][c]
  BY <1>3, <1>4, Zenon
<1> QED
  BY <1>3, <1>4, <1>5, <1>6, <1>7, Zenon

LEMMA WriteTyped ==
  ASSUME TypeInv, NEW p \in Procs, Write(p)
  PROVE  TypeInv' /\ Moves(p)
<1>1. AreFunctions /\ Typed(p) /\ Placed(p) /\ pc[p] = "write"
  BY DEF TypeInv, Write
<1>2. CASE ConstraintViolated(p)
  BY <1>1, <1>2, FailTyped DEF Write
<1>3. CASE ~ConstraintViolated(p)
  <2>1. Fits(held[p], plan[p]) /\ next[p] \in {"commit", "list", "sync"} /\ held[p].row \in UserRows \cup RoleRows
    BY <1>1 DEF Placed, Typed, Busy
  <2>2. DOMAIN plan[p] \subseteq Rows /\ Found(p) \subseteq DOMAIN plan[p]
    <3>1. LinkRows(held[p]) \subseteq Rows
      BY <2>1, LinksOfEntity, RowKinds DEF UserRows, RoleRows
    <3>2. Found(p) \subseteq DOMAIN plan[p]
      BY DEF Found
    <3> QED
      BY <2>1, <3>1, <3>2, RowKinds DEF Fits, UserRows, RoleRows
  <2>3. \A c \in Found(p) : out'[p][c] \in Values(c)
    <3>1. \A c \in Found(p) : plan[p][c] = Null => out'[p][c] \in Values(c)
      <4>1. ASSUME NEW c \in Found(p), plan[p][c] = Null PROVE out'[p][c] = Sees(p, c)
        BY <1>3, <4>1, Written, Zenon
      <4> QED
        BY <2>2, <4>1, SeenTyped
    <3>2. \A c \in Found(p) : plan[p][c] # Null => plan[p][c] \in Values(c)
      <4>1. \A c \in UserRows : Values(c) = (SUBSET Permissions) \cup {Null}
        BY RowKinds DEF UserRows
      <4>2. \A c \in Rows \ UserRows : Values(c) = BOOLEAN
        BY RowKinds, KindsOfRows
      <4> QED
        <5>1. \A c \in Found(p) : plan[p][c] # Null => plan[p][c] \in
                 IF c \in UserRows THEN (SUBSET Permissions) \cup {Null} ELSE BOOLEAN
          BY <2>1, <2>2 DEF Fits
        <5> QED
          BY <2>2, <4>1, <4>2, <5>1
    <3>3. \A c \in Found(p) : plan[p][c] # Null => out'[p][c] = plan[p][c]
      BY <1>3, Written, Zenon
    <3> QED
      BY <3>1, <3>2, <3>3, Zenon
  <2>4. \A c \in DOMAIN out'[p] : out'[p][c] \in Values(c)
    BY <1>1, <1>3, <2>3, Written DEF Typed
  <2>5. DOMAIN out'[p] \subseteq Rows /\ out'[p] = [c \in DOMAIN out'[p] |-> out'[p][c]]
    BY <1>1, <1>3, <2>2, Written DEF Typed
  <2>6. /\ pc'[p] = next[p] /\ plan'[p] = NoRows
        /\ UNCHANGED <<db, held, todo, next, server, policed, work, stale>>
    BY <1>1, <1>3, Written DEF AreFunctions
  <2>7. Typed(p)'
    <3>1. \A c \in DOMAIN out'[p] : out'[p][c] \in Values(c)'
      BY <2>4 DEF Values
    <3> QED
      BY <1>1, <2>1, <2>5, <2>6, <3>1 DEF Typed
  <2>8. Placed(p)'
    BY <1>1, <2>1, <2>6 DEF Placed, Busy, Listing
  <2>9. /\ out' = [out EXCEPT ![p] = out'[p]] /\ pc' = [pc EXCEPT ![p] = pc'[p]]
        /\ plan' = [plan EXCEPT ![p] = plan'[p]]
    BY <1>3, <2>6, Written
  <2>10. /\ held' = [held EXCEPT ![p] = held'[p]] /\ todo' = [todo EXCEPT ![p] = todo'[p]]
         /\ next' = [next EXCEPT ![p] = next'[p]]
    BY <1>1, <2>6 DEF AreFunctions
  <2> QED
    BY <1>1, <2>1, <2>6, <2>7, <2>8, <2>9, <2>10, StepTyped
<1> QED
  BY <1>2, <1>3

\* What is deleted: the role and its links.
LEMMA Deleted ==
  ASSUME TypeInv, NEW p \in Procs, Delete(p), NEW r \in Roles, held[p].row = Role(r), db[Role(r)]
  PROVE  /\ out'[p] = [c \in {Role(r)} \cup Cascade(p, r) |-> FALSE]
         /\ out' = [out EXCEPT ![p] = out'[p]] /\ pc' = [pc EXCEPT ![p] = "commit"]
         /\ UNCHANGED <<db, held, plan, todo, next, server, policed, work, stale>>
         /\ \A c \in LinksOf(r) : ~Locked(p, c)
<1>1. held[p].row[2] = r
  BY Parts
<1>2. /\ out' = [out EXCEPT ![p] = [c \in {Role(r)} \cup Cascade(p, r) |-> FALSE]]
      /\ pc' = [pc EXCEPT ![p] = "commit"]
      /\ UNCHANGED <<db, held, plan, todo, next, server, policed, work, stale>>
      /\ \A c \in Rows : LinksRole(c, r) => ~Locked(p, c)
  BY <1>1 DEF Delete
<1>3. AreFunctions
  BY DEF TypeInv
<1> QED
  BY <1>2, <1>3 DEF AreFunctions, LinksOf

LEMMA DeleteTyped ==
  ASSUME TypeInv, NEW p \in Procs, Delete(p)
  PROVE  TypeInv' /\ Moves(p)
<1>1. AreFunctions /\ Typed(p) /\ Placed(p) /\ pc[p] = "delete"
  BY DEF TypeInv, Delete
<1>2. PICK r \in Roles : held[p].row = Role(r)
  BY <1>1 DEF Placed, RoleRows
<1>3. CASE ~db[Role(r)]
  BY <1>1, <1>2, <1>3, FailTyped, Parts DEF Delete
<1>4. CASE db[Role(r)]
  <2>1. out'[p] = [c \in {Role(r)} \cup Cascade(p, r) |-> FALSE]
    BY <1>2, <1>4, Deleted
  <2>2. \A c \in {Role(r)} \cup Cascade(p, r) : c \in Rows /\ FALSE \in Values(c)
    <3>1. \A c \in Cascade(p, r) : c \in Rows /\ LinksRole(c, r)
      BY DEF Cascade
    <3> QED
      <4>1. \A c \in Rows : LinksRole(c, r) => Values(c) = BOOLEAN
        BY RowKinds, KindsOfRows, LinksOfRole
      <4> QED
        BY <3>1, <4>1, RowKinds
  <2>3. /\ pc'[p] = "commit" /\ UNCHANGED <<db, held, plan, todo, next, server, policed, work, stale>>
        /\ pc' = [pc EXCEPT ![p] = pc'[p]]
    BY <1>1, <1>2, <1>4, Deleted DEF AreFunctions
  <2>4. Typed(p)'
    <3>1. /\ out'[p] = [c \in DOMAIN out'[p] |-> out'[p][c]] /\ DOMAIN out'[p] \subseteq Rows
          /\ \A c \in DOMAIN out'[p] : out'[p][c] \in Values(c)'
      BY <2>1, <2>2 DEF Values
    <3> QED
      BY <1>1, <2>3, <3>1 DEF Typed
  <2>5. Placed(p)'
    BY <1>1, <2>3 DEF Placed, Busy, Listing
  <2>6. /\ out' = [out EXCEPT ![p] = out'[p]]
        /\ held' = [held EXCEPT ![p] = held'[p]] /\ todo' = [todo EXCEPT ![p] = todo'[p]]
        /\ next' = [next EXCEPT ![p] = next'[p]] /\ plan' = [plan EXCEPT ![p] = plan'[p]]
    BY <1>1, <1>2, <1>4, <2>3, Deleted DEF AreFunctions
  <2> QED
    BY <1>1, <2>3, <2>4, <2>5, <2>6, StepTyped
<1> QED
  BY <1>3, <1>4

LEMMA AnswerTyped ==
  ASSUME TypeInv, NEW p \in Requests, pc[p] = "idle", NEW how \in Ended, Answer(p, how)
  PROVE  TypeInv' /\ Moves(p)
<1>1. p \in Procs /\ p # Boot
  BY Processes
<1>2. AreFunctions /\ Typed(p) /\ Placed(p)
  BY <1>1 DEF TypeInv
<1>3. pc'[p] = how /\ pc' = [pc EXCEPT ![p] = how]
      /\ UNCHANGED <<db, out, held, plan, todo, next, server, policed, work, stale>>
  BY <1>1, <1>2 DEF Answer, AreFunctions
<1>4. Moves(p)
  BY <1>2, <1>3 DEF Moves, Stays, WorkStays, AreFunctions
<1>5. Typed(p)' /\ Placed(p)'
  BY <1>2, <1>3 DEF Typed, Placed, Busy, Listing
<1>6. BootPlaced'
  BY <1>1, <1>2, <1>3, Processes DEF TypeInv, BootPlaced, AreFunctions
<1>7. \A c \in Rows : db'[c] \in Values(c)
  BY <1>3 DEF TypeInv
<1> QED
  BY <1>1, <1>3, <1>4, <1>5, <1>6, <1>7, MovesTyped DEF TypeInv

LEMMA CreateUserTyped ==
  ASSUME TypeInv, NEW p \in Requests, CreateUser(p)
  PROVE  TypeInv' /\ Moves(p)
<1>1. PICK u \in Users : Take(p, Task({u}, {}, {u}, {})) /\ out' = [out EXCEPT ![p] = Only(User(u), {})]
  BY DEF CreateUser
<1>2. Task({u}, {}, {u}, {}) \in Tasks
  BY TaskTyped
<1>3. /\ Only(User(u), {}) = [c \in DOMAIN Only(User(u), {}) |-> Only(User(u), {})[c]]
      /\ DOMAIN Only(User(u), {}) \subseteq Rows
      /\ \A c \in DOMAIN Only(User(u), {}) : Only(User(u), {})[c] \in Values(c)
  BY RowKinds DEF Only
<1>4. p \in Procs /\ AreFunctions /\ todo[p] = {}
  BY Processes, IdlePlaced DEF TypeInv, CreateUser, Idle
<1>5. todo' = [todo EXCEPT ![p] = {}]
  BY <1>4 DEF CreateUser, AreFunctions
<1> QED
  BY <1>1, <1>2, <1>3, <1>5, InsertTyped DEF CreateUser, Idle

LEMMA CreateRoleTyped ==
  ASSUME TypeInv, NEW p \in Requests, CreateRole(p)
  PROVE  TypeInv' /\ Moves(p)
<1>1. PICK r \in Roles : Take(p, Task({}, {r}, {}, {})) /\ out' = [out EXCEPT ![p] = Only(Role(r), TRUE)]
  BY DEF CreateRole
<1>2. Task({}, {r}, {}, {}) \in Tasks
  BY TaskTyped
<1>3. /\ Only(Role(r), TRUE) = [c \in DOMAIN Only(Role(r), TRUE) |-> Only(Role(r), TRUE)[c]]
      /\ DOMAIN Only(Role(r), TRUE) \subseteq Rows
      /\ \A c \in DOMAIN Only(Role(r), TRUE) : Only(Role(r), TRUE)[c] \in Values(c)
  BY RowKinds DEF Only
<1>4. p \in Procs /\ AreFunctions /\ todo[p] = {}
  BY Processes, IdlePlaced DEF TypeInv, CreateRole, Idle
<1>5. todo' = [todo EXCEPT ![p] = {}]
  BY <1>4 DEF CreateRole, AreFunctions
<1> QED
  BY <1>1, <1>2, <1>3, <1>5, InsertTyped DEF CreateRole, Idle

\* The calls that load a user, and those that load a role.
StartsUser(p, u) ==
  /\ db[User(u)] # Null
  /\ \/ Start(p, Task({u}, {}, {}, {}), Entity(User(u), Null, db[User(u)], TRUE), "select", "commit", {})
     \/ Start(p, Task({u}, {}, {}, {}), Entity(User(u), Null, Null, TRUE), "select", "commit", {})
     \/ \E links \in SUBSET Roles :
          Start(p, Task({u}, {}, {u}, {}), Entity(User(u), links, db[User(u)], FALSE),
                "select", "sync", {u})
StartsRole(p, r) ==
  \/ Start(p, Task(Holders(p, r), {r}, {}, {}), Entity(Role(r), GrantsOf(p, r), Null, TRUE),
           "select", "commit", {})
  \/ \E list \in SUBSET Permissions :
       Start(p, Task(Holders(p, r), {r}, Holders(p, r), {}), Entity(Role(r), list, Null, FALSE),
             "select", "list", {})
  \/ Start(p, Task(Holders(p, r), {r}, {}, Holders(p, r)), Entity(Role(r), Null, Null, FALSE),
           "delete", Null, {})

LEMMA Calls ==
  ASSUME NEW p \in Requests, Call(p)
  PROVE  /\ pc[p] = "idle" /\ server = "up"
         /\ \/ CreateUser(p) \/ CreateRole(p)
            \/ \E how \in Ended : Answer(p, how)
            \/ \E u \in Users : StartsUser(p, u)
            \/ \E r \in Roles : StartsRole(p, r)
<1>1. pc[p] = "idle" /\ server = "up"
  BY DEF Call, CreateUser, UpdateUser, ChangePassword, AssignRole, RemoveRole, CreateRole,
         UpdateRole, AssignPermissions, RemoveRoleItself, Idle
<1>2. \A u, r : RolesOf(p, u) \cup {r} \in SUBSET Roles \/ r \notin Roles
  BY SetsTyped
<1>3. \A u, r : RolesOf(p, u) \ {r} \in SUBSET Roles
  BY SetsTyped
<1>4. CASE UpdateUser(p)
  BY <1>1, <1>4 DEF UpdateUser, StartsUser
<1>5. CASE ChangePassword(p)
  BY <1>1, <1>5 DEF ChangePassword, StartsUser
<1>6. CASE AssignRole(p)
  BY <1>1, <1>2, <1>6 DEF AssignRole, StartsUser
<1>7. CASE RemoveRole(p)
  BY <1>1, <1>3, <1>7 DEF RemoveRole, StartsUser
<1>8. CASE UpdateRole(p)
  BY <1>1, <1>8 DEF UpdateRole, StartsRole
<1>9. CASE AssignPermissions(p)
  BY <1>1, <1>9, AccessAssumption DEF AssignPermissions, StartsRole, AfterPermissions
<1>10. CASE RemoveRoleItself(p)
  BY <1>1, <1>10 DEF RemoveRoleItself, StartsRole
<1> QED
  BY <1>1, <1>4, <1>5, <1>6, <1>7, <1>8, <1>9, <1>10 DEF Call

LEMMA StartsUserTyped ==
  ASSUME TypeInv, NEW p \in Requests, pc[p] = "idle", NEW u \in Users, StartsUser(p, u)
  PROVE  TypeInv' /\ Moves(p)
<1>1. db[User(u)] \in (SUBSET Permissions) \cup {Null} /\ User(u) \in Rows /\ User(u) \in UserRows
  BY RowKinds DEF TypeInv
<1>2. \A links \in (SUBSET Roles) \cup {Null}, cache \in {db[User(u)], Null}, dirty \in BOOLEAN :
        /\ Entity(User(u), links, cache, dirty) \in Entities /\ Entity(User(u), links, cache, dirty) # Null
        /\ Entity(User(u), links, cache, dirty).row \in UserRows
  BY <1>1, EntityTyped
<1>3. Task({u}, {}, {}, {}) \in Tasks /\ Task({u}, {}, {u}, {}) \in Tasks
  BY TaskTyped
<1>4. CASE Start(p, Task({u}, {}, {}, {}), Entity(User(u), Null, db[User(u)], TRUE), "select", "commit", {})
  <2> DEFINE e == Entity(User(u), Null, db[User(u)], TRUE)
  <2> DEFINE w == Task({u}, {}, {}, {})
  <2>1. e \in Entities /\ e # Null /\ e.row \in UserRows
    BY <1>2
  <2>3. w \in Tasks /\ Start(p, w, e, "select", "commit", {})
    BY <1>3, <1>4
  <2> HIDE DEF e, w
  <2> QED
    BY <2>1, <2>3, StartTyped
<1>5. CASE Start(p, Task({u}, {}, {}, {}), Entity(User(u), Null, Null, TRUE), "select", "commit", {})
  <2> DEFINE e == Entity(User(u), Null, Null, TRUE)
  <2> DEFINE w == Task({u}, {}, {}, {})
  <2>1. e \in Entities /\ e # Null /\ e.row \in UserRows
    BY <1>2
  <2>3. w \in Tasks /\ Start(p, w, e, "select", "commit", {})
    BY <1>3, <1>5
  <2> HIDE DEF e, w
  <2> QED
    BY <2>1, <2>3, StartTyped
<1>6. ASSUME NEW links \in SUBSET Roles,
             Start(p, Task({u}, {}, {u}, {}), Entity(User(u), links, db[User(u)], FALSE), "select", "sync", {u})
      PROVE  TypeInv' /\ Moves(p)
  <2> DEFINE e == Entity(User(u), links, db[User(u)], FALSE)
  <2> DEFINE w == Task({u}, {}, {u}, {})
  <2>1. e \in Entities /\ e # Null /\ e.row \in UserRows
    BY <1>2
  <2>3. w \in Tasks /\ Start(p, w, e, "select", "sync", {u})
    BY <1>3, <1>6
  <2> HIDE DEF e, w
  <2> QED
    BY <2>1, <2>3, StartTyped
<1> QED
  BY <1>4, <1>5, <1>6 DEF StartsUser

LEMMA StartsRoleTyped ==
  ASSUME TypeInv, NEW p \in Requests, pc[p] = "idle", NEW r \in Roles, StartsRole(p, r)
  PROVE  TypeInv' /\ Moves(p)
<1>1. Role(r) \in Rows /\ Role(r) \in RoleRows
  BY RowKinds DEF RoleRows
<1>2. \A links \in (SUBSET Permissions) \cup {Null}, dirty \in BOOLEAN :
        /\ Entity(Role(r), links, Null, dirty) \in Entities /\ Entity(Role(r), links, Null, dirty) # Null
        /\ Entity(Role(r), links, Null, dirty).row \in RoleRows
  BY <1>1, EntityTyped
<1>3. \A fixes, breaks \in SUBSET Users : Task(Holders(p, r), {r}, fixes, breaks) \in Tasks
  BY SetsTyped, TaskTyped
<1>4. CASE Start(p, Task(Holders(p, r), {r}, {}, {}), Entity(Role(r), GrantsOf(p, r), Null, TRUE),
                 "select", "commit", {})
  <2> DEFINE e == Entity(Role(r), GrantsOf(p, r), Null, TRUE)
  <2> DEFINE w == Task(Holders(p, r), {r}, {}, {})
  <2>1. e \in Entities /\ e # Null /\ e.row \in RoleRows
    BY <1>2, SetsTyped
  <2>3. w \in Tasks /\ Start(p, w, e, "select", "commit", {})
    BY <1>3, <1>4
  <2> HIDE DEF e, w
  <2> QED
    BY <2>1, <2>3, StartTyped
<1>5. ASSUME NEW list \in SUBSET Permissions,
             Start(p, Task(Holders(p, r), {r}, Holders(p, r), {}), Entity(Role(r), list, Null, FALSE),
                   "select", "list", {})
      PROVE  TypeInv' /\ Moves(p)
  <2> DEFINE e == Entity(Role(r), list, Null, FALSE)
  <2> DEFINE w == Task(Holders(p, r), {r}, Holders(p, r), {})
  <2>1. e \in Entities /\ e # Null /\ e.row \in RoleRows
    BY <1>2
  <2>2. Task(Holders(p, r), {r}, Holders(p, r), {}) \in Tasks
    BY <1>3, SetsTyped
  <2>3. w \in Tasks /\ Start(p, w, e, "select", "list", {})
    BY <1>5, <2>2
  <2> HIDE DEF e, w
  <2> QED
    BY <2>1, <2>3, StartTyped
<1>6. CASE Start(p, Task(Holders(p, r), {r}, {}, Holders(p, r)), Entity(Role(r), Null, Null, FALSE),
                 "delete", Null, {})
  <2> DEFINE e == Entity(Role(r), Null, Null, FALSE)
  <2> DEFINE w == Task(Holders(p, r), {r}, {}, Holders(p, r))
  <2>1. e \in Entities /\ e # Null /\ e.row \in RoleRows
    BY <1>2
  <2>2. Task(Holders(p, r), {r}, {}, Holders(p, r)) \in Tasks
    BY <1>3, SetsTyped
  <2>3. w \in Tasks /\ Start(p, w, e, "delete", Null, {})
    BY <1>6, <2>2
  <2> HIDE DEF e, w
  <2> QED
    BY <2>1, <2>3, StartTyped
<1> QED
  BY <1>4, <1>5, <1>6 DEF StartsRole

LEMMA GrantTyped ==
  ASSUME TypeInv, NEW p \in Scripts, NEW users \in SUBSET Users, NEW to \in {"commit", "sync"},
         Grant(p, users, to)
  PROVE  TypeInv' /\ Moves(p)
<1>1. pc[p] = "idle"
  BY DEF Grant, Idle
<1>2. Holders(p, Admin) \subseteq Users
  BY SetsTyped
<1> DEFINE w == Task(Holders(p, Admin) \cup users, {Admin}, users, Holders(p, Admin) \ users)
<1> DEFINE missing == {c \in AdminRows(users) : ~db[c]}
<1> DEFINE f == [c \in missing |-> TRUE]
<1>3. w \in Tasks
  BY <1>2, AccessAssumption, TaskTyped
<1>4. \A c \in AdminRows(users) : c \in Rows /\ Values(c) = BOOLEAN
  BY RowKinds, AccessAssumption DEF AdminRows
<1>5. /\ f = [c \in DOMAIN f |-> f[c]] /\ DOMAIN f \subseteq Rows
      /\ \A c \in DOMAIN f : f[c] \in Values(c)
  BY <1>4
<1>6. /\ Take(p, w) /\ out' = [out EXCEPT ![p] = f] /\ pc' = [pc EXCEPT ![p] = to]
      /\ todo' = [todo EXCEPT ![p] = users] /\ UNCHANGED <<db, held, plan, next, server, policed>>
  BY Zenon DEF Grant
<1> HIDE DEF w, f
<1> QED
  BY <1>1, <1>3, <1>5, <1>6, InsertTyped

LEMMA CommandTyped ==
  ASSUME TypeInv, NEW p \in Scripts, Command(p)
  PROVE  TypeInv' /\ Moves(p)
<1>1. CASE Refresh(p)
  BY <1>1, GrantTyped DEF Refresh
<1>2. CASE MakeAdmin(p)
  BY <1>2, GrantTyped DEF MakeAdmin
<1>3. CASE SyncPermissions(p)
  <2>1. Task(Known(p), {}, Known(p), {}) \in Tasks /\ Known(p) \subseteq Users
    BY SetsTyped, TaskTyped
  <2> DEFINE w == Task(Known(p), {}, Known(p), {})
  <2> DEFINE known == Known(p)
  <2>2. Start(p, w, Null, "sync", Null, known) /\ pc[p] = "idle"
    BY <1>3 DEF SyncPermissions, Idle
  <2>3. w \in Tasks /\ known \in SUBSET Users
    BY <2>1
  <2> HIDE DEF w, known
  <2> QED
    BY <2>2, <2>3, StartTyped
<1> QED
  BY <1>1, <1>2, <1>3 DEF Command

\* A process at its end, or as it was.
Ends(p) ==
  /\ out'[p] = NoRows /\ held'[p] = Null /\ plan'[p] = NoRows /\ todo'[p] = {} /\ next'[p] = Null
  /\ work'[p] = Null /\ pc'[p] = IF p = Boot THEN "idle" ELSE "failed"

LEMMA EndsTyped ==
  ASSUME NEW p \in Procs, Ends(p)
  PROVE  Typed(p)' /\ Placed(p)'
BY NoRowsEmpty, Zenon DEF Ends, Typed, Placed, Busy, Listing

LEMMA CrashTyped ==
  ASSUME TypeInv, ServerCrash
  PROVE  /\ TypeInv' /\ UNCHANGED <<db, stale>>
         /\ \A p \in Procs : (Stays(p) /\ work'[p] = work[p]) \/ (pc[p] \in Working /\ Ends(p))
<1> DEFINE dead == {p \in Requests \cup {Boot} : pc[p] \in Working}
<1>1. AreFunctions
  BY DEF TypeInv
<1>2. dead \subseteq Procs
  BY DEF Procs
<1>3. /\ pc' = [p \in Procs |-> IF p \notin dead THEN pc[p] ELSE IF p = Boot THEN "idle" ELSE "failed"]
      /\ out' = [p \in Procs |-> IF p \in dead THEN NoRows ELSE out[p]]
      /\ held' = [p \in Procs |-> IF p \in dead THEN Null ELSE held[p]]
      /\ plan' = [p \in Procs |-> IF p \in dead THEN NoRows ELSE plan[p]]
      /\ todo' = [p \in Procs |-> IF p \in dead THEN {} ELSE todo[p]]
      /\ next' = [p \in Procs |-> IF p \in dead THEN Null ELSE next[p]]
      /\ work' = [p \in Procs |-> IF p \in dead THEN Null ELSE work[p]]
      /\ UNCHANGED <<db, policed, stale>> /\ server' = "down"
  BY Zenon DEF ServerCrash
<1>4. \A p \in Procs : IF p \in dead THEN Ends(p) ELSE Stays(p) /\ work'[p] = work[p]
  BY <1>3 DEF Ends, Stays, WorkStays
<1>5. AreFunctions'
  BY <1>1, <1>3 DEF AreFunctions
<1>6. \A p \in Procs : Typed(p)' /\ Placed(p)'
  BY <1>4, EndsTyped, StaysTyped
<1>7. BootPlaced'
  <2>1. Boot \in dead \/ pc[Boot] = "idle"
    BY Processes DEF TypeInv, BootPlaced, Typed
  <2> QED
    BY <1>3, <2>1, Processes DEF BootPlaced
<1>8. \A c \in Rows : db'[c] \in Values(c)
  BY <1>3 DEF TypeInv
<1>9. TypeInv'
  BY <1>3, <1>5, <1>6, <1>7, <1>8 DEF TypeInv, Values
<1> QED
  BY <1>3, <1>4, <1>9

LEMMA RestartTyped ==
  ASSUME TypeInv, Restart
  PROVE  /\ TypeInv' /\ Moves(Boot) /\ pc[Boot] = "idle" /\ pc'[Boot] = "sync" /\ out' = out
         /\ UNCHANGED <<held, plan, next>>
         /\ \A c \in Rows : (\A q \in Permissions : c # Permission(q)) => db'[c] = db[c]
<1> DEFINE seen == IF policed THEN {} ELSE Known(Boot)
<1>1. AreFunctions /\ Boot \in Procs /\ pc[Boot] = "idle"
  BY Processes DEF TypeInv, BootPlaced, Restart
<1>2. out[Boot] = NoRows /\ plan[Boot] = NoRows /\ held[Boot] = Null
  BY <1>1, IdlePlaced
<1>3. seen \in SUBSET Users
  BY SetsTyped
<1>4. Task(seen, {}, seen, {}) \in Tasks
  BY <1>3, TaskTyped
<1>5. /\ Take(Boot, Task(seen, {}, seen, {})) /\ todo' = [todo EXCEPT ![Boot] = seen]
      /\ pc' = [pc EXCEPT ![Boot] = "sync"] /\ UNCHANGED <<out, held, plan, next, policed>>
      /\ server' = "boot"
      /\ db' = [c \in Rows |-> IF c[1] = "permissions" THEN TRUE ELSE db[c]]
  BY Zenon DEF Restart
<1> HIDE DEF seen
<1>6. /\ work' = [o \in Procs |-> work'[o]] /\ \A o \in Procs \ {Boot} : WorkStays(o)
      /\ work'[Boot] \in Tasks /\ work'[Boot] # Null /\ stale' \subseteq Users
  BY <1>1, <1>4, <1>5, TakeTyped
<1>7. Moves(Boot)
  BY <1>1, <1>5, <1>6 DEF Moves, Stays, AreFunctions
<1>8. pc'[Boot] = "sync" /\ todo'[Boot] = seen
  BY <1>1, <1>5 DEF AreFunctions
<1>9. Typed(Boot)'
  <2>1. next[Boot] \in {"commit", "list", "sync", Null}
    BY <1>1 DEF TypeInv, Typed
  <2> QED
    BY <1>2, <1>3, <1>5, <1>6, <1>8, <2>1, NoRowsEmpty, Zenon DEF Typed
<1>10. Placed(Boot)'
  BY <1>2, <1>5, <1>6, <1>8 DEF Placed, Busy, Listing
<1>11. \A c \in Rows : db'[c] \in Values(c)
  BY <1>5 DEF TypeInv, Values
<1>12. \A c \in Rows : (\A q \in Permissions : c # Permission(q)) => db'[c] = db[c]
  <2>1. ASSUME NEW c \in Rows, \A q \in Permissions : c # Permission(q) PROVE c[1] # "permissions"
    BY <2>1, KindsOfRows DEF User, Role, Has, Grants
  <2> QED
    BY <1>5, <2>1
<1>13. BootPlaced'
  BY <1>5, <1>8 DEF BootPlaced
<1>14. TypeInv'
  BY <1>1, <1>5, <1>6, <1>7, <1>9, <1>10, <1>11, <1>13, MovesTyped DEF TypeInv
<1> QED
  BY <1>1, <1>5, <1>7, <1>8, <1>12, <1>14

--------------------------------------------------------------------------------
(* Every step.                                                                 *)

LEMMA CallTyped ==
  ASSUME TypeInv, NEW p \in Requests, Call(p)
  PROVE  TypeInv' /\ Moves(p)
BY Calls, CreateUserTyped, CreateRoleTyped, AnswerTyped, StartsUserTyped, StartsRoleTyped

LEMMA StepOfTyped ==
  ASSUME TypeInv, NEW p \in Procs, Step(p)
  PROVE  TypeInv' /\ Moves(p)
BY ListTyped, SyncUserTyped, SelectTyped, WriteTyped, DeleteTyped, CommitTyped, FailTyped
   DEF Step, Abort

LEMMA InitTyped ==
  ASSUME Init
  PROVE  TypeInv
<1>1. PICK admins \in (SUBSET Users) \ {{}} : db = Created(admins)
  BY DEF Init
<1>2. \A c \in Rows : db[c] \in Values(c)
  <2>1. ASSUME NEW u \in Users PROVE db[User(u)] \in Values(User(u))
    <3>1. db[User(u)] = IF u \in admins THEN StoredFirst ELSE Null
      BY <1>1, RowKinds DEF Created, User
    <3> QED
      BY <3>1, RowKinds, AccessAssumption
  <2>2. ASSUME NEW r \in Roles PROVE db[Role(r)] \in Values(Role(r))
    <3>1. db[Role(r)] = (r = Admin)
      BY <1>1, RowKinds DEF Created, Role
    <3> QED
      BY <3>1, RowKinds
  <2>3. ASSUME NEW q \in Permissions PROVE db[Permission(q)] \in Values(Permission(q))
    <3>1. Permission(q) \in Rows /\ Permission(q)[1] = "permissions" /\ Permission(q)[2] = q
      BY RowKinds DEF Permission
    <3> DEFINE f == [c \in {Permission(q)} |-> c[2] \in StoredFirst]
    <3>2. f \in [{Permission(q)} -> BOOLEAN]
      OBVIOUS
    <3>3. db[Permission(q)] = f[Permission(q)]
      BY <1>1, <3>1 DEF Created
    <3> HIDE DEF f
    <3> QED
      BY <3>2, <3>3, RowKinds
  <2>4. ASSUME NEW u \in Users, NEW r \in Roles PROVE db[Has(u, r)] \in Values(Has(u, r))
    <3>1. db[Has(u, r)] = (u \in admins /\ r = Admin)
      BY <1>1, RowKinds DEF Created, Has
    <3> QED
      BY <3>1, RowKinds
  <2>5. ASSUME NEW r \in Roles, NEW q \in Permissions PROVE db[Grants(r, q)] \in Values(Grants(r, q))
    <3>1. db[Grants(r, q)] \in BOOLEAN
      BY <1>1, RowKinds DEF Created, Grants
    <3> QED
      BY <3>1, RowKinds
  <2> QED
    BY <2>1, <2>2, <2>3, <2>4, <2>5, KindsOfRows
<1>3. AreFunctions
  BY <1>1 DEF Init, AreFunctions, Created
<1>4. \A p \in Procs : Typed(p)
  BY NoRowsEmpty DEF Init, Typed
<1>5. \A p \in Procs : Placed(p)
  BY DEF Init, Placed, Busy, Listing
<1> QED
  BY <1>2, <1>3, <1>4, <1>5, Processes DEF Init, TypeInv, BootPlaced

\* What a step is.
LEMMA Steps ==
  ASSUME TypeInv, [Next]_vars
  PROVE  /\ TypeInv'
         /\ \/ UNCHANGED vars \/ ServerCrash
            \/ Restart
            \/ \E p \in Requests : Call(p)
            \/ \E p \in Scripts : Command(p)
            \/ \E p \in Procs : Step(p)
<1>1. CASE UNCHANGED vars
  <2>1. \A p \in Procs : Stays(p)
    BY <1>1 DEF vars, local, Stays, WorkStays
  <2>2. \A p \in Procs : Typed(p)' /\ Placed(p)'
    BY <2>1, StaysTyped
  <2>3. AreFunctions'
    BY <1>1 DEF vars, local, TypeInv, AreFunctions
  <2>4. BootPlaced' /\ (\A c \in Rows : db'[c] \in Values(c))
    BY <1>1 DEF vars, local, TypeInv, BootPlaced
  <2>5. server' \in {"down", "boot", "up"} /\ policed' \in BOOLEAN /\ stale' \subseteq Users
    BY <1>1 DEF vars, local, TypeInv
  <2>6. TypeInv'
    BY <2>2, <2>3, <2>4, <2>5 DEF TypeInv, Values
  <2> QED
    BY <1>1, <2>6
<1>2. CASE Next
  BY <1>2, CallTyped, CommandTyped, StepOfTyped, CrashTyped, RestartTyped DEF Next
<1> QED
  BY <1>1, <1>2 DEF Next

\* What each process holds, and where it is with it, is in order in every state.
THEOREM TypesInOrder == Spec => []TypeInv
<1>1. TypeInv /\ [Next]_vars => TypeInv'
  BY Steps
<1> QED
  BY <1>1, InitTyped, PTL DEF Spec

LEMMA TypeInvTypes ==
  ASSUME TypeInv
  PROVE  TypeOK
<1>1. ASSUME NEW p \in Procs
      PROVE  /\ DOMAIN out[p] \subseteq Rows /\ \A c \in DOMAIN out[p] : out[p][c] \in Values(c)
             /\ pc[p] \in {"idle"} \cup Working \cup Ended
             /\ held[p] # Null => held[p].row \in Rows
             /\ DOMAIN plan[p] \subseteq Rows
             /\ todo[p] \subseteq Users
             /\ next[p] \in {"commit", "list", "sync", Null}
  <2>1. Typed(p) /\ Placed(p)
    BY DEF TypeInv
  <2>2. held[p] # Null => held[p].row \in Rows
    BY <2>1 DEF Typed, Entities
  <2>3. DOMAIN plan[p] \subseteq Rows
    <3>1. CASE pc[p] = "write"
      <4>1. held[p].row \in UserRows \cup RoleRows /\ Fits(held[p], plan[p])
        BY <2>1, <3>1 DEF Placed, Busy
      <4>2. LinkRows(held[p]) \subseteq Rows
        BY <4>1, LinksOfEntity, RowKinds DEF UserRows, RoleRows
      <4> QED
        BY <4>1, <4>2, RowKinds DEF Fits, UserRows, RoleRows
    <3>2. CASE pc[p] # "write"
      BY <2>1, <3>2, NoRowsEmpty DEF Placed
    <3> QED
      BY <3>1, <3>2
  <2> QED
    BY <2>1, <2>2, <2>3 DEF Typed
<1> QED
  BY <1>1 DEF TypeInv, TypeOK, AreFunctions

\* Committed and uncommitted rows hold what their tables may hold, whichever
\* requests, scripts and restarts wrote them.
THEOREM AccessTypes == Spec => []TypeOK
BY TypesInOrder, TypeInvTypes, PTL

--------------------------------------------------------------------------------
(* Links and roles, step by step.                                              *)

LEMMA LinkKinds ==
  ASSUME NEW r \in Roles, NEW c \in LinksOf(r)
  PROVE  /\ c \in Rows /\ c \notin UserRows /\ c \notin RoleRows /\ IsLink(c) /\ RoleOf(c) = r
         /\ Values(c) = BOOLEAN /\ \A q \in Permissions : c # Permission(q)
         /\ (\E u \in Users : c = Has(u, r)) \/ (\E q \in Permissions : c = Grants(r, q))
<1>1. c \in Rows /\ LinksRole(c, r)
  BY DEF LinksOf
<1>2. (\E u \in Users : c = Has(u, r)) \/ (\E q \in Permissions : c = Grants(r, q))
  BY <1>1, KindsOfRows, LinksOfRole
<1>3. IsLink(c) /\ RoleOf(c) = r
  BY <1>2 DEF IsLink, RoleOf, Has, Grants
<1>4. c \notin UserRows /\ Values(c) = BOOLEAN
  BY <1>2, RowKinds
<1>5. c \notin RoleRows /\ \A q \in Permissions : c # Permission(q)
  BY <1>2, RowsDiffer DEF RoleRows
<1> QED
  BY <1>1, <1>2, <1>3, <1>4, <1>5

\* What is seen of a role or a link is there or not.
LEMMA SeenLinks ==
  ASSUME TypeInv, NEW p \in Procs, NEW r \in Roles
  PROVE  /\ Role(r) \in Rows /\ db[Role(r)] \in BOOLEAN /\ Sees(p, Role(r)) \in BOOLEAN
         /\ Role(r) \in DOMAIN out[p] => out[p][Role(r)] \in BOOLEAN
         /\ \A c \in LinksOf(r) :
              /\ db[c] \in BOOLEAN /\ Sees(p, c) \in BOOLEAN
              /\ c \in DOMAIN out[p] => out[p][c] \in BOOLEAN
<1>1. Typed(p) /\ \A c \in Rows : db[c] \in Values(c)
  BY DEF TypeInv
<1>2. Role(r) \in Rows /\ Values(Role(r)) = BOOLEAN
  BY RowKinds
<1>3. \A c \in LinksOf(r) : c \in Rows /\ Values(c) = BOOLEAN
  BY LinkKinds
<1> QED
  BY <1>1, <1>2, <1>3 DEF Typed, Sees

\* Nothing is written, or all is forgotten.
LEMMA LinksForgotten ==
  ASSUME TypeInv, LinksInv,
         \A c \in Rows : (\A q \in Permissions : c # Permission(q)) => db'[c] = db[c],
         \A p \in Procs : \/ out'[p] = out[p] /\ (pc'[p] = pc[p] \/ pc[p] # "commit")
                          \/ out'[p] = NoRows
  PROVE  LinksInv'
<1>1. \A r \in Roles : db'[Role(r)] = db[Role(r)] /\ \A c \in LinksOf(r) : db'[c] = db[c]
  BY RowKinds, RowsDiffer, LinkKinds
<1>2. LinksHaveRoles'
  BY <1>1 DEF LinksInv, LinksHaveRoles, LinksOf
<1>3. \A p \in Procs, r \in Roles : Deletes(p, r)' => Deletes(p, r) /\ out'[p] = out[p]
  BY NoRowsEmpty DEF Deletes
<1>4. ASSUME NEW p \in Procs, NEW r \in Roles, NEW c \in LinksOf(r), c \in DOMAIN out'[p], out'[p][c]
      PROVE  Sees(p, Role(r))' /\ \A o \in Procs : ~Deletes(o, r)'
  <2>1. out'[p] = out[p]
    BY <1>4, NoRowsEmpty
  <2>2. Sees(p, Role(r)) /\ \A o \in Procs : ~Deletes(o, r)
    BY <1>4, <2>1 DEF LinksInv, AddedHaveRoles
  <2> QED
    BY <1>1, <1>3, <2>1, <2>2 DEF Sees
<1>5. ASSUME NEW p \in Procs, NEW r \in Roles, Deletes(p, r)'
      PROVE  pc'[p] = "commit" /\ \A c \in LinksOf(r) : ~Sees(p, c)'
  <2>1. Deletes(p, r) /\ out'[p] = out[p]
    BY <1>3, <1>5
  <2>2. pc[p] = "commit" /\ \A c \in LinksOf(r) : ~Sees(p, c)
    BY <2>1 DEF LinksInv, DeletedHaveNone
  <2>3. pc'[p] = "commit"
    BY <2>1, <2>2, <1>5, NoRowsEmpty DEF Deletes
  <2> QED
    BY <1>1, <2>1, <2>2, <2>3 DEF Sees
<1> QED
  BY <1>2, <1>4, <1>5 DEF LinksInv, AddedHaveRoles, DeletedHaveNone, LinksOf

\* A process writes rows, and deletes no role.
LEMMA LinksAdded ==
  ASSUME TypeInv, LinksInv, NEW p \in Procs, Moves(p), db' = db,
         \A r \in Roles : ~Deletes(p, r)',
         \A r \in Roles : \A c \in LinksOf(r) :
           c \in DOMAIN out'[p] /\ out'[p][c] =>
             Sees(p, Role(r))' /\ \A o \in Procs \ {p} : ~Deletes(o, r)
  PROVE  LinksInv'
<1>1. \A o \in Procs \ {p} : out'[o] = out[o] /\ pc'[o] = pc[o]
  BY DEF Moves, Stays
<1>2. LinksHaveRoles'
  BY DEF LinksInv, LinksHaveRoles
<1>3. \A o \in Procs, r \in Roles : Deletes(o, r)' => Deletes(o, r) /\ o # p
  BY <1>1 DEF Deletes
<1>4. ASSUME NEW o \in Procs, NEW r \in Roles, NEW c \in LinksOf(r), c \in DOMAIN out'[o], out'[o][c]
      PROVE  Sees(o, Role(r))' /\ \A x \in Procs : ~Deletes(x, r)'
  <2>1. CASE o = p
    BY <1>3, <1>4, <2>1
  <2>2. CASE o # p
    <3>1. Sees(o, Role(r)) /\ \A x \in Procs : ~Deletes(x, r)
      BY <1>1, <1>4, <2>2 DEF LinksInv, AddedHaveRoles
    <3> QED
      BY <1>1, <1>3, <2>2, <3>1 DEF Sees
  <2> QED
    BY <2>1, <2>2
<1>5. ASSUME NEW o \in Procs, NEW r \in Roles, Deletes(o, r)'
      PROVE  pc'[o] = "commit" /\ \A c \in LinksOf(r) : ~Sees(o, c)'
  <2>1. Deletes(o, r) /\ out'[o] = out[o] /\ pc'[o] = pc[o]
    BY <1>1, <1>3, <1>5
  <2> QED
    BY <2>1 DEF LinksInv, DeletedHaveNone, Sees
<1> QED
  BY <1>2, <1>4, <1>5 DEF LinksInv, AddedHaveRoles, DeletedHaveNone, LinksOf

LEMMA StartLinks ==
  ASSUME TypeInv, LinksInv, NEW p \in Procs, Moves(p), UNCHANGED <<db, out>>, pc[p] # "commit"
  PROVE  LinksInv'
<1>1. \A o \in Procs : out'[o] = out[o] /\ (pc'[o] = pc[o] \/ pc[o] # "commit")
  BY DEF Moves, Stays
<1> QED
  BY <1>1, LinksForgotten

LEMMA CallLinks ==
  ASSUME TypeInv, LinksInv, NEW p \in Requests, Call(p)
  PROVE  LinksInv'
<1>1. p \in Procs /\ Moves(p) /\ pc[p] = "idle"
  BY Processes, CallTyped, Calls
<1>2. AreFunctions
  BY DEF TypeInv
<1>3. CASE UNCHANGED <<db, out>>
  BY <1>1, <1>3, StartLinks
<1>4. CASE CreateUser(p)
  <2>1. PICK u \in Users : out' = [out EXCEPT ![p] = Only(User(u), {})] /\ db' = db
    BY <1>4 DEF CreateUser
  <2>2. DOMAIN out'[p] = {User(u)}
    BY <1>1, <1>2, <2>1, OnlyTyped DEF AreFunctions
  <2>3. \A r \in Roles : ~Deletes(p, r)' /\ \A c \in LinksOf(r) : c \notin DOMAIN out'[p]
    BY <2>2, RowsDiffer, RowKinds, LinkKinds DEF Deletes
  <2> QED
    BY <1>1, <2>1, <2>3, LinksAdded
<1>5. CASE CreateRole(p)
  <2>1. PICK r \in Roles : out' = [out EXCEPT ![p] = Only(Role(r), TRUE)] /\ db' = db
    BY <1>5 DEF CreateRole
  <2>2. DOMAIN out'[p] = {Role(r)} /\ out'[p][Role(r)] = TRUE
    BY <1>1, <1>2, <2>1, OnlyTyped DEF AreFunctions
  <2>3. \A s \in Roles : \A c \in LinksOf(s) : c \notin DOMAIN out'[p]
    BY <2>2, LinkKinds DEF RoleRows
  <2>4. \A s \in Roles : ~Deletes(p, s)'
    BY <2>2 DEF Deletes
  <2> QED
    BY <1>1, <2>1, <2>3, <2>4, LinksAdded
<1> QED
  BY <1>3, <1>4, <1>5, Calls DEF Answer, StartsUser, StartsRole, Start

LEMMA GrantLinks ==
  ASSUME TypeInv, LinksInv, NEW p \in Scripts, NEW users \in SUBSET Users,
         NEW to \in {"commit", "sync"}, Grant(p, users, to)
  PROVE  LinksInv'
<1>1. p \in Procs /\ Moves(p)
  BY Processes, GrantTyped
<1> DEFINE missing == {c \in AdminRows(users) : ~db[c]}
<1>2. out' = [out EXCEPT ![p] = [c \in missing |-> TRUE]] /\ db' = db /\ ~BeingDeleted(p, Admin)
  BY Zenon DEF Grant
<1>3. out'[p] = [c \in missing |-> TRUE]
  BY <1>1, <1>2 DEF TypeInv, AreFunctions
<1>4. \A r \in Roles : ~Deletes(p, r)'
  BY <1>3 DEF Deletes
<1>5. ASSUME NEW r \in Roles, NEW c \in LinksOf(r), c \in DOMAIN out'[p]
      PROVE  Sees(p, Role(r))' /\ \A o \in Procs \ {p} : ~Deletes(o, r)
  <2>1. r = Admin
    <3>1. c \in AdminRows(users)
      BY <1>3, <1>5
    <3>2. \/ \E q \in Permissions : c = Permission(q)
          \/ c = Role(Admin)
          \/ \E q \in Permissions : c = Grants(Admin, q)
          \/ \E u \in users : c = Has(u, Admin)
      BY <3>1 DEF AdminRows
    <3> QED
      BY <3>2, LinkKinds, RowsDiffer, AccessAssumption DEF RoleRows
  <2>2. Sees(p, Role(Admin))'
    <3>1. Role(Admin) \in AdminRows(users)
      BY DEF AdminRows
    <3>2. CASE Role(Admin) \in missing
      BY <1>3, <3>2 DEF Sees
    <3>3. CASE Role(Admin) \notin missing
      BY <1>2, <1>3, <3>1, <3>3 DEF Sees
    <3> QED
      BY <3>2, <3>3
  <2>3. \A o \in Procs \ {p} : ~Deletes(o, Admin)
    BY <1>2 DEF BeingDeleted, Deletes
  <2> QED
    BY <2>1, <2>2, <2>3
<1> QED
  BY <1>1, <1>2, <1>4, <1>5, LinksAdded

LEMMA CommandLinks ==
  ASSUME TypeInv, LinksInv, NEW p \in Scripts, Command(p)
  PROVE  LinksInv'
<1>1. CASE Refresh(p) \/ MakeAdmin(p)
  BY <1>1, GrantLinks DEF Refresh, MakeAdmin
<1>2. CASE SyncPermissions(p)
  BY <1>2, CommandTyped, Processes, StartLinks DEF Command, SyncPermissions, Start, Idle
<1> QED
  BY <1>1, <1>2 DEF Command

LEMMA FailLinks ==
  ASSUME TypeInv, LinksInv, NEW p \in Procs, pc[p] \in Working, Fail(p)
  PROVE  LinksInv'
<1>1. Moves(p) /\ out'[p] = NoRows /\ db' = db
  BY FailTyped DEF Fail
<1> QED
  BY <1>1, LinksForgotten DEF Moves, Stays

\* A save that writes a link finds its role.
LEMMA WriteLinks ==
  ASSUME TypeInv, LinksInv, NEW p \in Procs, Write(p)
  PROVE  LinksInv'
<1>1. Moves(p) /\ pc[p] = "write" /\ AreFunctions /\ Placed(p)
  BY WriteTyped DEF Write, TypeInv
<1>2. CASE ConstraintViolated(p)
  BY <1>1, <1>2, FailLinks DEF Write
<1>3. CASE ~ConstraintViolated(p)
  <2>1. /\ DOMAIN out'[p] = Found(p) \cup DOMAIN out[p]
        /\ \A c \in Found(p) : out'[p][c] = IF plan[p][c] = Null THEN Sees(p, c) ELSE plan[p][c]
        /\ \A c \in DOMAIN out[p] \ Found(p) : out'[p][c] = out[p][c]
        /\ db' = db
    BY <1>3, Written
  <2>2. \A r \in Roles : ~Deletes(p, r)
    BY <1>1 DEF LinksInv, DeletedHaveNone
  <2>3. \A r \in Roles : Role(r) \in DOMAIN plan[p] => plan[p][Role(r)] \in {TRUE, Null}
    <3>1. \A r \in Roles : Role(r) \in RoleRows /\ Role(r) \notin UserRows
      BY RowKinds DEF RoleRows
    <3> QED
      BY <1>1, <3>1 DEF Placed, Fits
  <2>4. ASSUME NEW r \in Roles, Role(r) \in Found(p) PROVE out'[p][Role(r)]
    <3>1. Role(r) \in DOMAIN plan[p] /\ (plan[p][Role(r)] # Null \/ Sees(p, Role(r)))
      BY <2>4, RowKinds DEF Found
    <3>2. CASE plan[p][Role(r)] = Null
      BY <2>1, <2>4, <3>1, <3>2
    <3>3. CASE plan[p][Role(r)] # Null
      BY <2>1, <2>3, <2>4, <3>1, <3>3
    <3> QED
      BY <3>2, <3>3
  <2>5. \A r \in Roles : ~Deletes(p, r)'
    BY <2>1, <2>2, <2>4 DEF Deletes
  <2>6. ASSUME NEW r \in Roles, Sees(p, Role(r)) PROVE Sees(p, Role(r))'
    BY <2>1, <2>4, <2>6 DEF Sees
  <2>7. ASSUME NEW r \in Roles, NEW c \in LinksOf(r), c \in DOMAIN out'[p], out'[p][c]
        PROVE  Sees(p, Role(r))' /\ \A o \in Procs \ {p} : ~Deletes(o, r)
    <3>1. CASE c \in Found(p)
      <4>1. c \in DOMAIN plan[p] /\ plan[p][c] \in BOOLEAN
        BY <1>1, <3>1, LinkKinds DEF Found, Placed, Fits
      <4>2. plan[p][c] # Null
        BY <4>1, NullApart
      <4>3. plan[p][c] = TRUE
        BY <2>1, <2>7, <3>1, <4>1, <4>2
      <4>4. c \in Inserted(p)
        BY <4>1, <4>3, LinkKinds DEF Inserted
      <4>5. Sees(p, Role(r)) \/ Role(r) \in Inserted(p)
        BY <1>3, <4>4, LinkKinds DEF ConstraintViolated
      <4>6. Role(r) \in Inserted(p) => Role(r) \in Found(p)
        BY NullApart DEF Inserted, Found
      <4>7. Sees(p, Role(r))'
        BY <2>1, <2>4, <2>6, <4>5, <4>6 DEF Sees
      <4>8. ~BeingDeleted(p, r)
        BY <4>4, LinkKinds DEF Write
      <4> QED
        BY <4>7, <4>8 DEF BeingDeleted, Deletes
    <3>2. CASE c \notin Found(p)
      <4>1. c \in DOMAIN out[p] /\ out[p][c]
        BY <2>1, <2>7, <3>2
      <4>2. Sees(p, Role(r)) /\ \A o \in Procs : ~Deletes(o, r)
        BY <4>1 DEF LinksInv, AddedHaveRoles
      <4> QED
        BY <2>6, <4>2
    <3> QED
      BY <3>1, <3>2
  <2> QED
    BY <1>1, <2>1, <2>5, <2>7, LinksAdded
<1> QED
  BY <1>2, <1>3

\* A deletion waits for whoever adds a link, and takes those there are with it.
LEMMA DeleteLinks ==
  ASSUME TypeInv, LinksInv, NEW p \in Procs, Delete(p)
  PROVE  LinksInv'
<1>1. Moves(p) /\ pc[p] = "delete" /\ AreFunctions /\ Placed(p) /\ out[p] = NoRows
  BY DeleteTyped DEF Delete, TypeInv, Placed
<1>2. PICK r \in Roles : held[p].row = Role(r)
  BY <1>1 DEF Placed, RoleRows
<1>3. CASE ~db[Role(r)]
  BY <1>1, <1>2, <1>3, FailLinks, Parts DEF Delete
<1>4. CASE db[Role(r)]
  <2>1. /\ out'[p] = [c \in {Role(r)} \cup Cascade(p, r) |-> FALSE]
        /\ pc' = [pc EXCEPT ![p] = "commit"] /\ db' = db
        /\ \A c \in LinksOf(r) : ~Locked(p, c)
    BY <1>2, <1>4, Deleted
  <2>2. \A o \in Procs \ {p} : out'[o] = out[o] /\ pc'[o] = pc[o]
    BY <1>1 DEF Moves, Stays
  <2>3. LinksHaveRoles'
    BY <2>1 DEF LinksInv, LinksHaveRoles
  <2>4. Cascade(p, r) = {c \in LinksOf(r) : Sees(p, c)}
    BY DEF Cascade, LinksOf
  <2>5. \A s \in Roles : Deletes(p, s)' => s = r
    BY <2>1, <2>4, LinkKinds, RowsDiffer DEF Deletes, RoleRows
  <2>6. ASSUME NEW o \in Procs, NEW s \in Roles, NEW c \in LinksOf(s), c \in DOMAIN out'[o], out'[o][c]
        PROVE  Sees(o, Role(s))' /\ \A x \in Procs : ~Deletes(x, s)'
    <3>1. o # p
      BY <2>1, <2>6
    <3>2. c \in DOMAIN out[o] /\ out[o][c]
      BY <2>2, <2>6, <3>1
    <3>3. Sees(o, Role(s)) /\ \A x \in Procs : ~Deletes(x, s)
      BY <3>2 DEF LinksInv, AddedHaveRoles
    <3>4. s # r
      BY <2>1, <3>1, <3>2 DEF Locked
    <3> QED
      BY <2>1, <2>2, <2>5, <3>1, <3>3, <3>4 DEF Sees, Deletes
  <2>7. ASSUME NEW o \in Procs, NEW s \in Roles, Deletes(o, s)'
        PROVE  pc'[o] = "commit" /\ \A c \in LinksOf(s) : ~Sees(o, c)'
    <3>1. CASE o = p
      <4>1. s = r
        BY <2>5, <2>7, <3>1
      <4>2. \A c \in LinksOf(r) : ~Sees(p, c)'
        <5>1. ASSUME NEW c \in LinksOf(r) PROVE ~Sees(p, c)'
          <6>1. CASE c \in Cascade(p, r)
            BY <2>1, <6>1 DEF Sees
          <6>2. CASE c \notin Cascade(p, r)
            <7>1. ~Sees(p, c) /\ c # Role(r)
              BY <2>4, <6>2, LinkKinds DEF RoleRows
            <7>2. ~db[c]
              BY <1>1, <7>1, NoRowsEmpty DEF Sees
            <7> QED
              BY <2>1, <6>2, <7>1, <7>2 DEF Sees
          <6> QED
            BY <6>1, <6>2
        <5> QED
          BY <5>1
      <4> QED
        BY <1>1, <2>1, <3>1, <4>1, <4>2 DEF AreFunctions
    <3>2. CASE o # p
      BY <2>1, <2>2, <2>7, <3>2 DEF LinksInv, DeletedHaveNone, Deletes, Sees
    <3> QED
      BY <3>1, <3>2
  <2> QED
    BY <2>3, <2>6, <2>7 DEF LinksInv, AddedHaveRoles, DeletedHaveNone, LinksOf
<1> QED
  BY <1>3, <1>4

LEMMA CommitLinks ==
  ASSUME TypeInv, LinksInv, NEW p \in Procs, Commit(p)
  PROVE  LinksInv'
<1>1. Moves(p) /\ out'[p] = NoRows
  BY CommitTyped DEF Commit, Forget, TypeInv, AreFunctions
<1>2. \A o \in Procs \ {p} : out'[o] = out[o] /\ pc'[o] = pc[o]
  BY <1>1 DEF Moves, Stays
<1>3. \A c \in Rows : db'[c] = Sees(p, c)
  BY DEF Commit
<1>4. \A r \in Roles : Role(r) \in Rows /\ db'[Role(r)] = Sees(p, Role(r)) /\ Sees(p, Role(r)) \in BOOLEAN
  BY <1>3, SeenLinks
<1>5. \A r \in Roles : \A c \in LinksOf(r) : db'[c] = Sees(p, c) /\ Sees(p, c) \in BOOLEAN
  BY <1>3, SeenLinks, LinkKinds
<1>6. \A r \in Roles : ~Sees(p, Role(r)) /\ db[Role(r)] => Deletes(p, r)
  BY DEF Sees, Deletes
<1>7. \A r \in Roles : ~Sees(p, Role(r)) => Deletes(p, r) \/ Role(r) \notin DOMAIN out[p]
  BY DEF Sees, Deletes
<1>8. ASSUME NEW r \in Roles, ~db'[Role(r)], NEW c \in LinksOf(r) PROVE ~db'[c]
  <2>1. ~Sees(p, Role(r))
    BY <1>4, <1>8
  <2>2. CASE Deletes(p, r)
    BY <1>5, <2>2 DEF LinksInv, DeletedHaveNone
  <2>3. CASE ~Deletes(p, r)
    <3>1. Role(r) \notin DOMAIN out[p] /\ ~db[Role(r)]
      BY <1>6, <1>7, <2>1, <2>3
    <3>2. ~db[c]
      BY <3>1, LinkKinds DEF LinksInv, LinksHaveRoles, LinksOf
    <3>3. ~(c \in DOMAIN out[p] /\ out[p][c])
      BY <2>1 DEF LinksInv, AddedHaveRoles
    <3> QED
      BY <1>5, <3>2, <3>3 DEF Sees
  <2> QED
    BY <2>2, <2>3
<1>9. \A o \in Procs, r \in Roles : Deletes(o, r)' => o # p /\ Deletes(o, r)
  BY <1>1, <1>2, NoRowsEmpty DEF Deletes
<1>10. ASSUME NEW o \in Procs, NEW r \in Roles, NEW c \in LinksOf(r), c \in DOMAIN out'[o], out'[o][c]
       PROVE  Sees(o, Role(r))' /\ \A x \in Procs : ~Deletes(x, r)'
  <2>1. o # p /\ c \in DOMAIN out[o] /\ out[o][c] /\ out'[o] = out[o]
    BY <1>1, <1>2, <1>10, NoRowsEmpty
  <2>2. Sees(o, Role(r)) /\ \A x \in Procs : ~Deletes(x, r)
    BY <2>1 DEF LinksInv, AddedHaveRoles
  <2>3. Role(r) \notin DOMAIN out[o] => db'[Role(r)]
    BY <1>4, <1>6, <2>2 DEF Sees
  <2> QED
    BY <1>9, <2>1, <2>2, <2>3 DEF Sees
<1>11. ASSUME NEW o \in Procs, NEW r \in Roles, Deletes(o, r)'
       PROVE  pc'[o] = "commit" /\ \A c \in LinksOf(r) : ~Sees(o, c)'
  <2>1. o # p /\ Deletes(o, r) /\ out'[o] = out[o] /\ pc'[o] = pc[o]
    BY <1>2, <1>9, <1>11
  <2>2. pc[o] = "commit" /\ \A c \in LinksOf(r) : ~Sees(o, c)
    BY <2>1 DEF LinksInv, DeletedHaveNone
  <2>3. \A c \in LinksOf(r) : ~(c \in DOMAIN out[p] /\ out[p][c])
    BY <2>1 DEF LinksInv, AddedHaveRoles
  <2>4. \A c \in LinksOf(r) : c \notin DOMAIN out[o] => ~db'[c]
    BY <1>5, <2>2, <2>3 DEF Sees
  <2> QED
    BY <2>1, <2>2, <2>4 DEF Sees
<1> QED
  BY <1>8, <1>10, <1>11 DEF LinksInv, LinksHaveRoles, AddedHaveRoles, DeletedHaveNone, LinksOf

LEMMA StepLinks ==
  ASSUME TypeInv, LinksInv, NEW p \in Procs, Step(p)
  PROVE  LinksInv'
<1>1. Moves(p)
  BY StepOfTyped
<1>2. CASE List(p) \/ SyncUser(p) \/ Select(p)
  BY <1>1, <1>2, StartLinks DEF List, SyncUser, Select
<1> QED
  BY <1>2, WriteLinks, DeleteLinks, CommitLinks, FailLinks DEF Step, Abort

LEMMA InitLinks ==
  ASSUME Init
  PROVE  LinksInv
<1>1. PICK admins \in (SUBSET Users) \ {{}} : db = Created(admins)
  BY DEF Init
<1>2. ASSUME NEW r \in Roles, ~db[Role(r)], NEW c \in LinksOf(r) PROVE ~db[c]
  <2>1. r # Admin
    BY <1>1, <1>2, RowKinds DEF Created, Role
  <2>2. CASE \E u \in Users : c = Has(u, r)
    <3>1. PICK u \in Users : c = Has(u, r)
      BY <2>2
    <3>2. Has(u, r) \in Rows /\ Has(u, r)[1] = "user_roles" /\ Has(u, r)[2] = u /\ Has(u, r)[3] = r
      BY RowKinds DEF Has
    <3> QED
      BY <1>1, <2>1, <3>1, <3>2 DEF Created
  <2>3. CASE \E q \in Permissions : c = Grants(r, q)
    <3>1. PICK q \in Permissions : c = Grants(r, q)
      BY <2>3
    <3>2. Grants(r, q) \in Rows /\ Grants(r, q)[1] = "role_permissions" /\ Grants(r, q)[2] = r
      BY RowKinds DEF Grants
    <3> QED
      BY <1>1, <2>1, <3>1, <3>2 DEF Created
  <2> QED
    BY <2>2, <2>3, LinkKinds
<1>3. \A p \in Procs : DOMAIN out[p] = {}
  BY NoRowsEmpty DEF Init
<1> QED
  BY <1>2, <1>3 DEF LinksInv, LinksHaveRoles, AddedHaveRoles, DeletedHaveNone, LinksOf, Deletes

\* Links have their roles in what is committed and in what each process sees;
\* nobody deletes a role while another adds a link of it.
THEOREM LinksInOrder == Spec => []LinksInv
<1>1. TypeInv /\ LinksInv /\ [Next]_vars => LinksInv'
  <2> SUFFICES ASSUME TypeInv, LinksInv, [Next]_vars
               PROVE  LinksInv'
    OBVIOUS
  <2>1. CASE UNCHANGED vars
    BY <2>1, LinksForgotten DEF vars, local
  <2>2. CASE ServerCrash
    BY <2>2, CrashTyped, LinksForgotten DEF Stays, Ends
  <2>3. CASE Restart
    <3>1. \A o \in Procs : out'[o] = out[o] /\ (pc'[o] = pc[o] \/ pc[o] # "commit")
      BY <2>3, RestartTyped DEF Moves, Stays
    <3> QED
      BY <2>3, <3>1, RestartTyped, LinksForgotten
  <2> QED
    BY <2>1, <2>2, <2>3, Steps, CallLinks, CommandLinks, StepLinks
<1> QED
  BY <1>1, InitLinks, TypesInOrder, PTL DEF Spec

\* No user has, and no permission is granted to, a role that is gone, however
\* deletions, saves that put a role back and crashes interleave.
THEOREM NoLinkIsLeft == Spec => []LinksHaveRoles
<1>1. LinksInv => LinksHaveRoles
  BY DEF LinksInv
<1> QED
  BY <1>1, LinksInOrder, PTL

--------------------------------------------------------------------------------
(* Users are there for good.                                                   *)

UsersInv == HoldersAreUsers /\ \A p \in Procs : UsersStay(p)

\* What a process has after it has taken up work.
LEMMA Started ==
  ASSUME TypeInv, NEW p \in Procs, pc[p] = "idle", NEW w, NEW e, NEW to, NEW then, NEW users,
         Start(p, w, e, to, then, users)
  PROVE  /\ pc'[p] = to /\ held'[p] = e /\ next'[p] = then /\ todo'[p] = users
         /\ out'[p] = NoRows /\ plan'[p] = NoRows /\ UNCHANGED <<db, out>> /\ Take(p, w)
         /\ \A c : Sees(p, c) = db[c]
<1>1. AreFunctions
  BY DEF TypeInv
<1> QED
  BY <1>1, IdlePlaced DEF Start, AreFunctions

\* The rows of users and of their roles that a plan may hold.
LEMMA PlannedRows ==
  ASSUME TypeInv, NEW p \in Procs, pc[p] = "write"
  PROVE  /\ held[p].row \in UserRows \cup RoleRows
         /\ \A u \in Users : User(u) \in DOMAIN plan[p] => held[p].row = User(u)
         /\ \A r \in Roles : Role(r) \in DOMAIN plan[p] => held[p].row = Role(r)
         /\ \A u \in Users, r \in Roles : Has(u, r) \in DOMAIN plan[p] => held[p].row = User(u)
         /\ \A r \in Roles, q \in Permissions : Grants(r, q) \in DOMAIN plan[p] => held[p].row = Role(r)
<1>1. held[p].row \in UserRows \cup RoleRows /\ DOMAIN plan[p] \subseteq {held[p].row} \cup LinkRows(held[p])
  BY DEF TypeInv, Placed, Busy, Fits
<1>2. CASE \E u \in Users : held[p].row = User(u)
  <2>1. PICK u \in Users : held[p].row = User(u)
    BY <1>2
  <2>2. DOMAIN plan[p] \subseteq {User(u)} \cup {Has(u, r) : r \in Roles}
    BY <1>1, <2>1, LinksOfEntity
  <2>3. \A v \in Users : User(v) \in DOMAIN plan[p] => v = u
    BY <2>2, RowsDiffer
  <2>4. \A r \in Roles : Role(r) \notin DOMAIN plan[p]
    BY <2>2, RowsDiffer
  <2>5. \A v \in Users, r \in Roles : Has(v, r) \in DOMAIN plan[p] => v = u
    BY <2>2, RowsDiffer
  <2>6. \A r \in Roles, q \in Permissions : Grants(r, q) \notin DOMAIN plan[p]
    BY <2>2, RowsDiffer
  <2> QED
    BY <1>1, <2>1, <2>3, <2>4, <2>5, <2>6
<1>3. CASE \E r \in Roles : held[p].row = Role(r)
  <2>1. PICK r \in Roles : held[p].row = Role(r)
    BY <1>3
  <2>2. DOMAIN plan[p] \subseteq {Role(r)} \cup {Grants(r, q) : q \in Permissions}
    BY <1>1, <2>1, LinksOfEntity
  <2>3. \A v \in Users : User(v) \notin DOMAIN plan[p]
    BY <2>2, RowsDiffer
  <2>4. \A s \in Roles : Role(s) \in DOMAIN plan[p] => s = r
    BY <2>2, RowsDiffer
  <2>5. \A v \in Users, s \in Roles : Has(v, s) \notin DOMAIN plan[p]
    BY <2>2, RowsDiffer
  <2>6. \A s \in Roles, q \in Permissions : Grants(s, q) \in DOMAIN plan[p] => s = r
    BY <2>2, RowsDiffer
  <2> QED
    BY <1>1, <2>1, <2>3, <2>4, <2>5, <2>6
<1> QED
  BY <1>1, <1>2, <1>3 DEF UserRows, RoleRows

LEMMA UsersMove ==
  ASSUME TypeInv, UsersInv, NEW p \in Procs, Moves(p), UsersStay(p)',
         \A u \in Users : db[User(u)] # Null => db'[User(u)] # Null,
         \A u \in Users, r \in Roles : db'[Has(u, r)] => db'[User(u)] # Null
  PROVE  UsersInv'
<1>1. ASSUME NEW o \in Procs \ {p} PROVE UsersStay(o)'
  <2>1. UsersStay(o) /\ Stays(o)
    BY DEF UsersInv, Moves
  <2>2. /\ out'[o] = out[o] /\ pc'[o] = pc[o] /\ held'[o] = held[o] /\ todo'[o] = todo[o]
    BY <2>1 DEF Stays
  <2>3. \A u \in todo[o] : u \in Users /\ db[User(u)] # Null
    BY <2>1 DEF UsersStay, TypeInv, Typed
  <2>4. \A u \in todo'[o] : db'[User(u)] # Null
    BY <2>2, <2>3
  <2>5. \A u \in Users : User(u) \in DOMAIN out'[o] => out'[o][User(u)] # Null
    BY <2>1, <2>2 DEF UsersStay
  <2>6. \A u \in Users, r \in Roles :
          Has(u, r) \in DOMAIN out'[o] /\ out'[o][Has(u, r)] => db'[User(u)] # Null
    BY <2>1, <2>2 DEF UsersStay
  <2>7. \A u \in Users : pc'[o] \in Busy /\ held'[o].row = User(u) => db'[User(u)] # Null
    BY <2>1, <2>2 DEF UsersStay
  <2> QED
    BY <2>4, <2>5, <2>6, <2>7 DEF UsersStay
<1> QED
  BY <1>1 DEF UsersInv, HoldersAreUsers

LEMMA UsersMoveOnly ==
  ASSUME TypeInv, UsersInv, NEW p \in Procs, Moves(p), UsersStay(p)', db' = db
  PROVE  UsersInv'
<1>1. \A u \in Users, r \in Roles : db'[Has(u, r)] => db'[User(u)] # Null
  BY DEF UsersInv, HoldersAreUsers
<1> QED
  BY <1>1, UsersMove

LEMMA StartsUserUsers ==
  ASSUME TypeInv, UsersInv, NEW p \in Requests, pc[p] = "idle", NEW u \in Users, StartsUser(p, u)
  PROVE  UsersInv'
<1>1. p \in Procs /\ Moves(p)
  BY Processes, StartsUserTyped
<1>2. /\ db[User(u)] # Null /\ db' = db /\ out'[p] = NoRows
      /\ todo'[p] \subseteq {u} /\ pc'[p] = "select" /\ held'[p].row = User(u)
  <2>1. ASSUME NEW w, NEW links, NEW cache, NEW dirty, NEW then, NEW users \in SUBSET {u},
               Start(p, w, Entity(User(u), links, cache, dirty), "select", then, users)
        PROVE  /\ db' = db /\ out'[p] = NoRows
               /\ todo'[p] \subseteq {u} /\ pc'[p] = "select" /\ held'[p].row = User(u)
    <3> DEFINE e == Entity(User(u), links, cache, dirty)
    <3>1. e.row = User(u) /\ Start(p, w, e, "select", then, users)
      BY <2>1 DEF Entity
    <3> HIDE DEF e
    <3> QED
      BY <1>1, <3>1, Started
  <2>2. db[User(u)] # Null
    BY DEF StartsUser
  <2>3. \/ \E w, cache : Start(p, w, Entity(User(u), Null, cache, TRUE), "select", "commit", {})
        \/ \E w, links : Start(p, w, Entity(User(u), links, db[User(u)], FALSE), "select", "sync", {u})
    BY Zenon DEF StartsUser
  <2>4. CASE \E w, cache : Start(p, w, Entity(User(u), Null, cache, TRUE), "select", "commit", {})
    <3>1. PICK w, cache : Start(p, w, Entity(User(u), Null, cache, TRUE), "select", "commit", {})
      BY <2>4
    <3>2. {} \in SUBSET {u}
      OBVIOUS
    <3> QED
      BY <2>1, <2>2, <3>1, <3>2
  <2>5. CASE \E w, links : Start(p, w, Entity(User(u), links, db[User(u)], FALSE), "select", "sync", {u})
    <3>1. PICK w, links : Start(p, w, Entity(User(u), links, db[User(u)], FALSE), "select", "sync", {u})
      BY <2>5
    <3>2. {u} \in SUBSET {u}
      OBVIOUS
    <3> QED
      BY <2>1, <2>2, <3>1, <3>2
  <2> QED
    BY <2>3, <2>4, <2>5
<1>3. UsersStay(p)'
  BY <1>2, NoRowsEmpty, RowsDiffer DEF UsersStay, Busy
<1> QED
  BY <1>1, <1>2, <1>3, UsersMoveOnly

LEMMA StartsRoleUsers ==
  ASSUME TypeInv, UsersInv, NEW p \in Requests, pc[p] = "idle", NEW r \in Roles, StartsRole(p, r)
  PROVE  UsersInv'
<1>1. p \in Procs /\ Moves(p)
  BY Processes, StartsRoleTyped
<1>2. db' = db /\ out'[p] = NoRows /\ todo'[p] = {} /\ held'[p].row = Role(r)
  <2>1. ASSUME NEW w, NEW links, NEW cache, NEW dirty, NEW to, NEW then,
               Start(p, w, Entity(Role(r), links, cache, dirty), to, then, {})
        PROVE  db' = db /\ out'[p] = NoRows /\ todo'[p] = {} /\ held'[p].row = Role(r)
    <3> DEFINE e == Entity(Role(r), links, cache, dirty)
    <3>1. e.row = Role(r) /\ Start(p, w, e, to, then, {})
      BY <2>1 DEF Entity
    <3> HIDE DEF e
    <3> QED
      BY <1>1, <3>1, Started
  <2> QED
    BY <2>1 DEF StartsRole
<1>3. UsersStay(p)'
  BY <1>2, NoRowsEmpty, RowsDiffer DEF UsersStay
<1> QED
  BY <1>1, <1>2, <1>3, UsersMoveOnly

\* What a process has after its first statement.
LEMMA CreatedUser ==
  ASSUME TypeInv, NEW p \in Requests, CreateUser(p)
  PROVE  \E u \in Users :
           /\ out'[p] = Only(User(u), {}) /\ DOMAIN out'[p] = {User(u)} /\ out'[p][User(u)] = {}
           /\ db[User(u)] = Null /\ Take(p, Task({u}, {}, {u}, {})) /\ pc'[p] = "commit"
           /\ todo'[p] = {} /\ UNCHANGED <<db, held, plan, todo, next>>
<1>1. PICK u \in Users : /\ db[User(u)] = Null /\ Take(p, Task({u}, {}, {u}, {}))
                         /\ out' = [out EXCEPT ![p] = Only(User(u), {})]
  BY DEF CreateUser
<1>2. p \in Procs /\ AreFunctions /\ todo[p] = {}
  BY Processes, IdlePlaced DEF TypeInv, CreateUser, Idle
<1> QED
  BY <1>1, <1>2, OnlyTyped DEF CreateUser, AreFunctions

LEMMA CreatedRole ==
  ASSUME TypeInv, NEW p \in Requests, CreateRole(p)
  PROVE  \E r \in Roles :
           /\ out'[p] = Only(Role(r), TRUE) /\ DOMAIN out'[p] = {Role(r)}
           /\ ~db[Role(r)] /\ Take(p, Task({}, {r}, {}, {})) /\ pc'[p] = "commit"
           /\ todo'[p] = {} /\ UNCHANGED <<db, held, plan, todo, next>>
<1>1. PICK r \in Roles : /\ ~db[Role(r)] /\ Take(p, Task({}, {r}, {}, {}))
                         /\ out' = [out EXCEPT ![p] = Only(Role(r), TRUE)]
  BY DEF CreateRole
<1>2. p \in Procs /\ AreFunctions /\ todo[p] = {}
  BY Processes, IdlePlaced DEF TypeInv, CreateRole, Idle
<1> QED
  BY <1>1, <1>2, OnlyTyped DEF CreateRole, AreFunctions

LEMMA Granted ==
  ASSUME TypeInv, NEW p \in Scripts, NEW users, NEW to, Grant(p, users, to)
  PROVE  /\ DOMAIN out'[p] \subseteq AdminRows(users) /\ \A c \in DOMAIN out'[p] : out'[p][c] = TRUE
         /\ pc'[p] = to /\ todo'[p] = users /\ pc[p] = "idle"
         /\ UNCHANGED <<db, held, plan, next>>
         /\ Take(p, Task(Holders(p, Admin) \cup users, {Admin}, users, Holders(p, Admin) \ users))
<1>1. AreFunctions /\ p \in Procs
  BY Processes DEF TypeInv
<1> DEFINE missing == {c \in AdminRows(users) : ~db[c]}
<1>2. out'[p] = [c \in missing |-> TRUE]
  BY <1>1 DEF Grant, AreFunctions
<1>3. /\ pc'[p] = to /\ todo'[p] = users /\ pc[p] = "idle" /\ UNCHANGED <<db, held, plan, next>>
  BY <1>1 DEF Grant, Idle, AreFunctions
<1>4. Take(p, Task(Holders(p, Admin) \cup users, {Admin}, users, Holders(p, Admin) \ users))
  BY Zenon DEF Grant
<1> QED
  BY <1>2, <1>3, <1>4

LEMMA AdminRowsAre ==
  ASSUME NEW users
  PROVE  /\ \A u \in Users : User(u) \notin AdminRows(users)
         /\ \A r \in Roles : Role(r) \in AdminRows(users) => r = Admin
         /\ \A u \in Users, r \in Roles : Has(u, r) \in AdminRows(users) => u \in users /\ r = Admin
         /\ \A r \in Roles, q \in Permissions : Grants(r, q) \in AdminRows(users) => r = Admin
<1>1. ASSUME NEW c \in AdminRows(users)
      PROVE  \/ \E q \in Permissions : c = Permission(q)
             \/ c = Role(Admin)
             \/ \E q \in Permissions : c = Grants(Admin, q)
             \/ \E u \in users : c = Has(u, Admin)
  BY DEF AdminRows
<1>2. \A u \in Users : User(u) \notin AdminRows(users)
  BY <1>1, RowsDiffer
<1>3. \A r \in Roles : Role(r) \in AdminRows(users) => r = Admin
  BY <1>1, RowsDiffer
<1>4. \A u \in Users, r \in Roles : Has(u, r) \in AdminRows(users) => u \in users /\ r = Admin
  BY <1>1, RowsDiffer
<1>5. \A r \in Roles, q \in Permissions : Grants(r, q) \in AdminRows(users) => r = Admin
  BY <1>1, RowsDiffer
<1> QED
  BY <1>2, <1>3, <1>4, <1>5

LEMMA CallUsers ==
  ASSUME TypeInv, UsersInv, NEW p \in Requests, Call(p)
  PROVE  UsersInv'
<1>1. p \in Procs /\ Moves(p) /\ pc[p] = "idle" /\ AreFunctions
  BY Processes, CallTyped, Calls DEF TypeInv
<1>2. UsersStay(p)
  BY <1>1 DEF UsersInv
<1>3. ASSUME NEW how \in Ended, Answer(p, how) PROVE UsersInv'
  <2>1. pc'[p] = how /\ out' = out /\ todo' = todo /\ db' = db
    BY <1>1, <1>3 DEF Answer, AreFunctions
  <2>2. UsersStay(p)'
    BY <1>2, <2>1 DEF UsersStay, Busy
  <2> QED
    BY <1>1, <2>1, <2>2, UsersMoveOnly
<1>4. CASE CreateUser(p)
  <2>1. PICK u \in Users : /\ DOMAIN out'[p] = {User(u)} /\ out'[p][User(u)] = {}
                           /\ pc'[p] = "commit" /\ todo'[p] = {} /\ db' = db
    BY <1>4, CreatedUser
  <2>2. UsersStay(p)'
    BY <2>1, RowsDiffer, NullApart DEF UsersStay, Busy
  <2> QED
    BY <1>1, <2>1, <2>2, UsersMoveOnly
<1>5. CASE CreateRole(p)
  <2>1. PICK r \in Roles : DOMAIN out'[p] = {Role(r)} /\ pc'[p] = "commit" /\ todo'[p] = {} /\ db' = db
    BY <1>5, CreatedRole
  <2>2. UsersStay(p)'
    BY <2>1, RowsDiffer DEF UsersStay, Busy
  <2> QED
    BY <1>1, <2>1, <2>2, UsersMoveOnly
<1> QED
  BY <1>1, <1>3, <1>4, <1>5, Calls, StartsUserUsers, StartsRoleUsers

LEMMA CommandUsers ==
  ASSUME TypeInv, UsersInv, NEW p \in Scripts, Command(p)
  PROVE  UsersInv'
<1>1. p \in Procs /\ Moves(p)
  BY Processes, CommandTyped
<1>2. ASSUME NEW users \in SUBSET Users, NEW to \in {"commit", "sync"}, Grant(p, users, to),
             \A u \in users : db[User(u)] # Null
      PROVE  UsersInv'
  <2>1. /\ DOMAIN out'[p] \subseteq AdminRows(users) /\ pc'[p] = to /\ todo'[p] = users /\ db' = db
    BY <1>2, Granted
  <2>2. UsersStay(p)'
    BY <1>2, <2>1, AdminRowsAre DEF UsersStay, Busy
  <2> QED
    BY <1>1, <2>1, <2>2, UsersMoveOnly
<1>3. CASE Refresh(p) \/ MakeAdmin(p)
  <2>1. CASE Refresh(p)
    BY <1>2, <2>1 DEF Refresh
  <2>2. CASE MakeAdmin(p)
    <3>1. PICK u \in Users : db[User(u)] # Null /\ Grant(p, {u}, "sync")
      BY <2>2 DEF MakeAdmin
    <3> QED
      BY <1>2, <3>1
  <2> QED
    BY <1>3, <2>1, <2>2
<1>4. CASE SyncPermissions(p)
  <2>1. pc'[p] = "sync" /\ todo'[p] = Known(p) /\ out'[p] = NoRows /\ db' = db
    BY <1>1, <1>4, Started DEF SyncPermissions, Idle
  <2>2. UsersStay(p)'
    BY <2>1, NoRowsEmpty DEF UsersStay, Known, Busy
  <2> QED
    BY <1>1, <2>1, <2>2, UsersMoveOnly
<1> QED
  BY <1>3, <1>4 DEF Command

LEMMA WriteUsers ==
  ASSUME TypeInv, UsersInv, NEW p \in Procs, Write(p), ~ConstraintViolated(p)
  PROVE  UsersInv'
<1>1. Moves(p) /\ pc[p] = "write" /\ AreFunctions /\ Placed(p) /\ UsersStay(p)
  BY WriteTyped DEF Write, TypeInv, UsersInv
<1>2. /\ DOMAIN out'[p] = Found(p) \cup DOMAIN out[p]
      /\ \A c \in Found(p) : out'[p][c] = IF plan[p][c] = Null THEN Sees(p, c) ELSE plan[p][c]
      /\ \A c \in DOMAIN out[p] \ Found(p) : out'[p][c] = out[p][c]
      /\ pc' = [pc EXCEPT ![p] = next[p]] /\ UNCHANGED <<db, held, todo>>
  BY Written
<1>3. Found(p) \subseteq DOMAIN plan[p]
  BY DEF Found
<1>4. ASSUME NEW u \in Users, User(u) \in DOMAIN out'[p] PROVE out'[p][User(u)] # Null
  <2>1. CASE User(u) \in Found(p)
    <3>1. db[User(u)] # Null
      BY <1>1, <1>3, <2>1, PlannedRows DEF UsersStay, Busy
    <3>2. Sees(p, User(u)) # Null
      BY <1>1, <3>1 DEF UsersStay, Sees
    <3> QED
      BY <1>2, <2>1, <3>2
  <2> QED
    BY <1>1, <1>2, <1>4, <2>1 DEF UsersStay
<1>5. ASSUME NEW u \in Users, NEW r \in Roles, Has(u, r) \in DOMAIN out'[p], out'[p][Has(u, r)]
      PROVE  db[User(u)] # Null
  <2>1. CASE Has(u, r) \in Found(p)
    BY <1>1, <1>3, <2>1, PlannedRows DEF UsersStay, Busy
  <2> QED
    BY <1>1, <1>2, <1>5, <2>1 DEF UsersStay
<1>6. UsersStay(p)'
  BY <1>1, <1>2, <1>4, <1>5 DEF UsersStay, Busy
<1> QED
  BY <1>1, <1>2, <1>6, UsersMoveOnly

LEMMA CommitUsers ==
  ASSUME TypeInv, UsersInv, NEW p \in Procs, Commit(p)
  PROVE  UsersInv'
<1>1. Moves(p) /\ AreFunctions /\ UsersStay(p)
  BY CommitTyped DEF TypeInv, UsersInv
<1>2. \A c \in Rows : db'[c] = Sees(p, c)
  BY DEF Commit
<1>3. \A u \in Users : db'[User(u)] = Sees(p, User(u)) /\ \A r \in Roles : db'[Has(u, r)] = Sees(p, Has(u, r))
  BY <1>2, RowKinds
<1>4. \A u \in Users : db[User(u)] # Null => db'[User(u)] # Null
  BY <1>1, <1>3 DEF UsersStay, Sees
<1>5. \A u \in Users, r \in Roles : db'[Has(u, r)] => db'[User(u)] # Null
  BY <1>1, <1>3, <1>4 DEF UsersStay, Sees, UsersInv, HoldersAreUsers
<1>6. UsersStay(p)'
  <2>1. out'[p] = NoRows /\ pc'[p] \notin Busy /\ todo'[p] \subseteq todo[p]
    BY <1>1 DEF Commit, Forget, AreFunctions, Busy
  <2>2. \A u \in todo'[p] : u \in Users /\ db[User(u)] # Null
    BY <1>1, <2>1 DEF UsersStay, TypeInv, Typed
  <2> QED
    BY <1>4, <2>1, <2>2, NoRowsEmpty DEF UsersStay
<1> QED
  BY <1>1, <1>4, <1>5, <1>6, UsersMove

LEMMA StepUsers ==
  ASSUME TypeInv, UsersInv, NEW p \in Procs, Step(p)
  PROVE  UsersInv'
<1>1. Moves(p) /\ AreFunctions /\ Typed(p) /\ Placed(p) /\ UsersStay(p)
  BY StepOfTyped DEF TypeInv, UsersInv
<1>2. CASE List(p)
  <2>1. PICK r \in Roles : held[p].row = Role(r)
    BY <1>1, <1>2 DEF Placed, Listing, List, RoleRows
  <2>2. todo'[p] = Holders(p, r) /\ pc'[p] = "sync" /\ UNCHANGED <<db, out>>
    BY <1>1, <1>2, <2>1, Parts DEF List, AreFunctions
  <2>3. \A u \in Holders(p, r) : db[User(u)] # Null
    BY <1>1 DEF Holders, Sees, UsersStay, UsersInv, HoldersAreUsers
  <2>4. UsersStay(p)'
    BY <1>1, <2>2, <2>3 DEF UsersStay, Busy
  <2> QED
    BY <1>1, <2>2, <2>4, UsersMoveOnly
<1>3. CASE SyncUser(p)
  <2>1. UNCHANGED <<db, out>> /\ todo'[p] \subseteq todo[p] /\ pc[p] = "sync"
    <3>1. UNCHANGED <<db, out>> /\ pc[p] = "sync"
      BY <1>3 DEF SyncUser
    <3>2. \A u \in todo[p] : todo' = [todo EXCEPT ![p] = @ \ {u}] => todo'[p] = todo[p] \ {u}
      BY <1>1 DEF AreFunctions
    <3>3. todo' = todo \/ \E u \in todo[p] : todo' = [todo EXCEPT ![p] = @ \ {u}]
      BY <1>3 DEF SyncUser
    <3> QED
      BY <3>1, <3>2, <3>3
  <2>2. pc'[p] \in Busy => \E u \in todo[p] : held'[p].row = User(u)
    BY <1>1, <1>3 DEF SyncUser, AreFunctions, Busy, Entity
  <2>3. UsersStay(p)'
    BY <1>1, <2>1, <2>2, RowsDiffer DEF UsersStay
  <2> QED
    BY <1>1, <2>1, <2>3, UsersMoveOnly
<1>4. CASE Select(p)
  <2>1. UNCHANGED <<db, out, held, todo>> /\ pc[p] = "select"
    BY <1>4 DEF Select
  <2>2. UsersStay(p)'
    BY <1>1, <2>1 DEF UsersStay, Busy
  <2> QED
    BY <1>1, <2>1, <2>2, UsersMoveOnly
<1>5. ASSUME Fail(p), pc[p] \in Working PROVE UsersInv'
  <2>1. out'[p] = NoRows /\ todo'[p] = {} /\ pc'[p] \notin Busy /\ db' = db
    BY <1>1, <1>5 DEF Fail, Forget, AreFunctions, Busy
  <2>2. UsersStay(p)'
    BY <2>1, NoRowsEmpty DEF UsersStay
  <2> QED
    BY <1>1, <2>1, <2>2, UsersMoveOnly
<1>6. CASE Delete(p)
  <2>1. PICK r \in Roles : held[p].row = Role(r)
    BY <1>1, <1>6 DEF Placed, Delete, RoleRows
  <2>2. CASE db[Role(r)]
    <3>1. out'[p] = [c \in {Role(r)} \cup Cascade(p, r) |-> FALSE]
          /\ pc' = [pc EXCEPT ![p] = "commit"] /\ UNCHANGED <<db, todo>>
      BY <1>6, <2>1, <2>2, Deleted
    <3>2. \A u \in Users : User(u) \notin DOMAIN out'[p]
      BY <3>1, RowsDiffer, LinksOfRole DEF Cascade
    <3>3. \A c \in DOMAIN out'[p] : ~out'[p][c]
      BY <3>1
    <3>4. UsersStay(p)'
      BY <1>1, <3>1, <3>2, <3>3 DEF UsersStay, Busy, AreFunctions
    <3> QED
      BY <1>1, <3>1, <3>4, UsersMoveOnly
  <2>3. CASE ~db[Role(r)]
    BY <1>5, <1>6, <2>1, <2>3, Parts DEF Delete
  <2> QED
    BY <2>2, <2>3
<1>7. CASE Write(p) /\ ConstraintViolated(p)
  BY <1>5, <1>7 DEF Write
<1> QED
  BY <1>2, <1>3, <1>4, <1>5, <1>6, <1>7, WriteUsers, CommitUsers DEF Step, Abort

\* Users are never deleted: who has a role, or is being synchronised, is there.
THEOREM UsersInOrder == Spec => []UsersInv
<1>1. Init => UsersInv
  <2> SUFFICES ASSUME Init
               PROVE  UsersInv
    OBVIOUS
  <2>1. PICK admins \in (SUBSET Users) \ {{}} : db = Created(admins)
    BY DEF Init
  <2>2. ASSUME NEW u \in Users, NEW r \in Roles, db[Has(u, r)] PROVE db[User(u)] # Null
    <3>1. Has(u, r) \in Rows /\ Has(u, r)[1] = "user_roles" /\ Has(u, r)[2] = u
      BY RowKinds DEF Has
    <3>2. u \in admins
      BY <2>1, <2>2, <3>1 DEF Created
    <3>3. User(u) \in Rows /\ User(u)[1] = "users" /\ User(u)[2] = u
      BY RowKinds DEF User
    <3> QED
      BY <2>1, <3>2, <3>3, NullApart, AccessAssumption DEF Created
  <2>3. \A p \in Procs : UsersStay(p)
    BY NoRowsEmpty DEF Init, UsersStay, Busy
  <2> QED
    BY <2>2, <2>3 DEF UsersInv, HoldersAreUsers
<1>2. TypeInv /\ UsersInv /\ [Next]_vars => UsersInv'
  <2> SUFFICES ASSUME TypeInv, UsersInv, [Next]_vars
               PROVE  UsersInv'
    OBVIOUS
  <2>1. CASE UNCHANGED vars
    BY <2>1 DEF vars, local, UsersInv, HoldersAreUsers, UsersStay
  <2>2. CASE ServerCrash
    <3>1. ASSUME NEW p \in Procs PROVE UsersStay(p)'
      <4>1. CASE Stays(p)
        BY <2>2, <4>1, CrashTyped DEF UsersInv, UsersStay, Stays
      <4>2. CASE Ends(p)
        BY <4>2, NoRowsEmpty DEF Ends, UsersStay, Busy
      <4> QED
        BY <2>2, <4>1, <4>2, CrashTyped
    <3> QED
      BY <2>2, <3>1, CrashTyped DEF UsersInv, HoldersAreUsers
  <2>3. CASE Restart
    <3>1. \A u \in Users : db'[User(u)] = db[User(u)] /\ \A r \in Roles : db'[Has(u, r)] = db[Has(u, r)]
      BY <2>3, RestartTyped, RowKinds, RowsDiffer
    <3>2. todo'[Boot] \subseteq Known(Boot) /\ pc'[Boot] = "sync" /\ out' = out /\ pc[Boot] = "idle"
      BY <2>3, RestartTyped, Processes DEF Restart, TypeInv, AreFunctions
    <3>3. UsersStay(Boot)'
      BY <3>1, <3>2, Processes, IdlePlaced, NoRowsEmpty DEF UsersStay, Known, Busy
    <3>4. Moves(Boot) /\ \A u \in Users, r \in Roles : db[Has(u, r)] => db[User(u)] # Null
      BY <2>3, RestartTyped DEF UsersInv, HoldersAreUsers
    <3> QED
      BY <3>1, <3>3, <3>4, Processes, UsersMove
  <2> QED
    BY <2>1, <2>2, <2>3, Steps, CallUsers, CommandUsers, StepUsers
<1> QED
  BY <1>1, <1>2, TypesInOrder, PTL DEF Spec

--------------------------------------------------------------------------------
(* The history keeps processes that disturb each other apart.                  *)

HistoryInv == Apart /\ \A p \in Procs : AtWork(p) => Bounded(p) /\ Recorded(p)

LEMMA DisturbParts ==
  ASSUME NEW w, NEW v, NEW x, NEW y, x.users = w.users, x.changes = w.changes,
         y.users = v.users, y.changes = v.changes
  PROVE  (Disturb(x, y) <=> Disturb(w, v)) /\ (Disturb(w, v) <=> Disturb(v, w))
BY DEF Disturb

LEMMA StaysAtWork ==
  ASSUME TypeInv, NEW o \in Procs, Stays(o), AtWork(o)'
  PROVE  /\ AtWork(o) /\ work[o] \in Tasks
         /\ work'[o].users = work[o].users /\ work'[o].changes = work[o].changes
         /\ work'[o].fixes = work[o].fixes /\ work'[o].breaks = work[o].breaks
         /\ Alone(o)' => Alone(o)
BY DisturbedTyped DEF Stays, AtWork, Alone

\* Nobody is nearer to another than before.
LEMMA ApartStays ==
  ASSUME TypeInv, Apart, \A o \in Procs : AtWork(o)' => Stays(o)
  PROVE  Apart'
<1> SUFFICES ASSUME NEW p \in Procs, NEW o \in Procs, Alone(p)', AtWork(o)', o # p
             PROVE  ~Disturb(work'[o], work'[p]) /\ ~Disturb(work'[p], work'[o])
  BY DEF Apart
<1>1. AtWork(p)' /\ Stays(p) /\ Stays(o)
  BY DEF Alone, AtWork
<1>2. Alone(p) /\ AtWork(o)
  BY <1>1, StaysAtWork
<1>3. ~Disturb(work[o], work[p])
  BY <1>2 DEF Apart
<1>4. /\ work'[o].users = work[o].users /\ work'[o].changes = work[o].changes
      /\ work'[p].users = work[p].users /\ work'[p].changes = work[p].changes
  BY <1>1, StaysAtWork
<1> QED
  BY <1>3, <1>4, DisturbParts

LEMMA ApartTake ==
  ASSUME TypeInv, Apart, NEW p \in Procs, NEW w \in Tasks, Take(p, w), Moves(p)
  PROVE  Apart'
<1> SUFFICES ASSUME NEW x \in Procs, NEW y \in Procs, Alone(x)', AtWork(y)', y # x
             PROVE  ~Disturb(work'[y], work'[x]) /\ ~Disturb(work'[x], work'[y])
  BY DEF Apart
<1>1. \A o \in Procs \ {p} : Stays(o)
  BY DEF Moves
<1>2. /\ work'[p].users = w.users /\ work'[p].changes = w.changes
      /\ \A o \in Procs \ {p} : work[o] # Null =>
           IF Disturb(work[o], w) THEN ~work'[o].alone /\ ~work'[p].alone ELSE work'[o] = work[o]
  BY TakeTyped
<1>3. CASE x = p
  <2>1. AtWork(y) /\ work'[y].users = work[y].users /\ work'[y].changes = work[y].changes
    BY <1>1, <1>3, StaysAtWork
  <2>2. ~Disturb(work[y], w)
    BY <1>2, <1>3, <2>1 DEF Alone, AtWork
  <2> QED
    BY <1>2, <1>3, <2>1, <2>2, DisturbParts
<1>4. CASE y = p
  <2>1. Alone(x) /\ work'[x].users = work[x].users /\ work'[x].changes = work[x].changes
    BY <1>1, <1>4, StaysAtWork DEF Alone, AtWork
  <2>2. ~Disturb(work[x], w)
    BY <1>2, <1>4, <2>1 DEF Alone
  <2> QED
    BY <1>2, <1>4, <2>1, <2>2, DisturbParts
<1>5. CASE x # p /\ y # p
  <2>1. Stays(x) /\ Stays(y) /\ AtWork(x)'
    BY <1>1, <1>5 DEF Alone, AtWork
  <2>2. Alone(x) /\ AtWork(y)
    BY <2>1, StaysAtWork
  <2>3. ~Disturb(work[y], work[x])
    BY <2>2 DEF Apart
  <2> QED
    BY <2>1, <2>3, StaysAtWork, DisturbParts
<1> QED
  BY <1>3, <1>4, <1>5

\* What a process may write, when another takes a step.
LEMMA BoundedStays ==
  ASSUME TypeInv, NEW o \in Procs, Stays(o), AtWork(o)', Bounded(o),
         work[o].changes = {} \/ stale \subseteq stale',
         \A r \in work[o].changes, u \in Users : db'[Has(u, r)] => db[Has(u, r)] \/ u \in stale'
  PROVE  Bounded(o)'
<1>1. /\ work'[o].users = work[o].users /\ work'[o].changes = work[o].changes
      /\ work'[o].fixes = work[o].fixes /\ work'[o].breaks = work[o].breaks
  BY StaysAtWork
<1>2. /\ out'[o] = out[o] /\ pc'[o] = pc[o] /\ held'[o] = held[o] /\ todo'[o] = todo[o]
  BY DEF Stays
<1>3. Touched(o) \subseteq Touched(o)'
  BY <1>1 DEF Touched
<1>4. \A c : Within(o, c) => Within(o, c)'
  BY <1>1, <1>3 DEF Within
<1>5. \A r \in work[o].changes, u \in Users : db'[Has(u, r)] => u \in Touched(o)'
  <2>1. \A r \in work[o].changes, u \in Users : u \in stale' => u \in Touched(o)'
    BY <1>1 DEF Touched
  <2> QED
    BY <1>3, <2>1 DEF Bounded
<1>6. todo'[o] \subseteq Touched(o)'
  BY <1>2, <1>3 DEF Bounded
<1>7. \A c \in DOMAIN out'[o] : Within(o, c)'
  BY <1>2, <1>4 DEF Bounded
<1>8. ASSUME pc'[o] \in Busy PROVE Within(o, held[o].row)'
  <2>1. Within(o, held[o].row)
    BY <1>2, <1>8 DEF Bounded
  <2> QED
    BY <1>1, <1>2, <1>3, <2>1 DEF Within
<1>9. work'[o].fixes \subseteq work'[o].users /\ work'[o].breaks \subseteq work'[o].users
  BY <1>1 DEF Bounded
<1>10. \A r \in work'[o].changes, u \in Users : db'[Has(u, r)] => u \in Touched(o)'
  BY <1>1, <1>5
<1> QED
  BY <1>6, <1>7, <1>8, <1>9, <1>10 DEF Bounded

LEMMA BoundedBegin ==
  ASSUME NEW p \in Procs, NEW w, work'[p].users = w.users, work'[p].changes = w.changes,
         work'[p].fixes = w.fixes, work'[p].breaks = w.breaks,
         w.fixes \subseteq w.users, w.breaks \subseteq w.users, todo'[p] \subseteq w.users,
         \A u \in Users, c \in DOMAIN out'[p] :
           c = User(u) \/ (\E r \in Roles : c = Has(u, r)) => u \in w.users,
         \A r \in Roles, c \in DOMAIN out'[p] :
           c = Role(r) \/ (\E q \in Permissions : c = Grants(r, q)) => r \in w.changes,
         pc'[p] \in Busy => (\E u \in w.users : held'[p].row = User(u))
                              \/ \E r \in w.changes : held'[p].row = Role(r),
         \A r \in w.changes, u \in Users : db'[Has(u, r)] => u \in w.users
  PROVE  Bounded(p)'
<1>1. w.users \subseteq Touched(p)'
  BY DEF Touched
<1>2. \A c \in DOMAIN out'[p] : Within(p, c)'
  BY <1>1 DEF Within
<1>3. pc'[p] \in Busy => Within(p, held[p].row)'
  BY <1>1, RowsDiffer DEF Within
<1> QED
  BY <1>1, <1>2, <1>3 DEF Bounded

LEMMA HistoryTake ==
  ASSUME TypeInv, HistoryInv, NEW p \in Procs, NEW w \in Tasks, Take(p, w), Moves(p),
         \A u \in Users, r \in Roles : db'[Has(u, r)] => db[Has(u, r)], Bounded(p)'
  PROVE  HistoryInv'
<1>1. Apart'
  BY ApartTake DEF HistoryInv
<1>2. /\ stale \subseteq stale' /\ work'[p].users = w.users
      /\ \A o \in Procs \ {p} : work[o] # Null =>
           IF Disturb(work[o], w) THEN work[o].users \subseteq stale' ELSE work'[o] = work[o]
      /\ ~work'[p].alone => w.users \subseteq stale'
  BY TakeTyped
<1>3. Recorded(p)'
  BY <1>2 DEF Recorded
<1>4. ASSUME NEW o \in Procs \ {p}, AtWork(o)' PROVE Bounded(o)' /\ Recorded(o)'
  <2>1. Stays(o) /\ AtWork(o) /\ work'[o].users = work[o].users /\ work[o] \in Tasks
    BY <1>4, StaysAtWork DEF Moves
  <2>2. Bounded(o) /\ Recorded(o)
    BY <2>1 DEF HistoryInv
  <2>3. work[o].changes \subseteq Roles
    BY <2>1 DEF Tasks
  <2>4. Bounded(o)'
    BY <1>2, <1>4, <2>1, <2>2, <2>3, BoundedStays
  <2>5. Recorded(o)'
    BY <1>2, <2>1, <2>2 DEF Recorded, AtWork
  <2> QED
    BY <2>4, <2>5
<1> QED
  BY <1>1, <1>3, <1>4 DEF HistoryInv

LEMMA HistorySame ==
  ASSUME TypeInv, HistoryInv, NEW p \in Procs, Moves(p), UNCHANGED <<db, work, stale>>,
         AtWork(p) => Bounded(p)'
  PROVE  HistoryInv'
<1>1. Apart'
  BY DEF HistoryInv, Apart, Alone, AtWork
<1>2. AtWork(p) => Recorded(p)'
  BY DEF HistoryInv, Recorded
<1>3. ASSUME NEW o \in Procs \ {p}, AtWork(o)' PROVE Bounded(o)' /\ Recorded(o)'
  <2>1. Stays(o) /\ AtWork(o) /\ Bounded(o) /\ Recorded(o)
    BY <1>3 DEF Moves, HistoryInv, AtWork
  <2> QED
    BY <1>3, <2>1, BoundedStays DEF Recorded
<1> QED
  BY <1>1, <1>2, <1>3 DEF HistoryInv, AtWork

\* Some processes end, and nothing else happens.
LEMMA HistoryEnd ==
  ASSUME TypeInv, HistoryInv, UNCHANGED <<db, stale>>,
         \A o \in Procs : AtWork(o)' => Stays(o) /\ work'[o] = work[o]
  PROVE  HistoryInv'
<1>1. Apart'
  BY ApartStays DEF HistoryInv
<1>2. ASSUME NEW o \in Procs, AtWork(o)' PROVE Bounded(o)' /\ Recorded(o)'
  <2>1. Stays(o) /\ AtWork(o) /\ work'[o] = work[o]
    BY <1>2 DEF AtWork
  <2>2. Bounded(o) /\ Recorded(o)
    BY <2>1 DEF HistoryInv
  <2> QED
    BY <1>2, <2>1, <2>2, BoundedStays DEF Recorded
<1> QED
  BY <1>1, <1>2 DEF HistoryInv

LEMMA StartsUserHistory ==
  ASSUME TypeInv, HistoryInv, NEW p \in Requests, pc[p] = "idle", NEW u \in Users, StartsUser(p, u)
  PROVE  HistoryInv'
<1>1. p \in Procs /\ Moves(p)
  BY Processes, StartsUserTyped
<1>2. ASSUME NEW fixes \in SUBSET {u}, NEW e, NEW then, NEW users \in SUBSET {u}, e.row = User(u),
             Start(p, Task({u}, {}, fixes, {}), e, "select", then, users)
      PROVE  HistoryInv'
  <2> DEFINE w == Task({u}, {}, fixes, {})
  <2>1. w \in Tasks /\ w.users = {u} /\ w.changes = {} /\ w.fixes = fixes /\ w.breaks = {}
    BY <1>2, TaskTyped
  <2>2. Start(p, w, e, "select", then, users)
    BY <1>2
  <2> HIDE DEF w
  <2>3. /\ Take(p, w) /\ db' = db /\ DOMAIN out'[p] = {} /\ todo'[p] \subseteq {u}
        /\ held'[p].row = User(u)
    BY <1>1, <1>2, <2>2, Started, NoRowsEmpty
  <2>4. /\ work'[p].users = {u} /\ work'[p].changes = {} /\ work'[p].fixes = fixes /\ work'[p].breaks = {}
    BY <1>1, <2>1, <2>3, TakeTyped
  <2>5. Bounded(p)'
    BY <1>1, <2>1, <2>3, <2>4, BoundedBegin
  <2> QED
    BY <1>1, <2>1, <2>3, <2>5, HistoryTake
<1>3. \A links, cache, dirty : Entity(User(u), links, cache, dirty).row = User(u)
  BY DEF Entity
<1>4. {} \in SUBSET {u} /\ {u} \in SUBSET {u}
  OBVIOUS
<1>5. \/ \E e : e.row = User(u) /\ Start(p, Task({u}, {}, {}, {}), e, "select", "commit", {})
      \/ \E e : e.row = User(u) /\ Start(p, Task({u}, {}, {u}, {}), e, "select", "sync", {u})
  BY <1>3, Zenon DEF StartsUser
<1>6. CASE \E e : e.row = User(u) /\ Start(p, Task({u}, {}, {}, {}), e, "select", "commit", {})
  BY <1>2, <1>4, <1>6
<1>7. CASE \E e : e.row = User(u) /\ Start(p, Task({u}, {}, {u}, {}), e, "select", "sync", {u})
  BY <1>2, <1>4, <1>7
<1> QED
  BY <1>5, <1>6, <1>7

LEMMA StartsRoleHistory ==
  ASSUME TypeInv, HistoryInv, NEW p \in Requests, pc[p] = "idle", NEW r \in Roles, StartsRole(p, r)
  PROVE  HistoryInv'
<1>1. p \in Procs /\ Moves(p) /\ Holders(p, r) \subseteq Users
  BY Processes, StartsRoleTyped, SetsTyped
<1>2. ASSUME NEW fixes \in SUBSET Holders(p, r), NEW breaks \in SUBSET Holders(p, r),
             NEW e, NEW to, NEW then, e.row = Role(r),
             Start(p, Task(Holders(p, r), {r}, fixes, breaks), e, to, then, {})
      PROVE  HistoryInv'
  <2> DEFINE w == Task(Holders(p, r), {r}, fixes, breaks)
  <2>1. /\ w \in Tasks /\ w.users = Holders(p, r) /\ w.changes = {r} /\ w.fixes = fixes /\ w.breaks = breaks
    BY <1>1, <1>2, TaskTyped
  <2>2. Start(p, w, e, to, then, {})
    BY <1>2
  <2> HIDE DEF w
  <2>3. /\ Take(p, w) /\ db' = db /\ DOMAIN out'[p] = {} /\ todo'[p] = {}
        /\ held'[p].row = Role(r) /\ \A c : Sees(p, c) = db[c]
    BY <1>1, <1>2, <2>2, Started, NoRowsEmpty
  <2>4. /\ work'[p].users = w.users /\ work'[p].changes = w.changes
        /\ work'[p].fixes = w.fixes /\ work'[p].breaks = w.breaks
    BY <1>1, <2>1, <2>3, TakeTyped
  <2>5. \A u \in Users : db'[Has(u, r)] => u \in Holders(p, r)
    BY <2>3 DEF Holders
  <2>6. Bounded(p)'
    BY <1>1, <2>1, <2>3, <2>4, <2>5, BoundedBegin
  <2> QED
    BY <1>1, <2>1, <2>3, <2>6, HistoryTake
<1>3. \A links, cache, dirty : Entity(Role(r), links, cache, dirty).row = Role(r)
  BY DEF Entity
<1>4. {} \in SUBSET Holders(p, r) /\ Holders(p, r) \in SUBSET Holders(p, r)
  OBVIOUS
<1>5. \/ \E e : e.row = Role(r) /\ Start(p, Task(Holders(p, r), {r}, {}, {}), e, "select", "commit", {})
      \/ \E e : e.row = Role(r) /\ Start(p, Task(Holders(p, r), {r}, Holders(p, r), {}), e, "select", "list", {})
      \/ \E e : e.row = Role(r) /\ Start(p, Task(Holders(p, r), {r}, {}, Holders(p, r)), e, "delete", Null, {})
  BY <1>3, Zenon DEF StartsRole
<1>6. CASE \E e : e.row = Role(r) /\ Start(p, Task(Holders(p, r), {r}, {}, {}), e, "select", "commit", {})
  BY <1>2, <1>4, <1>6
<1>7. CASE \E e : e.row = Role(r) /\ Start(p, Task(Holders(p, r), {r}, Holders(p, r), {}), e, "select", "list", {})
  BY <1>2, <1>4, <1>7
<1>8. CASE \E e : e.row = Role(r) /\ Start(p, Task(Holders(p, r), {r}, {}, Holders(p, r)), e, "delete", Null, {})
  BY <1>2, <1>4, <1>8
<1> QED
  BY <1>5, <1>6, <1>7, <1>8

LEMMA CallHistory ==
  ASSUME TypeInv, LinksInv, HistoryInv, NEW p \in Requests, Call(p)
  PROVE  HistoryInv'
<1>1. p \in Procs /\ Moves(p) /\ pc[p] = "idle" /\ AreFunctions /\ work[p] = Null
  BY Processes, CallTyped, Calls, IdlePlaced DEF TypeInv
<1>2. ASSUME NEW how \in Ended, Answer(p, how) PROVE HistoryInv'
  BY <1>1, <1>2, HistorySame DEF Answer, AtWork
<1>3. CASE CreateUser(p)
  <2>1. PICK u \in Users : /\ DOMAIN out'[p] = {User(u)} /\ Take(p, Task({u}, {}, {u}, {}))
                           /\ pc'[p] = "commit" /\ todo'[p] = {} /\ db' = db
    BY <1>3, CreatedUser
  <2> DEFINE w == Task({u}, {}, {u}, {})
  <2>2. w \in Tasks /\ w.users = {u} /\ w.changes = {} /\ w.fixes = {u} /\ w.breaks = {} /\ Take(p, w)
    BY <2>1, TaskTyped
  <2> HIDE DEF w
  <2>3. /\ work'[p].users = w.users /\ work'[p].changes = w.changes
        /\ work'[p].fixes = w.fixes /\ work'[p].breaks = w.breaks
    BY <1>1, <2>2, TakeTyped
  <2>4. /\ \A v \in Users, c \in DOMAIN out'[p] :
             c = User(v) \/ (\E r \in Roles : c = Has(v, r)) => v \in w.users
        /\ \A r \in Roles, c \in DOMAIN out'[p] :
             c = Role(r) \/ (\E q \in Permissions : c = Grants(r, q)) => r \in w.changes
    BY <2>1, <2>2, RowsDiffer
  <2>5. Bounded(p)'
    BY <1>1, <2>1, <2>2, <2>3, <2>4, BoundedBegin DEF Busy
  <2> QED
    BY <1>1, <2>1, <2>2, <2>5, HistoryTake
<1>4. CASE CreateRole(p)
  <2>1. PICK r \in Roles : /\ DOMAIN out'[p] = {Role(r)} /\ Take(p, Task({}, {r}, {}, {}))
                           /\ pc'[p] = "commit" /\ todo'[p] = {} /\ db' = db /\ ~db[Role(r)]
    BY <1>4, CreatedRole
  <2> DEFINE w == Task({}, {r}, {}, {})
  <2>2. w \in Tasks /\ w.users = {} /\ w.changes = {r} /\ w.fixes = {} /\ w.breaks = {} /\ Take(p, w)
    BY <2>1, TaskTyped
  <2> HIDE DEF w
  <2>3. /\ work'[p].users = w.users /\ work'[p].changes = w.changes
        /\ work'[p].fixes = w.fixes /\ work'[p].breaks = w.breaks
    BY <1>1, <2>2, TakeTyped
  <2>4. /\ \A v \in Users, c \in DOMAIN out'[p] :
             c = User(v) \/ (\E s \in Roles : c = Has(v, s)) => v \in w.users
        /\ \A s \in Roles, c \in DOMAIN out'[p] :
             c = Role(s) \/ (\E q \in Permissions : c = Grants(s, q)) => s \in w.changes
    BY <2>1, <2>2, RowsDiffer
  <2>5. \A u \in Users : ~db'[Has(u, r)]
    BY <2>1, RowKinds, LinksOfRole DEF LinksInv, LinksHaveRoles
  <2>6. Bounded(p)'
    BY <1>1, <2>1, <2>2, <2>3, <2>4, <2>5, BoundedBegin DEF Busy
  <2> QED
    BY <1>1, <2>1, <2>2, <2>6, HistoryTake
<1> QED
  BY <1>1, <1>2, <1>3, <1>4, Calls, StartsUserHistory, StartsRoleHistory

LEMMA GrantHistory ==
  ASSUME TypeInv, HistoryInv, NEW p \in Scripts, NEW users \in SUBSET Users,
         NEW to \in {"commit", "sync"}, Grant(p, users, to)
  PROVE  HistoryInv'
<1>1. p \in Procs /\ Moves(p) /\ Holders(p, Admin) \subseteq Users /\ Admin \in Roles
  BY Processes, GrantTyped, SetsTyped, AccessAssumption
<1> DEFINE w == Task(Holders(p, Admin) \cup users, {Admin}, users, Holders(p, Admin) \ users)
<1>2. /\ w \in Tasks /\ w.users = Holders(p, Admin) \cup users /\ w.changes = {Admin}
      /\ w.fixes = users /\ w.breaks = Holders(p, Admin) \ users
  BY <1>1, TaskTyped
<1>3. /\ DOMAIN out'[p] \subseteq AdminRows(users) /\ pc'[p] = to /\ todo'[p] = users /\ pc[p] = "idle"
      /\ db' = db /\ Take(p, w)
  BY Granted
<1> HIDE DEF w
<1>4. /\ work'[p].users = w.users /\ work'[p].changes = w.changes
      /\ work'[p].fixes = w.fixes /\ work'[p].breaks = w.breaks
  BY <1>1, <1>2, <1>3, TakeTyped
<1>5. \A v \in Users, c \in DOMAIN out'[p] :
        c = User(v) \/ (\E r \in Roles : c = Has(v, r)) => v \in w.users
  BY <1>2, <1>3, AdminRowsAre
<1>6. \A r \in Roles, c \in DOMAIN out'[p] :
        c = Role(r) \/ (\E q \in Permissions : c = Grants(r, q)) => r \in w.changes
  BY <1>2, <1>3, AdminRowsAre
<1>7. \A u \in Users : db'[Has(u, Admin)] => u \in w.users
  BY <1>1, <1>2, <1>3, IdlePlaced DEF Holders
<1>8. Bounded(p)'
  BY <1>1, <1>2, <1>3, <1>4, <1>5, <1>6, <1>7, BoundedBegin DEF Busy
<1> QED
  BY <1>1, <1>2, <1>3, <1>8, HistoryTake

\* A synchronisation of all, by the script and at the start.
LEMMA SyncAllHistory ==
  ASSUME TypeInv, HistoryInv, NEW p \in Procs, Moves(p), NEW users \in SUBSET Users,
         Take(p, Task(users, {}, users, {})), todo'[p] = users, DOMAIN out'[p] = {}, pc'[p] = "sync",
         \A u \in Users, r \in Roles : db'[Has(u, r)] => db[Has(u, r)]
  PROVE  HistoryInv'
<1> DEFINE w == Task(users, {}, users, {})
<1>1. w \in Tasks /\ w.users = users /\ w.changes = {} /\ w.fixes = users /\ w.breaks = {} /\ Take(p, w)
  BY TaskTyped
<1> HIDE DEF w
<1>2. /\ work'[p].users = w.users /\ work'[p].changes = w.changes
      /\ work'[p].fixes = w.fixes /\ work'[p].breaks = w.breaks
  BY <1>1, TakeTyped
<1>3. Bounded(p)'
  BY <1>1, <1>2, BoundedBegin DEF Busy
<1> QED
  BY <1>1, <1>3, HistoryTake

LEMMA CommandHistory ==
  ASSUME TypeInv, HistoryInv, NEW p \in Scripts, Command(p)
  PROVE  HistoryInv'
<1>1. CASE Refresh(p)
  BY <1>1, GrantHistory DEF Refresh
<1>2. CASE MakeAdmin(p)
  BY <1>2, GrantHistory DEF MakeAdmin
<1>3. CASE SyncPermissions(p)
  <2>1. p \in Procs /\ Moves(p) /\ pc[p] = "idle"
    BY <1>3, Processes, CommandTyped DEF SyncPermissions, Idle
  <2>2. /\ Take(p, Task(Known(p), {}, Known(p), {})) /\ todo'[p] = Known(p) /\ out'[p] = NoRows
        /\ pc'[p] = "sync" /\ db' = db
    BY <1>3, <2>1, Started DEF SyncPermissions
  <2> QED
    BY <2>1, <2>2, SetsTyped, NoRowsEmpty, SyncAllHistory
<1> QED
  BY <1>1, <1>2, <1>3 DEF Command

LEMMA FailHistory ==
  ASSUME TypeInv, HistoryInv, NEW p \in Procs, pc[p] \in Working, Fail(p)
  PROVE  HistoryInv'
<1>1. Moves(p) /\ work' = [work EXCEPT ![p] = Null] /\ UNCHANGED <<db, stale>> /\ AreFunctions
  BY FailTyped DEF Fail, TypeInv
<1>2. work'[p] = Null /\ \A o \in Procs \ {p} : Stays(o) /\ work'[o] = work[o]
  BY <1>1 DEF Moves, AreFunctions
<1> QED
  BY <1>1, <1>2, HistoryEnd DEF AtWork

\* The users that a process sees to have a role it changes, it may write.
LEMMA SeenHolders ==
  ASSUME NEW p \in Procs, Bounded(p), NEW r \in Roles, r \in work[p].changes,
         NEW u \in Users, Sees(p, Has(u, r))
  PROVE  u \in Touched(p)
BY DEF Sees, Bounded, Within

LEMMA WriteHistory ==
  ASSUME TypeInv, HistoryInv, NEW p \in Procs, Write(p), ~ConstraintViolated(p)
  PROVE  HistoryInv'
<1>1. Moves(p) /\ pc[p] = "write" /\ AreFunctions /\ Placed(p) /\ Bounded(p)
  BY WriteTyped DEF Write, TypeInv, HistoryInv, AtWork, Placed
<1>2. /\ DOMAIN out'[p] = Found(p) \cup DOMAIN out[p] /\ UNCHANGED <<db, held, todo, work, stale>>
      /\ Found(p) \subseteq DOMAIN plan[p]
  BY Written DEF Found
<1>3. Within(p, held[p].row)
  BY <1>1 DEF Bounded, Busy
<1>4. ASSUME NEW c \in DOMAIN plan[p] PROVE Within(p, c)
  <2>1. \A u \in Users : c = User(u) \/ (\E r \in Roles : c = Has(u, r)) => u \in Touched(p)
    BY <1>1, <1>3, <1>4, PlannedRows DEF Within
  <2>2. \A r \in Roles : c = Role(r) \/ (\E q \in Permissions : c = Grants(r, q)) => r \in work[p].changes
    BY <1>1, <1>3, <1>4, PlannedRows DEF Within
  <2> QED
    BY <2>1, <2>2 DEF Within
<1>5. \A c : Within(p, c)' <=> Within(p, c)
  BY <1>2 DEF Within, Touched
<1>6. Bounded(p)'
  <2>1. \A c \in DOMAIN out'[p] : Within(p, c)'
    BY <1>1, <1>2, <1>4, <1>5 DEF Bounded
  <2>2. Within(p, held[p].row)'
    BY <1>2, <1>3 DEF Within, Touched
  <2> QED
    BY <1>1, <1>2, <2>1, <2>2 DEF Bounded, Touched
<1> QED
  BY <1>1, <1>2, <1>6, HistorySame

LEMMA DeleteHistory ==
  ASSUME TypeInv, HistoryInv, NEW p \in Procs, Delete(p)
  PROVE  HistoryInv'
<1>1. Moves(p) /\ pc[p] = "delete" /\ AreFunctions /\ Placed(p) /\ Bounded(p)
  BY DeleteTyped DEF Delete, TypeInv, HistoryInv, AtWork, Placed
<1>2. PICK r \in Roles : held[p].row = Role(r)
  BY <1>1 DEF Placed, RoleRows
<1>3. CASE ~db[Role(r)]
  BY <1>1, <1>2, <1>3, FailHistory, Parts DEF Delete
<1>4. CASE db[Role(r)]
  <2>1. out'[p] = [c \in {Role(r)} \cup Cascade(p, r) |-> FALSE]
        /\ pc' = [pc EXCEPT ![p] = "commit"] /\ UNCHANGED <<db, held, todo, work, stale>>
    BY <1>2, <1>4, Deleted
  <2>2. r \in work[p].changes
    BY <1>1, <1>2 DEF Bounded, Within, Busy
  <2>3. ASSUME NEW c \in DOMAIN out'[p] PROVE Within(p, c)
    <3>1. c = Role(r) \/ (c \in LinksOf(r) /\ Sees(p, c))
      BY <2>1, <2>3 DEF Cascade, LinksOf
    <3>2. CASE c = Role(r)
      BY <2>2, <3>2, RowsDiffer DEF Within
    <3>3. CASE \E u \in Users : c = Has(u, r) /\ Sees(p, Has(u, r))
      <4>1. PICK u \in Users : c = Has(u, r) /\ Sees(p, Has(u, r))
        BY <3>3
      <4>2. u \in Touched(p)
        BY <1>1, <2>2, <4>1, SeenHolders
      <4> QED
        BY <4>1, <4>2, RowsDiffer DEF Within
    <3>4. CASE \E q \in Permissions : c = Grants(r, q)
      BY <2>2, <3>4, RowsDiffer DEF Within
    <3> QED
      BY <3>1, <3>2, <3>3, <3>4, LinkKinds
  <2>4. Bounded(p)'
    <3>1. \A c \in DOMAIN out'[p] : Within(p, c)'
      BY <2>1, <2>3 DEF Within, Touched
    <3>2. pc'[p] \notin Busy
      BY <1>1, <2>1 DEF AreFunctions, Busy
    <3> QED
      BY <1>1, <2>1, <3>1, <3>2 DEF Bounded, Touched
  <2> QED
    BY <1>1, <2>1, <2>4, HistorySame
<1> QED
  BY <1>3, <1>4

\* A commit, and what the others at work may then write.
LEMMA CommitHistory ==
  ASSUME TypeInv, HistoryInv, NEW p \in Procs, Commit(p)
  PROVE  HistoryInv'
<1>1. Moves(p) /\ AreFunctions /\ AtWork(p) /\ Bounded(p) /\ Recorded(p) /\ work[p] \in Tasks
  BY CommitTyped, NullApart DEF Commit, TypeInv, HistoryInv, AtWork, Placed, Typed
<1>2. \A u \in Users, r \in Roles : db'[Has(u, r)] = Sees(p, Has(u, r))
  BY RowKinds DEF Commit
<1>3. \/ UNCHANGED <<work, stale, todo, held>> /\ out'[p] = NoRows /\ pc'[p] = "sync"
      \/ /\ work' = [work EXCEPT ![p] = Null]
         /\ stale' = (stale \cup work[p].breaks) \ (IF work[p].alone THEN work[p].fixes ELSE {})
  BY <1>1 DEF Commit, AreFunctions
<1>4. \A o \in Procs \ {p} : Stays(o) /\ work'[o] = work[o]
  BY <1>1, <1>3 DEF Moves, AreFunctions
<1>5. Apart'
  <2>1. CASE work' = work
    BY <2>1 DEF HistoryInv, Apart, Alone, AtWork
  <2>2. CASE work' = [work EXCEPT ![p] = Null]
    <3>1. \A o \in Procs : AtWork(o)' => Stays(o)
      BY <1>1, <1>4, <2>2 DEF AtWork, AreFunctions
    <3> QED
      BY <3>1, ApartStays DEF HistoryInv
  <2> QED
    BY <1>3, <2>1, <2>2
<1>6. work[p].fixes \subseteq work[p].users
  BY <1>1 DEF Bounded
<1>7. ASSUME NEW o \in Procs \ {p}, AtWork(o)' PROVE Bounded(o)' /\ Recorded(o)'
  <2>1. AtWork(o) /\ Bounded(o) /\ Recorded(o) /\ work[o] \in Tasks /\ work'[o] = work[o]
    BY <1>4, <1>7, NullApart DEF HistoryInv, AtWork, TypeInv, Typed
  <2>2. Alone(p) => ~Disturb(work[o], work[p])
    BY <1>1, <1>7, <2>1 DEF HistoryInv, Apart
  <2>3. work[o].users \cap stale \subseteq stale'
    <3>1. CASE Alone(p)
      BY <1>3, <1>6, <2>2, <3>1 DEF Disturb
    <3>2. CASE ~Alone(p)
      BY <1>1, <1>3, <3>2 DEF Alone, AtWork
    <3> QED
      BY <3>1, <3>2
  <2>4. Recorded(o)'
    BY <2>1, <2>3 DEF Recorded
  <2>5. work[o].changes # {} /\ work[p].users # {} => ~Alone(p)
    BY <2>2 DEF Disturb
  <2>6. work[o].changes = {} \/ stale \subseteq stale'
    BY <1>1, <1>3, <1>6, <2>5 DEF Alone, AtWork
  <2>7. ASSUME NEW r \in work[o].changes, NEW u \in Users, db'[Has(u, r)]
        PROVE  db[Has(u, r)] \/ u \in stale'
    <3>1. r \in Roles
      BY <2>1, <2>7 DEF Tasks
    <3>2. CASE Has(u, r) \in DOMAIN out[p]
      <4>1. u \in Touched(p)
        BY <1>1, <3>1, <3>2 DEF Bounded, Within
      <4>2. CASE u \in stale
        BY <2>6, <2>7, <4>2
      <4>3. CASE u \in work[p].users
        BY <1>1, <2>5, <2>6, <2>7, <4>3 DEF Recorded, Alone, AtWork
      <4> QED
        BY <4>1, <4>2, <4>3 DEF Touched
    <3>3. CASE Has(u, r) \notin DOMAIN out[p]
      BY <1>2, <2>7, <3>1, <3>3 DEF Sees
    <3> QED
      BY <3>2, <3>3
  <2>8. Bounded(o)'
    BY <1>4, <1>7, <2>1, <2>6, <2>7, BoundedStays
  <2> QED
    BY <2>4, <2>8
<1>8. ASSUME AtWork(p)' PROVE Bounded(p)' /\ Recorded(p)'
  <2>1. UNCHANGED <<work, stale, todo, held>> /\ out'[p] = NoRows /\ pc'[p] = "sync"
    BY <1>1, <1>3, <1>8 DEF AtWork, AreFunctions
  <2>2. \A r \in work[p].changes, u \in Users : db'[Has(u, r)] => u \in Touched(p)
    BY <1>1, <1>2, SeenHolders DEF Tasks
  <2>3. Bounded(p)'
    BY <1>1, <2>1, <2>2, NoRowsEmpty DEF Bounded, Touched, Busy
  <2>4. Recorded(p)'
    BY <1>1, <2>1 DEF Recorded
  <2> QED
    BY <2>3, <2>4
<1> QED
  BY <1>5, <1>7, <1>8 DEF HistoryInv

LEMMA StepHistory ==
  ASSUME TypeInv, HistoryInv, NEW p \in Procs, Step(p)
  PROVE  HistoryInv'
<1>1. Moves(p) /\ AreFunctions /\ Typed(p) /\ Placed(p)
  BY StepOfTyped DEF TypeInv
<1>2. pc[p] \in Working => AtWork(p) /\ Bounded(p)
  BY <1>1 DEF HistoryInv, AtWork, Placed
<1>3. CASE List(p)
  <2>1. PICK r \in Roles : held[p].row = Role(r)
    BY <1>1, <1>3 DEF Placed, Listing, List, RoleRows
  <2>2. /\ todo'[p] = Holders(p, r) /\ pc'[p] = "sync" /\ UNCHANGED <<db, out, held, work, stale>>
        /\ pc[p] = "list"
    BY <1>1, <1>3, <2>1, Parts DEF List, AreFunctions
  <2>3. r \in work[p].changes
    BY <1>2, <2>1, <2>2 DEF Bounded, Within, Busy
  <2>4. Holders(p, r) \subseteq Touched(p)
    BY <1>2, <2>2, <2>3, SeenHolders DEF Holders
  <2>5. Bounded(p)'
    BY <1>2, <2>2, <2>4 DEF Bounded, Touched, Within, Busy
  <2> QED
    BY <1>1, <2>2, <2>5, HistorySame
<1>4. CASE SyncUser(p)
  <2>1. UNCHANGED <<db, out, work, stale>> /\ pc[p] = "sync"
    BY <1>4 DEF SyncUser
  <2>2. todo'[p] \subseteq todo[p] /\ (pc'[p] \in Busy => \E u \in todo[p] : held'[p].row = User(u))
    <3>1. \A u \in todo[p] : todo' = [todo EXCEPT ![p] = @ \ {u}] => todo'[p] = todo[p] \ {u}
      BY <1>1 DEF AreFunctions
    <3>2. todo' = todo \/ \E u \in todo[p] : todo' = [todo EXCEPT ![p] = @ \ {u}]
      BY <1>4 DEF SyncUser
    <3>3. pc'[p] \in Busy => \E u \in todo[p] : held'[p].row = User(u)
      BY <1>1, <1>4 DEF SyncUser, AreFunctions, Busy, Entity
    <3> QED
      BY <3>1, <3>2, <3>3
  <2>3. ASSUME pc'[p] \in Busy PROVE Within(p, held[p].row)'
    <3>1. PICK u \in todo[p] : held'[p].row = User(u)
      BY <2>2, <2>3
    <3>2. u \in Touched(p)
      BY <1>2, <2>1 DEF Bounded
    <3> QED
      BY <2>1, <3>1, <3>2, RowsDiffer DEF Within, Touched
  <2>4. Bounded(p)'
    BY <1>2, <2>1, <2>2, <2>3 DEF Bounded, Touched, Within
  <2> QED
    BY <1>1, <2>1, <2>4, HistorySame
<1>5. CASE Select(p)
  <2>1. UNCHANGED <<db, out, held, todo, work, stale>> /\ pc[p] = "select"
    BY <1>5 DEF Select
  <2>2. Bounded(p)'
    BY <1>2, <2>1 DEF Bounded, Touched, Within, Busy
  <2> QED
    BY <1>1, <2>1, <2>2, HistorySame
<1>6. CASE Write(p) /\ ConstraintViolated(p)
  BY <1>6, FailHistory DEF Write
<1> QED
  BY <1>3, <1>4, <1>5, <1>6, WriteHistory, DeleteHistory, CommitHistory, FailHistory DEF Step, Abort

\* Processes noted as undisturbed are apart from all others, each writes only
\* rows of its own users and roles, and who is disturbed leaves its users stale.
THEOREM HistoryInOrder == Spec => []HistoryInv
<1>1. Init => HistoryInv
  BY DEF Init, HistoryInv, Apart, Alone, AtWork
<1>2. TypeInv /\ LinksInv /\ HistoryInv /\ [Next]_vars => HistoryInv'
  <2> SUFFICES ASSUME TypeInv, LinksInv, HistoryInv, [Next]_vars
               PROVE  HistoryInv'
    OBVIOUS
  <2>1. CASE UNCHANGED vars
    BY <2>1, HistoryEnd DEF vars, local, Stays, WorkStays
  <2>2. CASE ServerCrash
    BY <2>2, CrashTyped, HistoryEnd DEF Ends, AtWork
  <2>3. CASE Restart
    <3>1. \A u \in Users, r \in Roles : db'[Has(u, r)] = db[Has(u, r)]
      BY <2>3, RestartTyped, RowKinds, RowsDiffer
    <3>2. /\ Moves(Boot) /\ pc'[Boot] = "sync" /\ out' = out /\ pc[Boot] = "idle" /\ Boot \in Procs
      BY <2>3, RestartTyped, Processes
    <3>3. DOMAIN out'[Boot] = {}
      BY <3>2, IdlePlaced, NoRowsEmpty
    <3> DEFINE seen == IF policed THEN {} ELSE Known(Boot)
    <3>4. /\ Take(Boot, Task(seen, {}, seen, {})) /\ todo'[Boot] = seen
      BY <2>3, <3>2 DEF Restart, TypeInv, AreFunctions
    <3>5. seen \in SUBSET Users
      BY SetsTyped
    <3> HIDE DEF seen
    <3> QED
      BY <3>1, <3>2, <3>3, <3>4, <3>5, SyncAllHistory
  <2> QED
    BY <2>1, <2>2, <2>3, Steps, CallHistory, CommandHistory, StepHistory
<1> QED
  BY <1>1, <1>2, TypesInOrder, LinksInOrder, PTL DEF Spec

--------------------------------------------------------------------------------
(* The cache is what the roles grant.                                          *)

\* What a process sees of a user is the same in two states.
LEMMA ViewSame ==
  ASSUME NEW p, NEW u \in Users,
         \A r \in Roles : Sees(p, Has(u, r))' = Sees(p, Has(u, r)),
         \A r \in Roles, q \in Permissions :
           Sees(p, Has(u, r)) => Sees(p, Grants(r, q))' = Sees(p, Grants(r, q))
  PROVE  /\ RolesOf(p, u)' = RolesOf(p, u)
         /\ CalculatePermissions(p, u)' = CalculatePermissions(p, u)
<1>1. RolesOf(p, u)' = RolesOf(p, u)
  BY DEF RolesOf
<1>2. \A r \in RolesOf(p, u) : GrantsOf(p, r)' = GrantsOf(p, r)
  BY DEF RolesOf, GrantsOf
<1> QED
  BY <1>1, <1>2 DEF CalculatePermissions

\* The rows that are not those of permissions.
LEMMA OtherRows ==
  ASSUME \A c \in Rows : (\A q \in Permissions : c # Permission(q)) => db'[c] = db[c]
  PROVE  /\ \A u \in Users : db'[User(u)] = db[User(u)]
         /\ \A u \in Users, r \in Roles : db'[Has(u, r)] = db[Has(u, r)]
         /\ \A r \in Roles, q \in Permissions : db'[Grants(r, q)] = db[Grants(r, q)]
<1>1. ASSUME NEW u \in Users PROVE db'[User(u)] = db[User(u)]
  BY RowKinds, RowsDiffer
<1>2. ASSUME NEW u \in Users, NEW r \in Roles PROVE db'[Has(u, r)] = db[Has(u, r)]
  BY RowKinds, RowsDiffer
<1>3. ASSUME NEW r \in Roles, NEW q \in Permissions PROVE db'[Grants(r, q)] = db[Grants(r, q)]
  BY RowKinds, RowsDiffer
<1> QED
  BY <1>1, <1>2, <1>3

\* The cached permissions of a user nobody has let go stale, as one sees them
\* who has written nothing.
RightCache(u) ==
  db[User(u)] # Null =>
    db[User(u)] = {q \in Permissions : \E r \in Roles : db[Has(u, r)] /\ db[Grants(r, q)]}

LEMMA CacheSeen ==
  ASSUME NEW p, NEW u \in Users, Sees(p, User(u)) = db[User(u)],
         \A r \in Roles : Sees(p, Has(u, r)) = db[Has(u, r)],
         \A r \in Roles, q \in Permissions : Sees(p, Has(u, r)) => Sees(p, Grants(r, q)) = db[Grants(r, q)],
         RightCache(u)
  PROVE  Sees(p, User(u)) \in {Null, CalculatePermissions(p, u)}
<1>1. CalculatePermissions(p, u) = {q \in Permissions : \E r \in Roles : db[Has(u, r)] /\ db[Grants(r, q)]}
  BY DEF CalculatePermissions, RolesOf, GrantsOf
<1> QED
  BY <1>1 DEF RightCache

\* What others at work do to the rows that concern p.
Calm(p) ==
  /\ \A u \in work[p].users :
       db'[User(u)] = db[User(u)] /\ \A r \in Roles : db'[Has(u, r)] = db[Has(u, r)]
  /\ \A r \in Roles, q \in Permissions :
       work[p].users # {} \/ r \in work[p].changes => db'[Grants(r, q)] = db[Grants(r, q)]
  /\ work[p].users \cap stale \subseteq stale'

LEMMA KeepsStays ==
  ASSUME TypeInv, HistoryInv, NEW p \in Procs, Stays(p), Alone(p)', Keeps(p), Calm(p)
  PROVE  Keeps(p)'
<1>1. AtWork(p) /\ work[p] \in Tasks
  BY StaysAtWork DEF Alone, AtWork
<1>2. work'[p] = work[p]
  <2>1. \A v \in Tasks : ~[v EXCEPT !.alone = FALSE].alone
    BY DEF Tasks
  <2> QED
    BY <1>1, <2>1 DEF Stays, WorkStays, Alone
<1>3. /\ out'[p] = out[p] /\ pc'[p] = pc[p] /\ held'[p] = held[p] /\ plan'[p] = plan[p]
      /\ todo'[p] = todo[p] /\ next'[p] = next[p]
  BY DEF Stays
<1>4. work[p].users \subseteq Users /\ work[p].changes \subseteq Roles
  BY <1>1 DEF Tasks
<1>5. ASSUME NEW u \in work[p].users
      PROVE  /\ Sees(p, User(u))' = Sees(p, User(u))
             /\ \A r \in Roles : Sees(p, Has(u, r))' = Sees(p, Has(u, r))
             /\ \A r \in Roles, q \in Permissions : Sees(p, Grants(r, q))' = Sees(p, Grants(r, q))
  BY <1>3 DEF Calm, Sees
<1>6. ASSUME NEW u \in work[p].users
      PROVE  /\ RolesOf(p, u)' = RolesOf(p, u)
             /\ CalculatePermissions(p, u)' = CalculatePermissions(p, u)
             /\ WillBe(p, u)' = WillBe(p, u)
  <2>1. RolesOf(p, u)' = RolesOf(p, u) /\ CalculatePermissions(p, u)' = CalculatePermissions(p, u)
    BY <1>4, <1>5, ViewSame
  <2>2. WillBe(p, u)' = WillBe(p, u)
    BY <1>3, <1>5 DEF WillBe
  <2> QED
    BY <2>1, <2>2
<1>7. \A r \in work[p].changes : GrantsOf(p, r)' = GrantsOf(p, r)
  BY <1>3, <1>4 DEF GrantsOf, Sees, Calm
<1>8. \A r \in Roles : pc[p] \in Busy /\ held[p].row = Role(r) => r \in work[p].changes
  BY <1>1 DEF HistoryInv, Bounded, Within
<1>9. work[p].users \ Open(p)' \subseteq work[p].users \ Open(p)
  BY <1>2, <1>3 DEF Open, Listing, Calm
<1>10. \A u \in work[p].users \ Open(p)' :
         /\ WillBe(p, u)' \in {Null, CalculatePermissions(p, u)'}
         /\ pc[p] = "select" /\ held[p].row = User(u) => held[p].links \in {Null, RolesOf(p, u)'}
         /\ pc[p] = "write" => \A r \in Roles : Has(u, r) \notin DOMAIN plan[p]
  BY <1>6, <1>9 DEF Keeps
<1>11. ASSUME NEW r \in Roles, pc[p] \in {"select", "write"}, held[p].row = Role(r)
       PROVE IF next[p] = "list" THEN \A u \in work[p].users : Sees(p, Has(u, r))'
             ELSE IF pc[p] = "select" THEN held[p].links = GrantsOf(p, r)'
             ELSE \A q \in Permissions : Grants(r, q) \notin DOMAIN plan[p]
  BY <1>5, <1>7, <1>8, <1>11 DEF Keeps, Busy
<1>12. ASSUME NEW r \in Roles, pc[p] = "list", held[p].row = Role(r)
       PROVE \A u \in work[p].users : Sees(p, Has(u, r))'
  BY <1>5, <1>12 DEF Keeps
<1>13. /\ pc[p] = "delete" => work[p].users \subseteq work[p].breaks \ work[p].fixes
       /\ pc[p] \in {"delete", "commit"} \/ (pc[p] \in {"select", "write"} /\ next[p] = "commit") =>
            p = Boot \/ todo[p] = {}
  BY DEF Keeps
<1> QED
  BY <1>2, <1>3, <1>10, <1>11, <1>12, <1>13 DEF Keeps

LEMMA BootStays ==
  ASSUME TypeInv, HistoryInv, HistoryInv', Stays(Boot), BootKeeps, Alone(Boot)' => Calm(Boot)
  PROVE  BootKeeps'
<1> SUFFICES ASSUME AtWork(Boot)'
             PROVE  BootKeeps'
  BY DEF BootKeeps
<1>1. /\ AtWork(Boot) /\ work[Boot] \in Tasks /\ work'[Boot].users = work[Boot].users
      /\ work'[Boot].changes = work[Boot].changes /\ work'[Boot].breaks = work[Boot].breaks
  BY StaysAtWork, Processes
<1>2. /\ out'[Boot] = out[Boot] /\ pc'[Boot] = pc[Boot] /\ held'[Boot] = held[Boot]
      /\ todo'[Boot] = todo[Boot]
  BY DEF Stays
<1>3. ASSUME NEW u \in work[Boot].users \ stale'
      PROVE  Sees(Boot, User(u))' \in {Null, CalculatePermissions(Boot, u)'}
  <2>1. Alone(Boot)'
    BY <1>1, <1>3, Processes DEF HistoryInv, Recorded, Alone, AtWork
  <2>2. u \in Users
    BY <1>1, <1>3 DEF Tasks
  <2>3. /\ Sees(Boot, User(u))' = Sees(Boot, User(u))
        /\ \A r \in Roles : Sees(Boot, Has(u, r))' = Sees(Boot, Has(u, r))
        /\ \A r \in Roles, q \in Permissions : Sees(Boot, Grants(r, q))' = Sees(Boot, Grants(r, q))
    BY <1>2, <1>3, <2>1 DEF Calm, Sees
  <2>4. CalculatePermissions(Boot, u)' = CalculatePermissions(Boot, u)
    BY <2>2, <2>3, ViewSame
  <2>5. u \notin stale
    BY <1>3, <2>1 DEF Calm
  <2> QED
    BY <1>1, <1>3, <2>3, <2>4, <2>5 DEF BootKeeps
<1> QED
  BY <1>1, <1>2, <1>3 DEF BootKeeps

LEMMA RightMove ==
  ASSUME TypeInv, HistoryInv, HistoryInv', RightInv, NEW p \in Procs, Moves(p), CacheMatchesRoles',
         \A o \in Procs \ {p} : Alone(o) /\ Alone(o)' => Calm(o),
         Alone(p)' => Keeps(p)', p = Boot => BootKeeps'
  PROVE  RightInv'
<1>1. \A o \in Procs \ {p} : Stays(o) /\ (Alone(o)' => Alone(o))
  BY StaysAtWork DEF Moves, Alone, AtWork
<1>2. ASSUME NEW o \in Procs, Alone(o)' PROVE Keeps(o)'
  <2>1. CASE o # p
    BY <1>1, <1>2, <2>1, KeepsStays DEF RightInv
  <2> QED
    BY <1>2, <2>1
<1>3. BootKeeps'
  <2>1. CASE p # Boot
    BY <1>1, <2>1, Processes, BootStays DEF RightInv
  <2> QED
    BY <2>1
<1> QED
  BY <1>2, <1>3 DEF RightInv

\* A step that leaves users, their roles and what they grant as they are.
Quiet ==
  /\ \A u \in Users : db'[User(u)] = db[User(u)]
  /\ \A u \in Users, r \in Roles : db'[Has(u, r)] = db[Has(u, r)]
  /\ \A r \in Roles, q \in Permissions : db'[Grants(r, q)] = db[Grants(r, q)]
  /\ stale \subseteq stale'

LEMMA QuietCache ==
  ASSUME CacheMatchesRoles, Quiet
  PROVE  CacheMatchesRoles'
<1> SUFFICES ASSUME NEW u \in Users \ stale', db'[User(u)] # Null
             PROVE  db'[User(u)] = {q \in Permissions : \E r \in Roles : db'[Has(u, r)] /\ db'[Grants(r, q)]}
  BY DEF CacheMatchesRoles
<1>1. db[User(u)] = {q \in Permissions : \E r \in Roles : db[Has(u, r)] /\ db[Grants(r, q)]}
  BY DEF CacheMatchesRoles, Quiet
<1>2. {q \in Permissions : \E r \in Roles : db[Has(u, r)] /\ db[Grants(r, q)]}
        = {q \in Permissions : \E r \in Roles : db'[Has(u, r)] /\ db'[Grants(r, q)]}
  BY DEF Quiet
<1> QED
  BY <1>1, <1>2 DEF Quiet

LEMMA QuietCalm ==
  ASSUME TypeInv, Quiet, NEW o \in Procs, Alone(o)
  PROVE  Calm(o)
<1>1. work[o].users \subseteq Users
  BY NullApart DEF TypeInv, Typed, Alone, Tasks
<1> QED
  BY <1>1 DEF Quiet, Calm

LEMMA RightQuiet ==
  ASSUME TypeInv, HistoryInv, HistoryInv', RightInv, NEW p \in Procs, Moves(p), Quiet,
         Alone(p)' => Keeps(p)', p = Boot => BootKeeps'
  PROVE  RightInv'
BY QuietCache, QuietCalm, RightMove DEF RightInv

\* Who has written nothing sees a right cache of a user nobody has let go stale.
LEMMA FreshView ==
  ASSUME TypeInv, CacheMatchesRoles, Quiet, NEW p \in Procs, pc[p] = "idle", DOMAIN out'[p] = {},
         NEW u \in Users \ stale
  PROVE  Sees(p, User(u))' = db[User(u)] /\ Sees(p, User(u))' \in {Null, CalculatePermissions(p, u)'}
<1>1. \A c : Sees(p, c) = db[c]
  BY IdlePlaced
<1>2. \A c : Sees(p, c)' = db'[c]
  BY DEF Sees
<1>3. /\ Sees(p, User(u))' = Sees(p, User(u))
      /\ \A r \in Roles : Sees(p, Has(u, r))' = Sees(p, Has(u, r))
      /\ \A r \in Roles, q \in Permissions : Sees(p, Grants(r, q))' = Sees(p, Grants(r, q))
  BY <1>1, <1>2 DEF Quiet
<1>4. CalculatePermissions(p, u)' = CalculatePermissions(p, u)
  BY <1>3, ViewSame
<1>5. RightCache(u)
  BY DEF CacheMatchesRoles, RightCache
<1>6. Sees(p, User(u)) \in {Null, CalculatePermissions(p, u)}
  BY <1>1, <1>5, CacheSeen
<1> QED
  BY <1>1, <1>3, <1>4, <1>6

LEMMA KeepsUserStart ==
  ASSUME TypeInv, CacheMatchesRoles, NEW p \in Procs, pc[p] = "idle", db' = db, DOMAIN out'[p] = {},
         stale' = stale, NEW u \in Users, work'[p].users = {u}, pc'[p] = "select",
         held'[p].row = User(u), held'[p].cache \in {Null, db[User(u)]},
         \/ todo'[p] = {} /\ held'[p].links = Null /\ next'[p] = "commit" /\ work'[p].fixes = {}
         \/ todo'[p] = {u} /\ next'[p] = "sync"
  PROVE  Keeps(p)'
<1>1. Quiet
  BY DEF Quiet
<1>2. ASSUME NEW v \in {u} \ Open(p)'
      PROVE  WillBe(p, v)' \in {Null, CalculatePermissions(p, v)'} /\ held'[p].links = Null
  <2>1. v = u /\ todo'[p] = {} /\ held'[p].links = Null /\ u \notin stale
    BY <1>2 DEF Open
  <2>2. Sees(p, User(u))' = db[User(u)] /\ Sees(p, User(u))' \in {Null, CalculatePermissions(p, u)'}
    BY <1>1, <2>1, FreshView
  <2>3. WillBe(p, u)' = db[User(u)]
    BY <2>2 DEF WillBe
  <2> QED
    BY <2>1, <2>2, <2>3
<1>3. \A r \in Roles : held'[p].row # Role(r)
  BY RowsDiffer
<1> QED
  BY <1>2, <1>3 DEF Keeps

LEMMA KeepsRoleStart ==
  ASSUME TypeInv, CacheMatchesRoles, NEW p \in Procs, pc[p] = "idle", db' = db, DOMAIN out'[p] = {},
         stale' = stale, NEW r \in Roles, work'[p].users = Holders(p, r), held'[p].row = Role(r),
         todo'[p] = {},
         \/ /\ pc'[p] = "select" /\ next'[p] = "commit" /\ held'[p].links = GrantsOf(p, r)
            /\ work'[p].fixes = {}
         \/ pc'[p] = "select" /\ next'[p] = "list"
         \/ pc'[p] = "delete" /\ work'[p].breaks = Holders(p, r) /\ work'[p].fixes = {}
  PROVE  Keeps(p)'
<1>1. Quiet
  BY DEF Quiet
<1>2. \A c : Sees(p, c) = db[c] /\ Sees(p, c)' = db[c]
  BY IdlePlaced DEF Sees
<1>3. GrantsOf(p, r)' = GrantsOf(p, r) /\ \A u \in Holders(p, r) : Sees(p, Has(u, r))'
  BY <1>2 DEF GrantsOf, Holders
<1>4. Holders(p, r) \subseteq Users
  BY SetsTyped
<1>5. \A s \in Roles : held'[p].row = Role(s) => s = r
  BY RowsDiffer
<1>6. \A u : held'[p].row # User(u)
  BY RowsDiffer
<1>7. ASSUME NEW u \in Holders(p, r) \ Open(p)'
      PROVE  WillBe(p, u)' \in {Null, CalculatePermissions(p, u)'} /\ pc'[p] = "select"
  <2>1. pc'[p] = "select" /\ u \notin stale
    BY <1>7 DEF Open, Listing
  <2>2. Sees(p, User(u))' \in {Null, CalculatePermissions(p, u)'}
    BY <1>1, <1>4, <1>7, <2>1, FreshView
  <2> QED
    BY <1>6, <2>1, <2>2 DEF WillBe
<1> QED
  BY <1>3, <1>5, <1>6, <1>7 DEF Keeps

LEMMA StartsUserRight ==
  ASSUME TypeInv, HistoryInv, HistoryInv', RightInv, NEW p \in Requests, pc[p] = "idle",
         NEW u \in Users, StartsUser(p, u)
  PROVE  RightInv'
<1>1. p \in Procs /\ p # Boot /\ Moves(p)
  BY Processes, StartsUserTyped
<1>2. ASSUME NEW fixes \in SUBSET {u}, NEW e, NEW then, NEW users \in SUBSET {u},
             e.row = User(u), e.cache \in {Null, db[User(u)]},
             \/ users = {} /\ e.links = Null /\ then = "commit" /\ fixes = {}
             \/ users = {u} /\ then = "sync",
             Start(p, Task({u}, {}, fixes, {}), e, "select", then, users)
      PROVE  RightInv'
  <2> DEFINE w == Task({u}, {}, fixes, {})
  <2>1. w \in Tasks /\ w.users = {u} /\ w.changes = {} /\ w.fixes = fixes /\ w.breaks = {}
    BY <1>2, TaskTyped
  <2>2. Start(p, w, e, "select", then, users)
    BY <1>2
  <2> HIDE DEF w
  <2>3. /\ Take(p, w) /\ db' = db /\ DOMAIN out'[p] = {} /\ todo'[p] = users
        /\ held'[p] = e /\ next'[p] = then /\ pc'[p] = "select"
    BY <1>1, <2>2, Started, NoRowsEmpty
  <2>4. /\ work'[p].users = {u} /\ work'[p].fixes = fixes /\ stale \subseteq stale'
        /\ work'[p].alone => stale' = stale
    BY <1>1, <2>1, <2>3, TakeTyped
  <2>5. Quiet
    BY <2>3, <2>4 DEF Quiet
  <2>6. Alone(p)' => Keeps(p)'
    BY <1>1, <1>2, <2>3, <2>4, KeepsUserStart DEF Alone, RightInv
  <2> QED
    BY <1>1, <2>5, <2>6, RightQuiet
<1>3. \A links, cache, dirty :
        /\ Entity(User(u), links, cache, dirty).row = User(u)
        /\ Entity(User(u), links, cache, dirty).links = links
        /\ Entity(User(u), links, cache, dirty).cache = cache
  BY DEF Entity
<1>4. {} \in SUBSET {u} /\ {u} \in SUBSET {u}
  OBVIOUS
<1>5. \/ \E e : /\ e.row = User(u) /\ e.cache \in {Null, db[User(u)]} /\ e.links = Null
                /\ Start(p, Task({u}, {}, {}, {}), e, "select", "commit", {})
      \/ \E e : /\ e.row = User(u) /\ e.cache \in {Null, db[User(u)]}
                /\ Start(p, Task({u}, {}, {u}, {}), e, "select", "sync", {u})
  <2>1. ASSUME NEW cache \in {Null, db[User(u)]},
               Start(p, Task({u}, {}, {}, {}), Entity(User(u), Null, cache, TRUE), "select", "commit", {})
        PROVE  \E e : /\ e.row = User(u) /\ e.cache \in {Null, db[User(u)]} /\ e.links = Null
                      /\ Start(p, Task({u}, {}, {}, {}), e, "select", "commit", {})
    <3> DEFINE e == Entity(User(u), Null, cache, TRUE)
    <3>1. e.row = User(u) /\ e.cache = cache /\ e.links = Null
      BY DEF Entity
    <3>2. Start(p, Task({u}, {}, {}, {}), e, "select", "commit", {})
      BY <2>1
    <3> HIDE DEF e
    <3> QED
      BY <2>1, <3>1, <3>2
  <2>2. ASSUME NEW links,
               Start(p, Task({u}, {}, {u}, {}), Entity(User(u), links, db[User(u)], FALSE),
                     "select", "sync", {u})
        PROVE  \E e : /\ e.row = User(u) /\ e.cache \in {Null, db[User(u)]}
                      /\ Start(p, Task({u}, {}, {u}, {}), e, "select", "sync", {u})
    <3> DEFINE e == Entity(User(u), links, db[User(u)], FALSE)
    <3>1. e.row = User(u) /\ e.cache = db[User(u)]
      BY DEF Entity
    <3>2. Start(p, Task({u}, {}, {u}, {}), e, "select", "sync", {u})
      BY <2>2
    <3> HIDE DEF e
    <3> QED
      BY <3>1, <3>2
  <2> QED
    BY <2>1, <2>2 DEF StartsUser
<1>6. CASE \E e : /\ e.row = User(u) /\ e.cache \in {Null, db[User(u)]} /\ e.links = Null
                  /\ Start(p, Task({u}, {}, {}, {}), e, "select", "commit", {})
  BY <1>2, <1>4, <1>6
<1>7. CASE \E e : /\ e.row = User(u) /\ e.cache \in {Null, db[User(u)]}
                  /\ Start(p, Task({u}, {}, {u}, {}), e, "select", "sync", {u})
  BY <1>2, <1>4, <1>7
<1> QED
  BY <1>5, <1>6, <1>7

LEMMA StartsRoleRight ==
  ASSUME TypeInv, HistoryInv, HistoryInv', RightInv, NEW p \in Requests, pc[p] = "idle",
         NEW r \in Roles, StartsRole(p, r)
  PROVE  RightInv'
<1>1. p \in Procs /\ p # Boot /\ Moves(p) /\ Holders(p, r) \subseteq Users
  BY Processes, StartsRoleTyped, SetsTyped
<1>2. ASSUME NEW fixes \in SUBSET Holders(p, r), NEW breaks \in SUBSET Holders(p, r),
             NEW e, NEW to, NEW then, e.row = Role(r),
             \/ to = "select" /\ then = "commit" /\ e.links = GrantsOf(p, r) /\ fixes = {}
             \/ to = "select" /\ then = "list"
             \/ to = "delete" /\ breaks = Holders(p, r) /\ fixes = {},
             Start(p, Task(Holders(p, r), {r}, fixes, breaks), e, to, then, {})
      PROVE  RightInv'
  <2> DEFINE w == Task(Holders(p, r), {r}, fixes, breaks)
  <2>1. /\ w \in Tasks /\ w.users = Holders(p, r) /\ w.changes = {r} /\ w.fixes = fixes /\ w.breaks = breaks
    BY <1>1, <1>2, TaskTyped
  <2>2. Start(p, w, e, to, then, {})
    BY <1>2
  <2> HIDE DEF w
  <2>3. /\ Take(p, w) /\ db' = db /\ DOMAIN out'[p] = {} /\ todo'[p] = {}
        /\ held'[p] = e /\ next'[p] = then /\ pc'[p] = to
    BY <1>1, <2>2, Started, NoRowsEmpty
  <2>4. /\ work'[p].users = Holders(p, r) /\ work'[p].fixes = fixes /\ work'[p].breaks = breaks
        /\ stale \subseteq stale' /\ (work'[p].alone => stale' = stale)
    BY <1>1, <2>1, <2>3, TakeTyped
  <2>5. Quiet
    BY <2>3, <2>4 DEF Quiet
  <2>6. Alone(p)' => Keeps(p)'
    BY <1>1, <1>2, <2>3, <2>4, KeepsRoleStart DEF Alone, RightInv
  <2> QED
    BY <1>1, <2>5, <2>6, RightQuiet
<1>3. \A links, cache, dirty :
        Entity(Role(r), links, cache, dirty).row = Role(r) /\ Entity(Role(r), links, cache, dirty).links = links
  BY DEF Entity
<1>4. {} \in SUBSET Holders(p, r) /\ Holders(p, r) \in SUBSET Holders(p, r)
  OBVIOUS
<1>5. \/ \E e : /\ e.row = Role(r) /\ e.links = GrantsOf(p, r)
                /\ Start(p, Task(Holders(p, r), {r}, {}, {}), e, "select", "commit", {})
      \/ \E e : e.row = Role(r) /\ Start(p, Task(Holders(p, r), {r}, Holders(p, r), {}), e, "select", "list", {})
      \/ \E e : e.row = Role(r) /\ Start(p, Task(Holders(p, r), {r}, {}, Holders(p, r)), e, "delete", Null, {})
  <2>1. ASSUME NEW links, NEW dirty, NEW w, NEW to, NEW then,
               Start(p, w, Entity(Role(r), links, Null, dirty), to, then, {})
        PROVE  \E e : e.row = Role(r) /\ e.links = links /\ Start(p, w, e, to, then, {})
    BY <1>3, <2>1, Zenon
  <2>2. CASE Start(p, Task(Holders(p, r), {r}, {}, {}), Entity(Role(r), GrantsOf(p, r), Null, TRUE),
                   "select", "commit", {})
    <3> DEFINE e == Entity(Role(r), GrantsOf(p, r), Null, TRUE)
    <3>1. e.row = Role(r) /\ e.links = GrantsOf(p, r)
      BY DEF Entity
    <3>2. Start(p, Task(Holders(p, r), {r}, {}, {}), e, "select", "commit", {})
      BY <2>2
    <3> HIDE DEF e
    <3> QED
      BY <3>1, <3>2
  <2>3. CASE \E list \in SUBSET Permissions :
               Start(p, Task(Holders(p, r), {r}, Holders(p, r), {}), Entity(Role(r), list, Null, FALSE),
                     "select", "list", {})
    BY <2>1, <2>3
  <2>4. CASE Start(p, Task(Holders(p, r), {r}, {}, Holders(p, r)), Entity(Role(r), Null, Null, FALSE),
                   "delete", Null, {})
    BY <2>1, <2>4
  <2> QED
    BY <2>2, <2>3, <2>4 DEF StartsRole
<1>6. CASE \E e : /\ e.row = Role(r) /\ e.links = GrantsOf(p, r)
                  /\ Start(p, Task(Holders(p, r), {r}, {}, {}), e, "select", "commit", {})
  BY <1>2, <1>4, <1>6
<1>7. CASE \E e : e.row = Role(r) /\ Start(p, Task(Holders(p, r), {r}, Holders(p, r), {}), e, "select", "list", {})
  BY <1>2, <1>4, <1>7
<1>8. CASE \E e : e.row = Role(r) /\ Start(p, Task(Holders(p, r), {r}, {}, Holders(p, r)), e, "delete", Null, {})
  BY <1>2, <1>4, <1>8
<1> QED
  BY <1>5, <1>6, <1>7, <1>8

LEMMA CallRight ==
  ASSUME TypeInv, LinksInv, UsersInv, HistoryInv, RightInv, NEW p \in Requests, Call(p)
  PROVE  RightInv'
<1>1. p \in Procs /\ p # Boot /\ Moves(p) /\ pc[p] = "idle" /\ HistoryInv'
  BY Processes, CallTyped, Calls, CallHistory
<1>2. ASSUME NEW how \in Ended, Answer(p, how) PROVE RightInv'
  <2>1. work'[p] = Null /\ Quiet
    BY <1>1, <1>2, IdlePlaced DEF Answer, Quiet
  <2> QED
    BY <1>1, <2>1, RightQuiet DEF Alone
<1>3. CASE CreateUser(p)
  <2>1. PICK u \in Users : /\ DOMAIN out'[p] = {User(u)} /\ out'[p][User(u)] = {} /\ db[User(u)] = Null
                           /\ Take(p, Task({u}, {}, {u}, {})) /\ pc'[p] = "commit"
                           /\ todo'[p] = {} /\ db' = db
    BY <1>3, CreatedUser
  <2> DEFINE w == Task({u}, {}, {u}, {})
  <2>2. w \in Tasks /\ w.users = {u} /\ Take(p, w)
    BY <2>1, TaskTyped
  <2> HIDE DEF w
  <2>3. work'[p].users = {u} /\ stale \subseteq stale'
    BY <1>1, <2>2, TakeTyped
  <2>4. \A r \in Roles : ~Sees(p, Has(u, r))'
    <3>1. \A r \in Roles : ~db[Has(u, r)]
      BY <2>1 DEF UsersInv, HoldersAreUsers
    <3> QED
      BY <2>1, <3>1, RowsDiffer DEF Sees
  <2>5. CalculatePermissions(p, u)' = {} /\ WillBe(p, u)' = {}
    BY <2>1, <2>4 DEF CalculatePermissions, RolesOf, WillBe, Sees
  <2>6. Keeps(p)'
    BY <2>1, <2>3, <2>5 DEF Keeps
  <2>7. Quiet
    BY <2>1, <2>3 DEF Quiet
  <2> QED
    BY <1>1, <2>6, <2>7, RightQuiet
<1>4. CASE CreateRole(p)
  <2>1. PICK r \in Roles : /\ Take(p, Task({}, {r}, {}, {})) /\ pc'[p] = "commit" /\ todo'[p] = {} /\ db' = db
    BY <1>4, CreatedRole
  <2> DEFINE w == Task({}, {r}, {}, {})
  <2>2. w \in Tasks /\ w.users = {} /\ Take(p, w)
    BY <2>1, TaskTyped
  <2> HIDE DEF w
  <2>3. work'[p].users = {} /\ stale \subseteq stale'
    BY <1>1, <2>2, TakeTyped
  <2>4. Keeps(p)'
    BY <2>1, <2>3 DEF Keeps
  <2>5. Quiet
    BY <2>1, <2>3 DEF Quiet
  <2> QED
    BY <1>1, <2>4, <2>5, RightQuiet
<1> QED
  BY <1>1, <1>2, <1>3, <1>4, Calls, StartsUserRight, StartsRoleRight

LEMMA GrantRight ==
  ASSUME TypeInv, HistoryInv, RightInv, NEW p \in Scripts, NEW users \in SUBSET Users,
         NEW to \in {"commit", "sync"}, Grant(p, users, to), to = "commit" => users = {}
  PROVE  RightInv'
<1>1. p \in Procs /\ p # Boot /\ Moves(p) /\ Holders(p, Admin) \subseteq Users /\ Admin \in Roles /\ HistoryInv'
  BY Processes, GrantTyped, SetsTyped, AccessAssumption, GrantHistory
<1> DEFINE w == Task(Holders(p, Admin) \cup users, {Admin}, users, Holders(p, Admin) \ users)
<1>2. /\ w \in Tasks /\ w.users = Holders(p, Admin) \cup users /\ w.breaks = Holders(p, Admin) \ users
      /\ w.fixes = users
  BY <1>1, TaskTyped
<1>3. pc'[p] = to /\ todo'[p] = users /\ db' = db /\ Take(p, w)
  BY Granted
<1> HIDE DEF w
<1>4. /\ work'[p].users = w.users /\ work'[p].breaks = w.breaks /\ work'[p].fixes = w.fixes
      /\ stale \subseteq stale'
  BY <1>1, <1>2, <1>3, TakeTyped
<1>5. work'[p].users \ Open(p)' = {}
  BY <1>2, <1>3, <1>4 DEF Open
<1>6. Keeps(p)'
  BY <1>3, <1>5 DEF Keeps
<1>7. Quiet
  BY <1>3, <1>4 DEF Quiet
<1> QED
  BY <1>1, <1>6, <1>7, RightQuiet

\* Who is to synchronise all owes nothing yet.
LEMMA KeepsSyncAll ==
  ASSUME NEW p \in Procs, pc'[p] = "sync", todo'[p] = work'[p].users
  PROVE  Keeps(p)'
<1>1. work'[p].users \ Open(p)' = {}
  BY DEF Open
<1> QED
  BY <1>1 DEF Keeps

LEMMA CommandRight ==
  ASSUME TypeInv, HistoryInv, RightInv, NEW p \in Scripts, Command(p)
  PROVE  RightInv'
<1>1. CASE Refresh(p)
  BY <1>1, GrantRight DEF Refresh
<1>2. CASE MakeAdmin(p)
  BY <1>2, GrantRight DEF MakeAdmin
<1>3. CASE SyncPermissions(p)
  <2>1. p \in Procs /\ p # Boot /\ Moves(p) /\ pc[p] = "idle" /\ HistoryInv'
    BY <1>3, Processes, CommandTyped, CommandHistory DEF SyncPermissions, Idle
  <2> DEFINE w == Task(Known(p), {}, Known(p), {})
  <2>2. w \in Tasks /\ w.users = Known(p)
    BY SetsTyped, TaskTyped
  <2>3. Take(p, w) /\ todo'[p] = Known(p) /\ pc'[p] = "sync" /\ db' = db
    BY <1>3, <2>1, Started DEF SyncPermissions
  <2> HIDE DEF w
  <2>4. work'[p].users = Known(p) /\ stale \subseteq stale'
    BY <2>1, <2>2, <2>3, TakeTyped
  <2>5. Keeps(p)'
    BY <2>1, <2>3, <2>4, KeepsSyncAll
  <2>6. Quiet
    BY <2>3, <2>4 DEF Quiet
  <2> QED
    BY <2>1, <2>5, <2>6, RightQuiet
<1> QED
  BY <1>1, <1>2, <1>3 DEF Command

LEMMA RestartRight ==
  ASSUME TypeInv, HistoryInv, HistoryInv', RightInv, Restart
  PROVE  RightInv'
<1>1. /\ Moves(Boot) /\ pc'[Boot] = "sync" /\ out' = out /\ pc[Boot] = "idle" /\ Boot \in Procs
  BY RestartTyped, Processes
<1> DEFINE seen == IF policed THEN {} ELSE Known(Boot)
<1>2. /\ Take(Boot, Task(seen, {}, seen, {})) /\ todo'[Boot] = seen
  BY <1>1 DEF Restart, TypeInv, AreFunctions
<1>3. seen \in SUBSET Users
  BY SetsTyped
<1> HIDE DEF seen
<1> DEFINE w == Task(seen, {}, seen, {})
<1>4. w \in Tasks /\ w.users = seen /\ w.changes = {} /\ w.breaks = {} /\ Take(Boot, w)
  BY <1>2, <1>3, TaskTyped
<1> HIDE DEF w
<1>5. /\ work'[Boot].users = seen /\ work'[Boot].changes = {} /\ work'[Boot].breaks = {}
      /\ stale \subseteq stale'
  BY <1>1, <1>4, TakeTyped
<1>6. Quiet
  BY <1>5, RestartTyped, OtherRows DEF Quiet
<1>7. Keeps(Boot)'
  BY <1>1, <1>2, <1>5, KeepsSyncAll
<1>8. BootKeeps'
  <2>1. DOMAIN out'[Boot] = {}
    BY <1>1, IdlePlaced, NoRowsEmpty
  <2>2. \A u \in seen \ stale' : Sees(Boot, User(u))' \in {Null, CalculatePermissions(Boot, u)'}
    BY <1>1, <1>3, <1>5, <1>6, <2>1, FreshView DEF RightInv
  <2> QED
    BY <1>1, <1>5, <2>2 DEF BootKeeps
<1> QED
  BY <1>1, <1>6, <1>7, <1>8, RightQuiet

\* A process that ends without a commit.
LEMMA EndsRight ==
  ASSUME TypeInv, HistoryInv, HistoryInv', RightInv, UNCHANGED <<db, stale>>,
         \A o \in Procs : (Stays(o) /\ work'[o] = work[o]) \/ work'[o] = Null
  PROVE  RightInv'
<1>1. Quiet
  BY DEF Quiet
<1>2. CacheMatchesRoles'
  BY <1>1, QuietCache DEF RightInv
<1>3. ASSUME NEW o \in Procs, Alone(o)' PROVE Keeps(o)'
  <2>1. Stays(o) /\ Alone(o)
    BY <1>3 DEF Alone
  <2> QED
    BY <1>1, <1>3, <2>1, QuietCalm, KeepsStays DEF RightInv
<1>4. BootKeeps'
  <2>1. CASE work'[Boot] = Null
    BY <2>1 DEF BootKeeps, AtWork
  <2>2. CASE Stays(Boot) /\ work'[Boot] = work[Boot]
    BY <1>1, <2>2, Processes, QuietCalm, BootStays DEF RightInv, Alone
  <2> QED
    BY <2>1, <2>2, Processes
<1> QED
  BY <1>2, <1>3, <1>4 DEF RightInv

LEMMA ListKeeps ==
  ASSUME TypeInv, RightInv, NEW p \in Procs, List(p)
  PROVE  p # Boot /\ (Alone(p)' => Keeps(p)')
<1>1. AreFunctions /\ Placed(p) /\ pc[p] = "list" /\ UNCHANGED <<db, out, held, plan, next, work, stale>>
  BY DEF TypeInv, List
<1>2. PICK r \in Roles : held[p].row = Role(r)
  BY <1>1 DEF Placed, Listing, RoleRows
<1>3. todo'[p] = Holders(p, r) /\ pc'[p] = "sync"
  BY <1>1, <1>2, Parts DEF List, AreFunctions
<1>4. p # Boot
  BY <1>1 DEF RightInv, BootKeeps, Placed, AtWork
<1>5. ASSUME Alone(p)' PROVE Keeps(p)'
  <2>1. Keeps(p) /\ work[p].users \subseteq Users
    BY <1>1, <1>5, NullApart DEF RightInv, Alone, TypeInv, Typed, Tasks
  <2>2. work[p].users \subseteq Holders(p, r)
    BY <1>1, <1>2, <2>1 DEF Keeps, Holders
  <2>3. work'[p].users \ Open(p)' = {}
    BY <1>1, <1>3, <2>2 DEF Open
  <2> QED
    BY <1>3, <2>3 DEF Keeps
<1> QED
  BY <1>4, <1>5

LEMMA SyncUserKeeps ==
  ASSUME TypeInv, RightInv, NEW p \in Procs, SyncUser(p)
  PROVE  (Alone(p)' => Keeps(p)') /\ (p = Boot => BootKeeps')
<1>1. /\ AreFunctions /\ Placed(p) /\ Typed(p) /\ pc[p] = "sync"
      /\ UNCHANGED <<db, out, plan, work, stale>>
  BY DEF TypeInv, SyncUser
<1>2. AtWork(p) /\ work[p].users \subseteq Users
  BY <1>1, NullApart DEF AtWork, Placed, Typed, Tasks
<1>3. ASSUME NEW u
      PROVE  /\ Sees(p, User(u))' = Sees(p, User(u)) /\ RolesOf(p, u)' = RolesOf(p, u)
             /\ CalculatePermissions(p, u)' = CalculatePermissions(p, u)
  BY <1>1 DEF Sees, RolesOf, GrantsOf, CalculatePermissions
<1>4. \A u : WillBe(p, u) = Sees(p, User(u))
  BY <1>1 DEF WillBe
<1>5. CASE todo[p] = {} /\ pc' = [pc EXCEPT ![p] = "commit"] /\ UNCHANGED <<held, todo, next>>
  <2>1. pc'[p] = "commit" /\ todo'[p] = {}
    BY <1>1, <1>5 DEF AreFunctions
  <2>2. Open(p)' = Open(p)
    BY <1>1, <1>5, <2>1 DEF Open, Listing
  <2>3. \A u : WillBe(p, u)' = WillBe(p, u)
    BY <1>3, <1>4, <2>1 DEF WillBe
  <2>4. Keeps(p) => Keeps(p)'
    BY <1>1, <1>3, <2>1, <2>2, <2>3 DEF Keeps
  <2>5. p = Boot => BootKeeps'
    BY <1>1, <1>2, <1>3, <2>1 DEF RightInv, BootKeeps
  <2> QED
    BY <1>1, <2>4, <2>5 DEF RightInv, Alone
<1>6. ASSUME NEW u \in todo[p], todo' = [todo EXCEPT ![p] = @ \ {u}],
             CalculatePermissions(p, u) = Sees(p, User(u)), UNCHANGED <<pc, held, next>>
      PROVE  (Keeps(p) => Keeps(p)') /\ (p = Boot => BootKeeps')
  <2>1. todo'[p] = todo[p] \ {u} /\ pc'[p] = "sync"
    BY <1>1, <1>6 DEF AreFunctions
  <2>2. Open(p) \ {u} \subseteq Open(p)'
    BY <1>1, <2>1 DEF Open, Listing
  <2>3. \A v : WillBe(p, v)' = Sees(p, User(v))
    BY <1>3, <2>1 DEF WillBe
  <2>4. Keeps(p) => Keeps(p)'
    BY <1>1, <1>3, <1>4, <1>6, <2>1, <2>2, <2>3 DEF Keeps
  <2>5. p = Boot => BootKeeps'
    BY <1>1, <1>2, <1>3, <2>1 DEF RightInv, BootKeeps
  <2> QED
    BY <2>4, <2>5
<1>7. ASSUME NEW u \in todo[p], todo' = [todo EXCEPT ![p] = @ \ {u}],
             held' = [held EXCEPT ![p] =
                        Entity(User(u), RolesOf(p, u), CalculatePermissions(p, u), FALSE)],
             pc' = [pc EXCEPT ![p] = "select"],
             next' = [next EXCEPT ![p] = IF p = Boot THEN "commit" ELSE "sync"]
      PROVE  (Keeps(p) => Keeps(p)') /\ (p = Boot => BootKeeps')
  <2> DEFINE e == Entity(User(u), RolesOf(p, u), CalculatePermissions(p, u), FALSE)
  <2>1. u \in Users
    BY <1>1 DEF Typed
  <2>2. e.row = User(u) /\ e.links = RolesOf(p, u) /\ e.cache = CalculatePermissions(p, u)
    BY <2>1, SyncEntity
  <2>3. held'[p] = e
    BY <1>1, <1>7 DEF AreFunctions
  <2> HIDE DEF e
  <2>4. /\ todo'[p] = todo[p] \ {u} /\ pc'[p] = "select"
        /\ next'[p] = IF p = Boot THEN "commit" ELSE "sync"
    BY <1>1, <1>7 DEF AreFunctions
  <2>5. held'[p].row = User(u) /\ held'[p].links = RolesOf(p, u) /\ held'[p].cache = CalculatePermissions(p, u)
    BY <2>2, <2>3
  <2>6. Open(p) \ {u} \subseteq Open(p)'
    BY <1>1, <2>4 DEF Open, Listing
  <2>7. CalculatePermissions(p, u) # Null
    BY SetsTyped, NullApart
  <2>8. WillBe(p, u)' = CalculatePermissions(p, u)
    BY <2>4, <2>5, <2>7 DEF WillBe
  <2>9. \A v : v # u => WillBe(p, v)' = WillBe(p, v) /\ held'[p].row # User(v)
    BY <1>3, <1>4, <2>4, <2>5, RowsDiffer DEF WillBe
  <2>10. \A r : held'[p].row # Role(r)
    BY <2>5, RowsDiffer
  <2>11. \A v \in work[p].users \ Open(p)' : v = u \/ v \notin Open(p)
    BY <2>6
  <2>12. ASSUME Keeps(p) PROVE Keeps(p)'
    <3>1. ASSUME NEW v \in work'[p].users \ Open(p)'
          PROVE  /\ WillBe(p, v)' \in {Null, CalculatePermissions(p, v)'}
                 /\ held'[p].row = User(v) => held'[p].links \in {Null, RolesOf(p, v)'}
      <4>1. CASE v = u
        BY <1>3, <2>5, <2>8, <4>1
      <4>2. CASE v # u
        BY <1>1, <1>3, <2>9, <2>11, <2>12, <3>1, <4>2 DEF Keeps
      <4> QED
        BY <4>1, <4>2
    <3> QED
      BY <2>4, <2>10, <3>1 DEF Keeps
  <2>13. p = Boot => BootKeeps'
    BY <1>1, <1>2, <1>3, <2>1, <2>4, <2>5 DEF RightInv, BootKeeps
  <2> QED
    BY <2>12, <2>13
<1>8. Alone(p)' => Keeps(p)
  BY <1>1 DEF RightInv, Alone
<1> QED
  BY <1>5, <1>6, <1>7, <1>8 DEF SyncUser

\* What save() finds to write: the entity's row, and no link if the entity has
\* the links there are.
LEMMA PlansLittle ==
  ASSUME TypeInv, NEW p \in Procs, Select(p)
  PROVE  /\ \A u \in Users : held[p].row # User(u) =>
               User(u) \notin DOMAIN plan'[p] /\ \A r \in Roles : Has(u, r) \notin DOMAIN plan'[p]
         /\ \A u \in Users : held[p].row = User(u) /\ held[p].links \in {Null, RolesOf(p, u)} =>
               \A r \in Roles : Has(u, r) \notin DOMAIN plan'[p]
         /\ \A r \in Roles : held[p].row = Role(r) /\ held[p].links = GrantsOf(p, r) =>
               \A q \in Permissions : Grants(r, q) \notin DOMAIN plan'[p]
<1>1. Placed(p) /\ pc[p] = "select"
  BY DEF TypeInv, Select
<1>2. held[p].row \in UserRows \cup RoleRows
  BY <1>1 DEF Placed, Busy
<1>3. DOMAIN plan'[p] \subseteq Wrong(p) \cup {held[p].row}
  BY Planned
<1>4. Wrong(p) \subseteq LinkRows(held[p])
  BY DEF Wrong
<1>5. ASSUME NEW u \in Users, held[p].row # User(u)
      PROVE  User(u) \notin DOMAIN plan'[p] /\ \A r \in Roles : Has(u, r) \notin DOMAIN plan'[p]
  <2>1. CASE \E v \in Users : held[p].row = User(v)
    BY <1>3, <1>4, <1>5, <2>1, LinksOfEntity, RowsDiffer
  <2>2. CASE \E r \in Roles : held[p].row = Role(r)
    BY <1>3, <1>4, <1>5, <2>2, LinksOfEntity, RowsDiffer
  <2> QED
    BY <1>2, <2>1, <2>2 DEF UserRows, RoleRows
<1>6. ASSUME NEW u \in Users, held[p].row = User(u), held[p].links \in {Null, RolesOf(p, u)},
             NEW r \in Roles
      PROVE  Has(u, r) \notin DOMAIN plan'[p]
  <2>1. Has(u, r) # held[p].row
    BY <1>6, RowsDiffer
  <2>2. Sees(p, Has(u, r)) \in BOOLEAN
    BY SeenTyped
  <2>3. (r \in RolesOf(p, u)) = Sees(p, Has(u, r))
    BY <2>2 DEF RolesOf
  <2>4. Has(u, r) \notin Wrong(p)
    BY <1>6, <2>3, Parts DEF Wrong
  <2> QED
    BY <1>3, <2>1, <2>4
<1>7. ASSUME NEW r \in Roles, held[p].row = Role(r), held[p].links = GrantsOf(p, r),
             NEW q \in Permissions
      PROVE  Grants(r, q) \notin DOMAIN plan'[p]
  <2>1. Grants(r, q) # held[p].row
    BY <1>7, RowsDiffer
  <2>2. Sees(p, Grants(r, q)) \in BOOLEAN
    BY SeenTyped
  <2>3. (q \in GrantsOf(p, r)) = Sees(p, Grants(r, q))
    BY <2>2 DEF GrantsOf
  <2>4. Grants(r, q) \notin Wrong(p)
    BY <1>7, <2>3, Parts DEF Wrong
  <2> QED
    BY <1>3, <2>1, <2>4
<1> QED
  BY <1>5, <1>6, <1>7

LEMMA SelectKeeps ==
  ASSUME TypeInv, RightInv, NEW p \in Procs, Select(p)
  PROVE  (Alone(p)' => Keeps(p)') /\ (p = Boot => BootKeeps')
<1>1. /\ AreFunctions /\ Placed(p) /\ Typed(p) /\ pc[p] = "select" /\ pc'[p] = "write"
      /\ UNCHANGED <<db, out, held, todo, next, work, stale>>
  BY DEF TypeInv, Select, AreFunctions
<1>2. AtWork(p) /\ work[p].users \subseteq Users
  BY <1>1, NullApart DEF AtWork, Placed, Typed, Tasks
<1>3. \A c : Sees(p, c)' = Sees(p, c)
  BY <1>1 DEF Sees
<1>4. \A u : /\ RolesOf(p, u)' = RolesOf(p, u)
             /\ CalculatePermissions(p, u)' = CalculatePermissions(p, u)
  BY <1>3 DEF RolesOf, GrantsOf, CalculatePermissions
<1>5. Open(p)' = Open(p)
  BY <1>1 DEF Open, Listing
<1>6. ASSUME Keeps(p), NEW u \in work[p].users \ Open(p)
      PROVE  /\ WillBe(p, u)' \in {Null, CalculatePermissions(p, u)}
             /\ \A r \in Roles : Has(u, r) \notin DOMAIN plan'[p]
  <2>1. u \in Users
    BY <1>2, <1>6
  <2>2. \A r \in Roles : Has(u, r) \notin DOMAIN plan'[p]
    BY <1>1, <1>6, <2>1, PlansLittle DEF Keeps
  <2>3. WillBe(p, u)' = WillBe(p, u)
    <3>1. CASE held[p].row # User(u)
      BY <1>1, <1>3, <2>1, <3>1, PlansLittle DEF WillBe
    <3>2. CASE held[p].row = User(u)
      <4>1. User(u) \in UserRows /\ User(u) \notin Wrong(p)
        BY <2>1, <3>2, LinksOfEntity, RowKinds, RowsDiffer DEF Wrong
      <4>2. User(u) \in DOMAIN plan'[p] => plan'[p][User(u)] = IF Cached(p) THEN held[p].cache ELSE Null
        BY <3>2, <4>1, Planned DEF Owned, Gone
      <4>3. Cached(p) => User(u) \in DOMAIN plan'[p]
        BY <3>2, Planned
      <4>4. Cached(p) <=> held[p].cache # Null /\ held[p].cache # Sees(p, User(u))
        BY <3>2, <4>1 DEF Cached
      <4> QED
        BY <1>1, <1>3, <3>2, <4>2, <4>3, <4>4 DEF WillBe
    <3> QED
      BY <3>1, <3>2
  <2> QED
    BY <1>6, <2>2, <2>3 DEF Keeps
<1>7. ASSUME Keeps(p), NEW r \in Roles, held[p].row = Role(r)
      PROVE  IF next[p] = "list" THEN \A u \in work[p].users : Sees(p, Has(u, r))
             ELSE \A q \in Permissions : Grants(r, q) \notin DOMAIN plan'[p]
  BY <1>1, <1>7, PlansLittle DEF Keeps
<1>8. Keeps(p) => Keeps(p)'
  BY <1>1, <1>3, <1>4, <1>5, <1>6, <1>7 DEF Keeps
<1>9. p = Boot => BootKeeps'
  BY <1>1, <1>2, <1>3, <1>4 DEF RightInv, BootKeeps
<1> QED
  BY <1>1, <1>8, <1>9 DEF RightInv, Alone

\* What a process sees of a user once save() has written what it planned.
LEMMA WriteView ==
  ASSUME TypeInv, NEW p \in Procs, Write(p), ~ConstraintViolated(p), NEW u \in Users,
         \A r \in Roles : Has(u, r) \notin DOMAIN plan[p],
         \A r \in Roles, q \in Permissions : Grants(r, q) \notin DOMAIN plan[p]
  PROVE  /\ Sees(p, User(u))' = WillBe(p, u) /\ \A r \in Roles : Sees(p, Has(u, r))' = Sees(p, Has(u, r))
         /\ CalculatePermissions(p, u)' = CalculatePermissions(p, u)
<1>1. /\ pc[p] = "write" /\ db' = db /\ DOMAIN out'[p] = Found(p) \cup DOMAIN out[p]
      /\ \A c \in Found(p) : out'[p][c] = IF plan[p][c] = Null THEN Sees(p, c) ELSE plan[p][c]
      /\ \A c \in DOMAIN out[p] \ Found(p) : out'[p][c] = out[p][c]
  BY Written DEF Write
<1>2. \A c : c \notin DOMAIN plan[p] => Sees(p, c)' = Sees(p, c)
  BY <1>1 DEF Sees, Found
<1>3. Sees(p, User(u))' = WillBe(p, u)
  <2>1. CASE User(u) \notin DOMAIN plan[p]
    BY <1>1, <1>2, <2>1 DEF WillBe
  <2>2. CASE User(u) \in DOMAIN plan[p]
    <3>1. User(u) \in Found(p)
      BY <2>2, RowKinds DEF Found
    <3> QED
      BY <1>1, <2>2, <3>1 DEF WillBe, Sees
  <2> QED
    BY <2>1, <2>2
<1>4. \A r \in Roles : Sees(p, Has(u, r))' = Sees(p, Has(u, r))
  BY <1>2
<1>5. \A r \in Roles, q \in Permissions : Sees(p, Grants(r, q))' = Sees(p, Grants(r, q))
  BY <1>2
<1> QED
  BY <1>3, <1>4, <1>5, ViewSame

LEMMA WriteKeeps ==
  ASSUME TypeInv, HistoryInv, RightInv, NEW p \in Procs, Write(p), ~ConstraintViolated(p)
  PROVE  (Alone(p)' => Keeps(p)') /\ (p = Boot => BootKeeps')
<1>1. /\ AreFunctions /\ Placed(p) /\ Typed(p) /\ pc[p] = "write"
      /\ UNCHANGED <<db, held, todo, next, work, stale>>
  BY Written DEF TypeInv, Write
<1>2. AtWork(p) /\ work[p].users \subseteq Users /\ Recorded(p)
  BY <1>1, NullApart DEF AtWork, Placed, Typed, Tasks, HistoryInv
<1>3. pc'[p] = next[p] /\ next[p] \in {"commit", "list", "sync"}
  BY <1>1, Written DEF Placed, AreFunctions
<1>4. Open(p)' = Open(p)
  BY <1>1, <1>3 DEF Open, Listing
<1>5. ASSUME Keeps(p), NEW u \in work[p].users \ Open(p)
      PROVE  /\ \A r \in Roles : Has(u, r) \notin DOMAIN plan[p]
             /\ \A r \in Roles, q \in Permissions : Grants(r, q) \notin DOMAIN plan[p]
             /\ WillBe(p, u) \in {Null, CalculatePermissions(p, u)}
  <2>1. next[p] # "list"
    BY <1>1, <1>5 DEF Open, Listing
  <2>2. \A r \in Roles, q \in Permissions : Grants(r, q) \notin DOMAIN plan[p]
    BY <1>1, <1>5, <2>1, PlannedRows DEF Keeps
  <2> QED
    BY <1>1, <1>5, <2>2 DEF Keeps
<1>6. ASSUME Keeps(p), NEW u \in work[p].users \ Open(p)
      PROVE  WillBe(p, u)' \in {Null, CalculatePermissions(p, u)'}
  <2>1. Sees(p, User(u))' = WillBe(p, u) /\ CalculatePermissions(p, u)' = CalculatePermissions(p, u)
    BY <1>2, <1>5, <1>6, WriteView
  <2>2. WillBe(p, u)' = Sees(p, User(u))'
    BY <1>3 DEF WillBe
  <2> QED
    BY <1>5, <1>6, <2>1, <2>2
<1>7. ASSUME Keeps(p), NEW r \in Roles, next[p] = "list", held[p].row = Role(r), NEW u \in work[p].users
      PROVE  Sees(p, Has(u, r))'
  <2>1. Sees(p, Has(u, r)) /\ u \in Users
    BY <1>1, <1>2, <1>7 DEF Keeps
  <2>2. Has(u, r) \notin DOMAIN plan[p]
    BY <1>1, <1>7, <2>1, PlannedRows, RowsDiffer
  <2>3. Sees(p, Has(u, r))' = Sees(p, Has(u, r))
    BY <2>2, Written DEF Sees, Found
  <2> QED
    BY <2>1, <2>3
<1>8. ASSUME Keeps(p) PROVE Keeps(p)'
  BY <1>1, <1>3, <1>4, <1>6, <1>7, <1>8 DEF Keeps
<1>9. ASSUME p = Boot PROVE BootKeeps'
  <2>1. /\ BootKeeps /\ AtWork(Boot) /\ work[p].breaks = {}
        /\ \A u \in work[p].users \ stale : Sees(p, User(u)) \in {Null, CalculatePermissions(p, u)}
    BY <1>2, <1>9 DEF RightInv, BootKeeps
  <2>2. PICK v \in Users \ todo[p] : held[p].row = User(v)
    BY <1>1, <1>9, <2>1 DEF BootKeeps
  <2>3. \A r \in Roles : held[p].row # Role(r)
    BY <2>2, RowsDiffer
  <2>4. next[p] # "list" /\ ~Listing(p)
    BY <1>1, <2>3 DEF Placed, Listing, RoleRows
  <2>5. \A r \in Roles, q \in Permissions : Grants(r, q) \notin DOMAIN plan[p]
    BY <1>1, <2>3, PlannedRows
  <2>6. ASSUME NEW u \in work[p].users \ stale
        PROVE  Sees(p, User(u))' \in {Null, CalculatePermissions(p, u)'}
    <3>1. u \in Users
      BY <1>2, <2>6
    <3>2. CASE u # v
      <4>1. /\ User(u) \notin DOMAIN plan[p]
            /\ \A r \in Roles : Has(u, r) \notin DOMAIN plan[p]
        BY <1>1, <2>2, <3>1, <3>2, PlannedRows, RowsDiffer
      <4>2. WillBe(p, u) = Sees(p, User(u))
        BY <1>1, <4>1 DEF WillBe
      <4> QED
        BY <2>1, <2>5, <2>6, <3>1, <4>1, <4>2, WriteView
    <3>3. CASE u = v
      <4>1. Alone(p) /\ Keeps(p)
        BY <1>2, <2>6 DEF Recorded, Alone, AtWork, RightInv
      <4>2. u \notin Open(p)
        BY <2>1, <2>2, <2>4, <2>6, <3>3 DEF Open
      <4>3. /\ \A r \in Roles : Has(u, r) \notin DOMAIN plan[p]
            /\ WillBe(p, u) \in {Null, CalculatePermissions(p, u)}
        BY <1>5, <2>6, <4>1, <4>2
      <4> QED
        BY <2>5, <3>1, <4>3, WriteView
    <3> QED
      BY <3>2, <3>3
  <2> QED
    BY <1>1, <1>3, <1>9, <2>1, <2>4, <2>6 DEF BootKeeps
<1> QED
  BY <1>1, <1>8, <1>9 DEF RightInv, Alone

LEMMA DeleteKeeps ==
  ASSUME TypeInv, RightInv, NEW p \in Procs, Delete(p), ~Fail(p)
  PROVE  p # Boot /\ (Alone(p)' => Keeps(p)') /\ UNCHANGED <<db, work, stale>>
<1>1. AreFunctions /\ Placed(p) /\ pc[p] = "delete"
  BY DEF TypeInv, Delete
<1>2. p # Boot
  BY <1>1 DEF RightInv, BootKeeps, Placed, AtWork
<1>3. pc'[p] = "commit" /\ UNCHANGED <<db, held, todo, work, stale>>
  BY <1>1 DEF Delete, AreFunctions
<1>4. ASSUME Alone(p)' PROVE Keeps(p)'
  <2>1. Keeps(p)
    BY <1>3, <1>4 DEF RightInv, Alone
  <2>2. work[p].users \subseteq work[p].breaks \ work[p].fixes /\ (p = Boot \/ todo[p] = {})
    BY <1>1, <2>1 DEF Keeps
  <2>3. work'[p].users \ Open(p)' = {}
    BY <1>3, <2>2 DEF Open
  <2> QED
    BY <1>3, <2>2, <2>3 DEF Keeps
<1> QED
  BY <1>2, <1>3, <1>4

\* A commit leaves alone what concerns those who are at work undisturbed.
LEMMA CommitCalm ==
  ASSUME TypeInv, HistoryInv, NEW p \in Procs, Commit(p), NEW o \in Procs \ {p}, Alone(o)
  PROVE  Calm(o)
<1>1. AtWork(p) /\ work[p] \in Tasks /\ work[o] \in Tasks /\ Bounded(p)
  BY NullApart DEF Commit, TypeInv, Placed, Typed, AtWork, Alone, HistoryInv
<1>2. ~Disturb(work[p], work[o])
  BY <1>1 DEF HistoryInv, Apart
<1>3. work[o].users \subseteq Users /\ work[o].changes \subseteq Roles
  BY <1>1 DEF Tasks
<1>4. \A c \in Rows : c \notin DOMAIN out[p] => db'[c] = db[c]
  BY DEF Commit, Sees
<1>5. ASSUME NEW u \in work[o].users
      PROVE  db'[User(u)] = db[User(u)] /\ \A r \in Roles : db'[Has(u, r)] = db[Has(u, r)]
  <2>1. u \notin Touched(p)
    BY <1>2, <1>5 DEF Touched, Disturb
  <2>2. User(u) \notin DOMAIN out[p] /\ \A r \in Roles : Has(u, r) \notin DOMAIN out[p]
    BY <1>1, <1>3, <1>5, <2>1 DEF Bounded, Within
  <2> QED
    BY <1>3, <1>4, <1>5, <2>2, RowKinds
<1>6. ASSUME NEW r \in Roles, NEW q \in Permissions, work[o].users # {} \/ r \in work[o].changes
      PROVE  db'[Grants(r, q)] = db[Grants(r, q)]
  <2>1. r \notin work[p].changes
    BY <1>2, <1>6 DEF Disturb
  <2>2. Grants(r, q) \notin DOMAIN out[p]
    BY <1>1, <2>1 DEF Bounded, Within
  <2> QED
    BY <1>4, <2>2, RowKinds
<1>7. work[o].users \cap stale \subseteq stale'
  <2>1. work[o].users \cap work[p].fixes = {}
    BY <1>1, <1>2 DEF Bounded, Disturb
  <2>2. stale \ work[p].fixes \subseteq stale'
    BY DEF Commit
  <2> QED
    BY <2>1, <2>2
<1> QED
  BY <1>5, <1>6, <1>7 DEF Calm

\* What is committed is right: it is what the process saw.
LEMMA CommitSeen ==
  ASSUME TypeInv, HistoryInv, RightInv, NEW p \in Procs, Commit(p), NEW u \in Users \ stale'
  PROVE  Sees(p, User(u)) \in {Null, CalculatePermissions(p, u)}
<1>1. AtWork(p) /\ work[p] \in Tasks /\ Bounded(p) /\ Recorded(p) /\ pc[p] = "commit"
  BY NullApart DEF Commit, TypeInv, Placed, Typed, AtWork, HistoryInv
<1>2. \/ p = Boot /\ stale' = stale
      \/ /\ p # Boot \/ todo[p] = {}
         /\ stale' = (stale \cup work[p].breaks) \ (IF work[p].alone THEN work[p].fixes ELSE {})
  BY DEF Commit
<1>3. work[p].fixes \subseteq work[p].users /\ work[p].users \subseteq Touched(p)
  BY <1>1 DEF Bounded, Touched
<1>4. CASE u \notin Touched(p)
  <2>1. u \notin stale
    BY <1>2, <1>3, <1>4
  <2>2. User(u) \notin DOMAIN out[p] /\ \A r \in Roles : Has(u, r) \notin DOMAIN out[p]
    BY <1>1, <1>4 DEF Bounded, Within
  <2>3. ASSUME NEW r \in Roles, NEW q \in Permissions, Sees(p, Has(u, r))
        PROVE  Grants(r, q) \notin DOMAIN out[p]
    <3>1. r \notin work[p].changes
      BY <1>1, <1>4, <2>3, SeenHolders
    <3> QED
      BY <1>1, <3>1 DEF Bounded, Within
  <2>4. /\ Sees(p, User(u)) = db[User(u)] /\ \A r \in Roles : Sees(p, Has(u, r)) = db[Has(u, r)]
        /\ \A r \in Roles, q \in Permissions : Sees(p, Has(u, r)) => Sees(p, Grants(r, q)) = db[Grants(r, q)]
    BY <2>2, <2>3 DEF Sees
  <2>5. RightCache(u)
    BY <2>1 DEF RightInv, CacheMatchesRoles, RightCache
  <2> QED
    BY <2>4, <2>5, CacheSeen
<1>5. CASE u \in Touched(p) /\ p = Boot /\ stale' = stale
  BY <1>1, <1>5 DEF RightInv, BootKeeps, Touched
<1>6. CASE /\ u \in Touched(p)
           /\ p # Boot \/ todo[p] = {}
           /\ stale' = (stale \cup work[p].breaks) \ (IF work[p].alone THEN work[p].fixes ELSE {})
  <2>1. Alone(p) /\ u \in work[p].users
    BY <1>1, <1>3, <1>6 DEF Touched, Recorded, Alone, AtWork
  <2>2. Keeps(p) /\ todo[p] = {}
    BY <1>1, <1>6, <2>1 DEF RightInv, Keeps
  <2>3. u \notin Open(p)
    BY <1>1, <1>6, <2>1, <2>2 DEF Open, Listing, Alone
  <2>4. WillBe(p, u) = Sees(p, User(u))
    BY <1>1 DEF WillBe
  <2> QED
    BY <2>1, <2>2, <2>3, <2>4 DEF Keeps
<1> QED
  BY <1>2, <1>4, <1>5, <1>6

LEMMA CommitRight ==
  ASSUME TypeInv, HistoryInv, HistoryInv', RightInv, NEW p \in Procs, Commit(p)
  PROVE  RightInv'
<1>1. Moves(p) /\ AreFunctions /\ pc[p] = "commit" /\ AtWork(p)
  BY CommitTyped DEF Commit, TypeInv, Placed, AtWork
<1>2. CacheMatchesRoles'
  <2> SUFFICES ASSUME NEW u \in Users \ stale', db'[User(u)] # Null
               PROVE  db'[User(u)] =
                        {q \in Permissions : \E r \in Roles : db'[Has(u, r)] /\ db'[Grants(r, q)]}
    BY DEF CacheMatchesRoles
  <2>1. /\ db'[User(u)] = Sees(p, User(u)) /\ \A r \in Roles : db'[Has(u, r)] = Sees(p, Has(u, r))
        /\ \A r \in Roles, q \in Permissions : db'[Grants(r, q)] = Sees(p, Grants(r, q))
    BY RowKinds DEF Commit
  <2>2. CalculatePermissions(p, u) = {q \in Permissions : \E r \in Roles : db'[Has(u, r)] /\ db'[Grants(r, q)]}
    BY <2>1 DEF CalculatePermissions, RolesOf, GrantsOf
  <2> QED
    BY <2>1, <2>2, CommitSeen
<1>3. ASSUME AtWork(p)'
      PROVE  (Keeps(p) => Keeps(p)') /\ (p = Boot => BootKeeps') /\ work' = work
  <2>1. /\ p = Boot /\ out' = [out EXCEPT ![p] = NoRows] /\ pc' = [pc EXCEPT ![p] = "sync"]
        /\ UNCHANGED <<held, plan, todo, next, work, stale>>
    BY <1>1, <1>3 DEF Commit, AreFunctions, AtWork
  <2>2. out'[p] = NoRows /\ pc'[p] = "sync"
    BY <1>1, <2>1 DEF AreFunctions
  <2>3. \A c \in Rows : Sees(p, c)' = Sees(p, c)
    BY <2>2, NoRowsEmpty DEF Commit, Sees
  <2>4. ASSUME NEW u \in Users
        PROVE  /\ Sees(p, User(u))' = Sees(p, User(u))
               /\ CalculatePermissions(p, u)' = CalculatePermissions(p, u)
    BY <2>3, RowKinds, ViewSame
  <2>5. work[p].users \subseteq Users
    BY <1>1, NullApart DEF TypeInv, Typed, AtWork, Tasks
  <2>6. Open(p)' = Open(p)
    BY <1>1, <2>1, <2>2 DEF Open, Listing
  <2>7. \A u \in Users : WillBe(p, u)' = WillBe(p, u)
    BY <1>1, <2>2, <2>4 DEF WillBe
  <2>8. Keeps(p) => Keeps(p)'
    BY <2>1, <2>2, <2>4, <2>5, <2>6, <2>7 DEF Keeps
  <2>9. p = Boot => BootKeeps'
    BY <1>1, <2>1, <2>2, <2>4, <2>5 DEF RightInv, BootKeeps
  <2> QED
    BY <2>1, <2>8, <2>9
<1>4. Alone(p)' => Keeps(p)'
  BY <1>3 DEF RightInv, Alone, AtWork
<1>5. p = Boot => BootKeeps'
  BY <1>3 DEF BootKeeps
<1>6. \A o \in Procs \ {p} : Alone(o) => Calm(o)
  BY CommitCalm
<1> QED
  BY <1>1, <1>2, <1>4, <1>5, <1>6, RightMove

LEMMA FailRight ==
  ASSUME TypeInv, HistoryInv, HistoryInv', RightInv, NEW p \in Procs, pc[p] \in Working, Fail(p)
  PROVE  RightInv'
<1>1. Moves(p) /\ work' = [work EXCEPT ![p] = Null] /\ UNCHANGED <<db, stale>> /\ AreFunctions
  BY FailTyped DEF Fail, TypeInv
<1>2. work'[p] = Null /\ \A o \in Procs \ {p} : Stays(o) /\ work'[o] = work[o]
  BY <1>1 DEF Moves, AreFunctions
<1> QED
  BY <1>1, <1>2, EndsRight

LEMMA StepRight ==
  ASSUME TypeInv, HistoryInv, RightInv, NEW p \in Procs, Step(p)
  PROVE  RightInv'
<1>1. Moves(p) /\ HistoryInv'
  BY StepOfTyped, StepHistory
<1>2. CASE pc[p] \in Working /\ Fail(p)
  BY <1>1, <1>2, FailRight
<1>3. CASE Commit(p)
  BY <1>1, <1>3, CommitRight
<1>4. ASSUME UNCHANGED <<db, stale>>, Alone(p)' => Keeps(p)', p = Boot => BootKeeps'
      PROVE  RightInv'
  <2>1. Quiet
    BY <1>4 DEF Quiet
  <2> QED
    BY <1>1, <1>4, <2>1, RightQuiet
<1>5. CASE List(p)
  <2>1. UNCHANGED <<db, stale>>
    BY <1>5 DEF List
  <2> QED
    BY <1>4, <1>5, <2>1, ListKeeps
<1>6. CASE SyncUser(p)
  <2>1. UNCHANGED <<db, stale>>
    BY <1>6 DEF SyncUser
  <2> QED
    BY <1>4, <1>6, <2>1, SyncUserKeeps
<1>7. CASE Select(p)
  <2>1. UNCHANGED <<db, stale>>
    BY <1>7 DEF Select
  <2> QED
    BY <1>4, <1>7, <2>1, SelectKeeps
<1>8. CASE Write(p)
  <2>1. CASE ConstraintViolated(p)
    BY <1>2, <1>8, <2>1 DEF Write
  <2>2. CASE ~ConstraintViolated(p)
    <3>1. UNCHANGED <<db, stale>>
      BY <1>8, <2>2 DEF Write
    <3> QED
      BY <1>4, <1>8, <2>2, <3>1, WriteKeeps
  <2> QED
    BY <2>1, <2>2
<1>9. CASE Delete(p)
  <2>1. CASE Fail(p)
    BY <1>2, <1>9, <2>1 DEF Delete
  <2>2. CASE ~Fail(p)
    BY <1>4, <1>9, <2>2, DeleteKeeps
  <2> QED
    BY <2>1, <2>2
<1> QED
  BY <1>2, <1>3, <1>5, <1>6, <1>7, <1>8, <1>9 DEF Step, Abort

LEMMA InitRight ==
  ASSUME Init
  PROVE  RightInv
<1>1. \A p \in Procs : work[p] = Null
  BY DEF Init
<1>2. ASSUME NEW u \in Users \ stale, db[User(u)] # Null
      PROVE  db[User(u)] = {q \in Permissions : \E r \in Roles : db[Has(u, r)] /\ db[Grants(r, q)]}
  <2>1. PICK admins \in (SUBSET Users) \ {{}} : db = Created(admins)
    BY DEF Init
  <2>2. db[User(u)] = IF u \in admins THEN StoredFirst ELSE Null
    BY <2>1, RowKinds DEF Created, User
  <2>3. \A r \in Roles : db[Has(u, r)] = (u \in admins /\ r = Admin)
    BY <2>1, RowKinds DEF Created, Has
  <2>4. \A r \in Roles, q \in Permissions : db[Grants(r, q)] = (r = Admin /\ q \in StoredFirst)
    BY <2>1, RowKinds DEF Created, Grants
  <2>5. Admin \in Roles /\ StoredFirst \subseteq Permissions
    BY AccessAssumption
  <2> QED
    BY <1>2, <2>2, <2>3, <2>4, <2>5
<1>3. CacheMatchesRoles
  BY <1>2 DEF CacheMatchesRoles
<1> QED
  BY <1>1, <1>3, Processes DEF RightInv, BootKeeps, Alone, AtWork

\* A process that is at work undisturbed brings the caches of its users to what
\* their roles grant, unless it leaves them stale; and they are that, committed,
\* whenever nobody has let them go stale.
THEOREM RightInOrder == Spec => []RightInv
<1>1. Init => RightInv
  BY InitRight
<1>2. TypeInv /\ LinksInv /\ UsersInv /\ HistoryInv /\ HistoryInv' /\ RightInv /\ [Next]_vars => RightInv'
  <2> SUFFICES ASSUME TypeInv, LinksInv, UsersInv, HistoryInv, HistoryInv', RightInv, [Next]_vars
               PROVE  RightInv'
    OBVIOUS
  <2>1. CASE UNCHANGED vars
    BY <2>1, EndsRight DEF vars, local, Stays, WorkStays
  <2>2. CASE ServerCrash
    BY <2>2, CrashTyped, EndsRight DEF Ends
  <2> QED
    BY <2>1, <2>2, Steps, CallRight, CommandRight, RestartRight, StepRight
<1> QED
  BY <1>1, <1>2, TypesInOrder, LinksInOrder, UsersInOrder, HistoryInOrder, PTL DEF Spec

\* CacheMatchesRoles for any number of users, roles, requests and scripts.
THEOREM CacheIsRight == Spec => []CacheMatchesRoles
<1>1. RightInv => CacheMatchesRoles
  BY DEF RightInv
<1> QED
  BY <1>1, RightInOrder, PTL
=======
