--------------------------------- MODULE Access --------------------------------
(***************************************************************************)
(* The roles of a tenant's users and the permissions cached in users:      *)
(* UserService, RolesService, UserPermissionsService, the synchronisation  *)
(* of PermissionSyncService when the server starts, and the commands of    *)
(* scripts/create-tenant.ts, run beside each other.  The guard reads only  *)
(* the cache (see Gateway), so the cache is what a user may do.            *)
(*                                                                         *)
(* The database is a function on its rows.  A row of user_roles or of      *)
(* role_permissions is there or not, so is one of roles or permissions; a  *)
(* row of users is the cached permissions, or Null.  A transaction (READ   *)
(* COMMITTED) keeps the rows it has written to itself until it commits.    *)
(* save() is TypeORM's: it SELECTs the row and its links again, and writes *)
(* what differs from the entity, whoever changed it.  The statements of    *)
(* one save, and those of a script before its synchronisation, are one     *)
(* step; a permission is stored at most once.                              *)
(***************************************************************************)
CONSTANTS
  Requests,     \* HTTP requests, whose transaction is the interceptor's
  Scripts,      \* runs of create-tenant.ts
  Boot,         \* the synchronisation when the server starts
  Users, Roles, Permissions,
  Admin,        \* the role named "admin"
  StoredFirst,  \* the permissions there were when the tenant was created
  Lists,        \* what assignPermissions is called with
  Null

Procs == Requests \cup Scripts \cup {Boot}

User(u) == <<"users", u>>
Role(r) == <<"roles", r>>
Permission(q) == <<"permissions", q>>
Has(u, r) == <<"user_roles", u, r>>
Grants(r, q) == <<"role_permissions", r, q>>
UserRows == {User(u) : u \in Users}
Rows ==
  UserRows \cup {Role(r) : r \in Roles} \cup {Permission(q) : q \in Permissions}
  \cup {Has(u, r) : u \in Users, r \in Roles} \cup {Grants(r, q) : r \in Roles, q \in Permissions}

\* What save() is given, see Entity, and what a process is at work on, see Task.
Entities ==
  [row: Rows, links: (SUBSET Roles) \cup (SUBSET Permissions) \cup {Null},
   cache: (SUBSET Permissions) \cup {Null}, dirty: BOOLEAN]
Tasks ==
  [users: SUBSET Users, changes: SUBSET Roles, fixes: SUBSET Users, breaks: SUBSET Users,
   alone: BOOLEAN]

ASSUME AccessAssumption ==
  /\ Admin \in Roles
  /\ StoredFirst \subseteq Permissions /\ Lists \subseteq SUBSET Permissions
  /\ Boot \notin Requests \cup Scripts /\ Requests \cap Scripts = {}
  /\ Null \notin Entities /\ Null \notin Tasks /\ \A b \in BOOLEAN : Null # b
  /\ \A s \in (SUBSET Permissions) \cup (SUBSET Roles) : Null # s

VARIABLES
  db,       \* committed rows
  out,      \* uncommitted rows of each process: a function on those it has written
  pc,       \* where each process is, or how it ended
  held,     \* the entity it is about to save, or Null
  plan,     \* the rows that save() has found to differ, and what to make of them
  todo,     \* the users it has still to synchronise
  next,     \* where it goes on after a save
  server,   \* "down", "boot" or "up"
  policed,  \* whether row security applies to the application's database role
  work,     \* history: what a process is at work on, or Null
  stale     \* history: the users whose cache nobody promises to be right

local == <<out, pc, held, plan, todo, next>>
vars == <<db, local, server, policed, work, stale>>

Working == {"delete", "select", "write", "list", "sync", "commit"}
Ended == {"ok", "failed"}
NoRows == [c \in {} |-> Null]
Only(c, v) == [d \in {c} |-> v]
\* The rows of f, and those of g beside them.
Over(f, g) == [c \in DOMAIN f \cup DOMAIN g |-> IF c \in DOMAIN f THEN f[c] ELSE g[c]]

--------------------------------------------------------------------------------
(* What a process sees.                                                       *)

Sees(p, c) == IF c \in DOMAIN out[p] THEN out[p][c] ELSE db[c]
Locked(p, c) == \E o \in Procs \ {p} : c \in DOMAIN out[o]

RolesOf(p, u) == {r \in Roles : Sees(p, Has(u, r))}
GrantsOf(p, r) == {q \in Permissions : Sees(p, Grants(r, q))}
Holders(p, r) == {u \in Users : Sees(p, Has(u, r))}
Stored(p) == {q \in Permissions : Sees(p, Permission(q))}

\* MUTANT of CalculatePermissions: the roles are cached in their stead.
CalculatePermissionsAsRoles(p, u) == RolesOf(p, u)
CalculatePermissions(p, u) == UNION {GrantsOf(p, r) : r \in RolesOf(p, u)}

--------------------------------------------------------------------------------
(* History: which processes disturb each other.  users: whose cache, roles or *)
(* row it reads or writes; changes: roles it changes; fixes: users it         *)
(* synchronises; breaks: users it leaves with a cache that no longer is right.*)

Task(users, changes, fixes, breaks) ==
  [users |-> users, changes |-> changes, fixes |-> fixes, breaks |-> breaks, alone |-> TRUE]

Disturb(w, v) ==
  \/ w.users \cap v.users # {}
  \/ w.changes \cap v.changes # {}
  \/ w.changes # {} /\ v.users # {}
  \/ v.changes # {} /\ w.users # {}

Take(p, w) ==
  LET met == {o \in Procs \ {p} : work[o] # Null /\ Disturb(work[o], w)}
  IN /\ work' = [o \in Procs |->
                   IF o \in met THEN [work[o] EXCEPT !.alone = FALSE]
                   ELSE IF o = p THEN [w EXCEPT !.alone = (met = {})] ELSE work[o]]
     /\ stale' = IF met = {} THEN stale
                 ELSE stale \cup w.users \cup UNION {work[o].users : o \in met}

--------------------------------------------------------------------------------
(* How a transaction ends.                                                    *)

Forget(p) ==
  /\ out' = [out EXCEPT ![p] = NoRows]
  /\ held' = [held EXCEPT ![p] = Null]
  /\ plan' = [plan EXCEPT ![p] = NoRows]
  /\ todo' = [todo EXCEPT ![p] = {}]
  /\ next' = [next EXCEPT ![p] = Null]

\* A check or a statement fails: the transaction is rolled back.  A server that
\* fails to start is down; sync-perms goes on, but its transaction is lost.
Fail(p) ==
  /\ pc' = [pc EXCEPT ![p] = IF p = Boot THEN "idle" ELSE "failed"]
  /\ server' = IF p = Boot THEN "down" ELSE server
  /\ Forget(p)
  /\ work' = [work EXCEPT ![p] = Null]
  /\ UNCHANGED <<db, policed, stale>>

\* The synchronisation at the start commits each user by itself, and goes on.
Commit(p) ==
  /\ pc[p] = "commit"
  /\ db' = [c \in Rows |-> Sees(p, c)]
  /\ \/ /\ p = Boot /\ todo[p] # {}
        /\ out' = [out EXCEPT ![p] = NoRows]
        /\ pc' = [pc EXCEPT ![p] = "sync"]
        /\ UNCHANGED <<held, plan, todo, next, server, work, stale>>
     \/ /\ p # Boot \/ todo[p] = {}
        /\ pc' = [pc EXCEPT ![p] = IF p = Boot THEN "idle" ELSE "ok"]
        /\ server' = IF p = Boot THEN "up" ELSE server
        /\ Forget(p)
        /\ work' = [work EXCEPT ![p] = Null]
        /\ stale' = LET w == work[p]
                    IN (stale \cup w.breaks) \ (IF w.alone THEN w.fixes ELSE {})
  /\ UNCHANGED policed

--------------------------------------------------------------------------------
(* The endpoints of users and roles.                                          *)

Idle(p) == pc[p] = "idle" /\ IF p \in Requests THEN server = "up" ELSE p \in Scripts

\* What there is to save: the row, its links and its cache as they were loaded
\* and changed (Null if not loaded), and whether some other column changes.
Entity(row, links, cache, dirty) ==
  [row |-> row, links |-> links, cache |-> cache, dirty |-> dirty]

Start(p, w, entity, to, then, users) ==
  /\ Take(p, w)
  /\ held' = [held EXCEPT ![p] = entity]
  /\ pc' = [pc EXCEPT ![p] = to]
  /\ next' = [next EXCEPT ![p] = then]
  /\ todo' = [todo EXCEPT ![p] = users]
  /\ UNCHANGED <<db, out, plan, server, policed>>

\* Nothing is written: the request is answered, whether with an error or not.
Answer(p, how) ==
  /\ pc' = [pc EXCEPT ![p] = how]
  /\ UNCHANGED <<db, out, held, plan, todo, next, server, policed, work, stale>>

CreateUser(p) ==
  /\ Idle(p)
  /\ \E u \in Users :
       /\ db[User(u)] = Null /\ ~Locked(p, User(u))
       /\ Take(p, Task({u}, {}, {u}, {}))
       /\ out' = [out EXCEPT ![p] = Only(User(u), {})]
  /\ pc' = [pc EXCEPT ![p] = "commit"]
  /\ UNCHANGED <<db, held, plan, todo, next, server, policed>>

\* update and remove: the entity is loaded without its roles.
UpdateUser(p) ==
  /\ Idle(p)
  /\ \E u \in Users :
       \/ db[User(u)] = Null /\ Answer(p, "failed")
       \/ /\ db[User(u)] # Null
          /\ Start(p, Task({u}, {}, {}, {}), Entity(User(u), Null, db[User(u)], TRUE),
                   "select", "commit", {})

\* The entity is loaded without its cached permissions, too.
ChangePassword(p) ==
  /\ Idle(p)
  /\ \E u \in Users :
       /\ db[User(u)] # Null
       /\ Start(p, Task({u}, {}, {}, {}), Entity(User(u), Null, Null, TRUE),
                "select", "commit", {})

AssignRole(p) ==
  /\ Idle(p)
  /\ \E u \in Users, r \in Roles :
       \/ (db[User(u)] = Null \/ ~db[Role(r)]) /\ Answer(p, "failed")
       \/ db[User(u)] # Null /\ db[Role(r)] /\ db[Has(u, r)] /\ Answer(p, "ok")
       \/ /\ db[User(u)] # Null /\ db[Role(r)] /\ ~db[Has(u, r)]
          /\ Start(p, Task({u}, {}, {u}, {}),
                   Entity(User(u), RolesOf(p, u) \cup {r}, db[User(u)], FALSE),
                   "select", "sync", {u})

RemoveRole(p) ==
  /\ Idle(p)
  /\ \E u \in Users, r \in Roles :
       \/ db[User(u)] = Null /\ Answer(p, "failed")
       \/ /\ db[User(u)] # Null
          /\ Start(p, Task({u}, {}, {u}, {}),
                   Entity(User(u), RolesOf(p, u) \ {r}, db[User(u)], FALSE),
                   "select", "sync", {u})

CreateRole(p) ==
  /\ Idle(p)
  /\ \E r \in Roles \ {Admin} :
       /\ ~db[Role(r)] /\ ~Locked(p, Role(r))
       /\ Take(p, Task({}, {r}, {}, {}))
       /\ out' = [out EXCEPT ![p] = Only(Role(r), TRUE)]
  /\ pc' = [pc EXCEPT ![p] = "commit"]
  /\ UNCHANGED <<db, held, plan, todo, next, server, policed>>

\* The name changes; the permissions are loaded with the role.
UpdateRole(p) ==
  /\ Idle(p)
  /\ \E r \in Roles :
       \/ ~db[Role(r)] /\ Answer(p, "failed")
       \/ /\ db[Role(r)]
          /\ Start(p, Task(Holders(p, r), {r}, {}, {}),
                   Entity(Role(r), GrantsOf(p, r), Null, TRUE), "select", "commit", {})

\* MUTANT of AfterPermissions: the users of the role are forgotten.
AfterPermissionsNothing == "commit"
AfterPermissions == "list"

AssignPermissions(p) ==
  /\ Idle(p)
  /\ \E r \in Roles, list \in Lists :
       \/ (~db[Role(r)] \/ ~(list \subseteq Stored(p))) /\ Answer(p, "failed")
       \/ /\ db[Role(r)] /\ list \subseteq Stored(p)
          /\ Start(p, Task(Holders(p, r), {r}, Holders(p, r), {}),
                   Entity(Role(r), list, Null, FALSE), "select", AfterPermissions, {})

RemoveRoleItself(p) ==
  /\ Idle(p)
  /\ \E r \in Roles : Start(p, Task(Holders(p, r), {r}, {}, Holders(p, r)),
                            Entity(Role(r), Null, Null, FALSE), "delete", Null, {})

--------------------------------------------------------------------------------
(* The commands of create-tenant.ts.                                          *)

\* syncEnumPermissions and syncAdminPermissions, and a user made administrator.
AdminRows(users) ==
  {Permission(q) : q \in Permissions} \cup {Role(Admin)} \cup {Grants(Admin, q) : q \in Permissions}
  \cup {Has(u, Admin) : u \in users}

\* The inserts wait for a deletion of the role.
BeingDeleted(p, r) ==
  \E o \in Procs \ {p} : Role(r) \in DOMAIN out[o] /\ ~out[o][Role(r)]

Grant(p, users, to) ==
  LET missing == {c \in AdminRows(users) : ~db[c]}
  IN /\ Idle(p) /\ p \in Scripts
     /\ \A c \in missing : ~Locked(p, c)
     /\ ~BeingDeleted(p, Admin)
     /\ Take(p, Task(Holders(p, Admin) \cup users, {Admin}, users, Holders(p, Admin) \ users))
     /\ out' = [out EXCEPT ![p] = [c \in missing |-> TRUE]]
     /\ pc' = [pc EXCEPT ![p] = to]
     /\ todo' = [todo EXCEPT ![p] = users]
     /\ UNCHANGED <<db, held, plan, next, server, policed>>

Refresh(p) == Grant(p, {}, "commit")
MakeAdmin(p) == \E u \in Users : db[User(u)] # Null /\ Grant(p, {u}, "sync")

Known(p) == {u \in Users : db[User(u)] # Null}
SyncPermissions(p) ==
  /\ Idle(p) /\ p \in Scripts
  /\ Start(p, Task(Known(p), {}, Known(p), {}), Null, "sync", Null, Known(p))

--------------------------------------------------------------------------------
(* Synchronisation, save and delete.                                          *)

\* The users that have the role, found by a query after the role was saved.
List(p) ==
  /\ pc[p] = "list"
  /\ todo' = [todo EXCEPT ![p] = Holders(p, held[p].row[2])]
  /\ pc' = [pc EXCEPT ![p] = "sync"]
  /\ UNCHANGED <<db, out, held, plan, next, server, policed, work, stale>>

\* syncUserPermissions for the next user, in whatever order; nothing is saved if
\* the cache is right.
SyncUser(p) ==
  /\ pc[p] = "sync"
  /\ \/ /\ todo[p] = {}
        /\ pc' = [pc EXCEPT ![p] = "commit"]
        /\ UNCHANGED <<held, todo, next>>
     \/ \E u \in todo[p] :
          /\ todo' = [todo EXCEPT ![p] = @ \ {u}]
          /\ IF CalculatePermissions(p, u) = Sees(p, User(u)) THEN UNCHANGED <<pc, held, next>>
             ELSE /\ held' = [held EXCEPT ![p] =
                                Entity(User(u), RolesOf(p, u), CalculatePermissions(p, u), FALSE)]
                  /\ pc' = [pc EXCEPT ![p] = "select"]
                  /\ next' = [next EXCEPT ![p] = IF p = Boot THEN "commit" ELSE "sync"]
  /\ UNCHANGED <<db, out, plan, server, policed, work, stale>>

\* The links of the entity, in the order of the columns of their table.
LinkRows(e) ==
  IF e.row \in UserRows THEN {Has(e.row[2], r) : r \in Roles}
  ELSE {Grants(e.row[2], q) : q \in Permissions}

\* save(), first: compare the entity with the rows there are.  A role that is
\* gone is inserted again.  Null stands for an UPDATE of the other columns.
Select(p) ==
  /\ pc[p] = "select"
  /\ LET e == held[p]
         wrong == IF e.links = Null THEN {}
                  ELSE {c \in LinkRows(e) : Sees(p, c) # (c[3] \in e.links)}
         cached == e.row \in UserRows /\ e.cache # Null /\ e.cache # Sees(p, e.row)
         gone == e.row \notin UserRows /\ ~Sees(p, e.row)
         own == IF gone THEN TRUE ELSE IF cached THEN e.cache ELSE Null
     IN plan' = [plan EXCEPT ![p] =
                   Over([c \in wrong |-> c[3] \in e.links],
                        IF e.dirty \/ cached \/ gone THEN Only(e.row, own) ELSE NoRows)]
  /\ pc' = [pc EXCEPT ![p] = "write"]
  /\ UNCHANGED <<db, out, held, todo, next, server, policed, work, stale>>

IsLink(c) == c[1] \in {"user_roles", "role_permissions"}
LinksRole(c, r) ==
  (c[1] = "user_roles" /\ c[3] = r) \/ (c[1] = "role_permissions" /\ c[2] = r)
\* The role a link belongs to: an insert looks it up, and waits for its deletion.
RoleOf(c) == IF c[1] = "user_roles" THEN c[3] ELSE c[2]
Inserted(p) == {c \in DOMAIN plan[p] \ UserRows : plan[p][c] = TRUE}

ConstraintViolated(p) ==
  \E c \in Inserted(p) :
    \/ Sees(p, c)
    \/ IsLink(c) /\ ~Sees(p, Role(RoleOf(c))) /\ Role(RoleOf(c)) \notin Inserted(p)

\* An UPDATE of a role that is gone finds nothing to do.
Found(p) == {c \in DOMAIN plan[p] : plan[p][c] # Null \/ c \in UserRows \/ Sees(p, c)}

\* save(), then: the statements.
Write(p) ==
  /\ pc[p] = "write"
  /\ \A c \in DOMAIN plan[p] : ~Locked(p, c)
  /\ \A c \in Inserted(p) : IsLink(c) => ~BeingDeleted(p, RoleOf(c))
  /\ \/ ConstraintViolated(p) /\ Fail(p)
     \/ /\ ~ConstraintViolated(p)
        /\ out' = [out EXCEPT ![p] =
                     Over([c \in Found(p) |-> IF plan[p][c] = Null THEN Sees(p, c)
                                              ELSE plan[p][c]], @)]
        /\ pc' = [pc EXCEPT ![p] = next[p]]
        /\ plan' = [plan EXCEPT ![p] = NoRows]
        /\ UNCHANGED <<db, held, todo, next, server, policed, work, stale>>

\* MUTANT of Cascade: the junction tables keep their rows.
CascadeNothing(p, r) == {}
\* The foreign keys of the junction tables delete the role's rows with it.
Cascade(p, r) == {c \in Rows : LinksRole(c, r) /\ Sees(p, c)}

\* DELETE waits for whoever has written the role or a link of it.
Delete(p) ==
  /\ pc[p] = "delete"
  /\ LET r == held[p].row[2] IN
     /\ ~Locked(p, Role(r)) /\ \A c \in Rows : LinksRole(c, r) => ~Locked(p, c)
     /\ \/ ~db[Role(r)] /\ Fail(p)
        \/ /\ db[Role(r)]
           /\ out' = [out EXCEPT ![p] =
                        [c \in {Role(r)} \cup Cascade(p, r) |-> FALSE]]
           /\ pc' = [pc EXCEPT ![p] = "commit"]
           /\ UNCHANGED <<db, held, plan, todo, next, server, policed, work, stale>>

\* A statement fails: PostgreSQL finds a circle of waiting transactions and breaks
\* it, or the connection is lost.
Abort(p) == pc[p] \in Working /\ Fail(p)

--------------------------------------------------------------------------------
(* The server.                                                                *)

\* The process dies; transactions of scripts go on.
ServerCrash ==
  /\ server # "down"
  /\ server' = "down"
  /\ LET dead == {p \in Requests \cup {Boot} : pc[p] \in Working} IN
     /\ pc' = [p \in Procs |-> IF p \notin dead THEN pc[p] ELSE IF p = Boot THEN "idle" ELSE "failed"]
     /\ out' = [p \in Procs |-> IF p \in dead THEN NoRows ELSE out[p]]
     /\ held' = [p \in Procs |-> IF p \in dead THEN Null ELSE held[p]]
     /\ plan' = [p \in Procs |-> IF p \in dead THEN NoRows ELSE plan[p]]
     /\ todo' = [p \in Procs |-> IF p \in dead THEN {} ELSE todo[p]]
     /\ next' = [p \in Procs |-> IF p \in dead THEN Null ELSE next[p]]
     /\ work' = [p \in Procs |-> IF p \in dead THEN Null ELSE work[p]]
  /\ UNCHANGED <<db, policed, stale>>

\* onApplicationBootstrap, before the server listens: new permissions are stored
\* one by one; then all users are synchronised, as far as row security shows them
\* to a connection without a tenant.
Restart ==
  /\ server = "down"
  /\ server' = "boot"
  /\ db' = [c \in Rows |-> IF c[1] = "permissions" THEN TRUE ELSE db[c]]
  /\ LET seen == IF policed THEN {} ELSE Known(Boot) IN
     /\ Take(Boot, Task(seen, {}, seen, {}))
     /\ todo' = [todo EXCEPT ![Boot] = seen]
  /\ pc' = [pc EXCEPT ![Boot] = "sync"]
  /\ UNCHANGED <<out, held, plan, next, policed>>

--------------------------------------------------------------------------------

\* createTenantAndAdmin, one transaction, by the release before this one: the
\* role, all its permissions, a user, the assignment and the user's cache.  A
\* colleague may have been made an administrator since.
Created(admins) ==
  [c \in Rows |->
    CASE c[1] = "users" -> IF c[2] \in admins THEN StoredFirst ELSE Null
      [] c[1] = "roles" -> c[2] = Admin
      [] c[1] = "permissions" -> c[2] \in StoredFirst
      [] c[1] = "user_roles" -> c[2] \in admins /\ c[3] = Admin
      [] OTHER -> c[2] = Admin /\ c[3] \in StoredFirst]

Init ==
  /\ \E admins \in (SUBSET Users) \ {{}} : db = Created(admins)
  /\ out = [p \in Procs |-> NoRows] /\ plan = [p \in Procs |-> NoRows]
  /\ pc = [p \in Procs |-> "idle"] /\ held = [p \in Procs |-> Null]
  /\ todo = [p \in Procs |-> {}] /\ next = [p \in Procs |-> Null]
  /\ server = "down" /\ policed \in BOOLEAN
  /\ work = [p \in Procs |-> Null] /\ stale = {}

Call(p) ==
  \/ CreateUser(p) \/ UpdateUser(p) \/ ChangePassword(p) \/ AssignRole(p) \/ RemoveRole(p)
  \/ CreateRole(p) \/ UpdateRole(p) \/ AssignPermissions(p) \/ RemoveRoleItself(p)
Command(p) == Refresh(p) \/ MakeAdmin(p) \/ SyncPermissions(p)
Step(p) == List(p) \/ SyncUser(p) \/ Select(p) \/ Write(p) \/ Delete(p) \/ Commit(p) \/ Abort(p)

Next ==
  \/ \E p \in Requests : Call(p)
  \/ \E p \in Scripts : Command(p)
  \/ \E p \in Procs : Step(p)
  \/ ServerCrash \/ Restart

Spec == Init /\ [][Next]_vars

--------------------------------------------------------------------------------

Values(c) == IF c[1] = "users" THEN (SUBSET Permissions) \cup {Null} ELSE BOOLEAN

TypeOK ==
  /\ DOMAIN db = Rows /\ \A c \in Rows : db[c] \in Values(c)
  /\ \A p \in Procs :
       /\ DOMAIN out[p] \subseteq Rows /\ \A c \in DOMAIN out[p] : out[p][c] \in Values(c)
       /\ pc[p] \in {"idle"} \cup Working \cup Ended
       /\ held[p] # Null => held[p].row \in Rows
       /\ DOMAIN plan[p] \subseteq Rows
       /\ todo[p] \subseteq Users
       /\ next[p] \in {"commit", "list", "sync", Null}
  /\ server \in {"down", "boot", "up"} /\ policed \in BOOLEAN
  /\ stale \subseteq Users

\* What a user may do is what its roles grant: the cache is their union, in every
\* committed state, for users nobody has let go stale.  They do when two requests
\* are at work on the user, or one on it and one on a role, at once, when a role is deleted, and
\* when the permissions of the administrators are refreshed; synchronising them,
\* undisturbed, makes them right again.
CacheMatchesRoles ==
  \A u \in Users \ stale :
    db[User(u)] # Null =>
      db[User(u)] = {q \in Permissions : \E r \in Roles : db[Has(u, r)] /\ db[Grants(r, q)]}

\* No user has, and no permission is granted to, a role that is gone, although
\* roles are deleted beside requests that write their links, and save() puts a
\* deleted role back.
LinksHaveRoles ==
  \A r \in Roles : ~db[Role(r)] => \A c \in Rows : LinksRole(c, r) => ~db[c]
================================================================================
