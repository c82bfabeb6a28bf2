-------------------------------- MODULE Gateway --------------------------------
(***************************************************************************)
(* What stands between a client and a handler: TenantMiddleware, the       *)
(* router, JwtAuthGuard, PermissionsGuard and IdempotencyInterceptor, in   *)
(* the order in which Nest runs them, over the table of Endpoints.  One    *)
(* request at a time: the stages keep nothing between requests.            *)
(* RequestPipeline models what they do to connections and tenants.         *)
(***************************************************************************)
EXTENDS Endpoints, Naturals, FiniteSets

CONSTANTS
  Wanted  \* the numbers, in Routes, of the endpoints that clients call

ASSUME GatewayAssumption == Wanted \subseteq 1..Len(Routes)

VARIABLES
  stage,    \* what the request comes to next
  wanted,   \* the endpoint the client means, 0 for a path there is nothing at
  caller,   \* whose access token it carries: "admin", "clerk" or "guest", who has none
  perms,    \* the permissions in the caller's row of users
  header,   \* whether it has x-tenant-id, which is the tenant of the token
  key,      \* whether it has Idempotency-Key
  reached,  \* the endpoint the router has found, or 0
  answer    \* the status of the answer, or 0

request == <<wanted, caller, perms, header, key>>
vars == <<stage, request, reached, answer>>

Callers == {"admin", "clerk", "guest"}

\* Controllers with @UseGuards(JwtAuthGuard, PermissionsGuard), by their prefix.
Open == {"auth"}
\* MUTANT of Guarded: a controller lacks its guards.
GuardedButPos(path) == path # <<>> /\ Head(path) \notin Open \cup {"pos"}
Guarded(path) == path # <<>> /\ Head(path) \notin Open

\* A request names the resources it is about where the endpoint has parameters.
UrlOf(e) ==
  IF e = 0 THEN <<"nothing">>
  ELSE [i \in DOMAIN Routes[e].path |-> IF Routes[e].path[i] = ":" THEN "id" ELSE Routes[e].path[i]]
VerbOf(e) == IF e = 0 THEN "GET" ELSE Routes[e].verb

Matches(path, url) ==
  Len(path) = Len(url) /\ \A i \in DOMAIN path : path[i] \in {":", url[i]}

--------------------------------------------------------------------------------

Reply(status) ==
  /\ answer' = status
  /\ stage' = "answered"
  /\ UNCHANGED <<request, reached>>
PassTo(next) ==
  /\ stage' = next
  /\ UNCHANGED <<request, reached, answer>>

\* The caches an administrator and a clerk have: everything, at most one thing.
Caches(c) ==
  IF c = "admin" THEN {PERMISSIONS}
  ELSE IF c = "clerk" THEN {{}} \cup {{p} : p \in PERMISSIONS} ELSE {{}}

Send ==
  /\ stage = "idle"
  /\ wanted' \in Wanted \cup {0}
  /\ caller' \in Callers
  /\ perms' \in Caches(caller')
  /\ header' \in BOOLEAN /\ key' \in BOOLEAN
  /\ stage' = "middleware"
  /\ UNCHANGED <<reached, answer>>

\* Applied to every path but the root.
TenantMiddleware ==
  /\ stage = "middleware"
  /\ IF UrlOf(wanted) # <<>> /\ ~header THEN Reply(400) ELSE PassTo("router")

Router ==
  /\ stage = "router"
  /\ LET found == {e \in DOMAIN Routes :
                     Routes[e].verb = VerbOf(wanted) /\ Matches(Routes[e].path, UrlOf(wanted))}
     IN \/ found = {} /\ Reply(404)
        \/ /\ found # {}
           /\ reached' = CHOOSE e \in found : \A f \in found : e <= f
           /\ stage' = "authentication"
           /\ UNCHANGED <<request, answer>>

JwtAuthGuard ==
  /\ stage = "authentication"
  /\ LET e == Routes[reached]
     IN IF (Guarded(e.path) \/ e.demand = AnyUser) /\ caller = "guest" THEN Reply(401)
        ELSE PassTo("authorization")

\* Without @RequirePermissions there is nothing to look up.
PermissionsGuard ==
  /\ stage = "authorization"
  /\ LET e == Routes[reached]
     IN IF Guarded(e.path) /\ e.demand \notin {Nobody, AnyUser} /\ e.demand \notin perms
          THEN Reply(403) ELSE PassTo("interceptor")

\* A key is demanded, if the endpoint is idempotent; then the handler answers.
IdempotencyInterceptor ==
  /\ stage = "interceptor"
  /\ IF Routes[reached].once /\ ~key THEN Reply(400) ELSE Reply(200)

\* The request is gone; the next one can come.
Forget ==
  /\ stage = "answered"
  /\ stage' = "idle" /\ wanted' = 0 /\ caller' = "guest" /\ perms' = {}
  /\ header' = FALSE /\ key' = FALSE /\ reached' = 0 /\ answer' = 0

Init ==
  /\ stage = "idle" /\ wanted = 0 /\ caller = "guest" /\ perms = {}
  /\ header = FALSE /\ key = FALSE /\ reached = 0 /\ answer = 0

Next ==
  \/ Send \/ TenantMiddleware \/ Router \/ JwtAuthGuard \/ PermissionsGuard
  \/ IdempotencyInterceptor \/ Forget

Spec == Init /\ [][Next]_vars

--------------------------------------------------------------------------------

\* Who has all the permissions of permissions.enum.ts is served by every endpoint,
\* and by the one that was meant: none demands a permission that no role can have,
\* and none is shadowed by another one, declared before it, that its paths match.
\* Only a request to each of them would test that.
AdminServedEverywhere ==
  stage = "answered" /\ caller = "admin" /\ header /\ key /\ wanted # 0 =>
    answer = 200 /\ reached = wanted

\* Nobody is served beyond the endpoints that demand what they have: a guest by
\* the root, by login, refresh and logout; a user by those of AuthController; and
\* otherwise only who has the permission of that very endpoint.
ServedOnlyIfPermitted ==
  answer = 200 =>
    \/ UrlOf(wanted) \in {<<>>, <<"auth", "login">>, <<"auth", "refresh">>, <<"auth", "logout">>}
    \/ Head(UrlOf(wanted)) = "auth" /\ caller # "guest"
    \/ caller # "guest" /\ Routes[wanted].demand \in perms
================================================================================
