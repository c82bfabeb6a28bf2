------------------------------ MODULE Server_proofs ------------------------------
(***************************************************************************)
(* Theorems about the stages that any request passes.  RequestPipeline:    *)
(* tenant isolation and the connections of the pool.  Idempotency: the log *)
(* and the records, and that it implements AtMostOnce.  Sessions: one live *)
(* token per session.                                                      *)
(***************************************************************************)
EXTENDS RequestPipeline, Idempotency, Sessions, FiniteSetTheorems, TLAPS


--------------------------------------------------------------------------------
(* RequestPipeline                                                            *)

USE DEF Waiting, Ending, Answered

(* The inductive invariant.  What a request may see depends on the tenant   *)
(* setting of the connection it is given, so the argument needs who holds   *)
(* which connection at each stage, and that the pool has no connection with *)
(* a setting left on it.                                                    *)

\* What a request holds at each stage of its way.
HeldInv ==
  \A r \in Requests :
    /\ pc[r] \in {"idle", "wantGuard", "wantOuter"} \cup Answered => Held(r) = {}
    /\ pc[r] = "check" =>
         \E c \in Connections : Has(r, c, "guard") /\ Held(r) = {c}
    /\ pc[r] \in {"begin", "handle", "wantSecond"} \cup Ending =>
         \E c \in Connections : Has(r, c, "outer") /\ Held(r) = {c}
    /\ pc[r] = "second" =>
         \E c, d \in Connections :
           Has(r, c, "outer") /\ Has(r, d, "second") /\ Held(r) = {c, d}

\* Only the interceptor's connection of a request has a tenant, the request's.
SettingInv ==
  \A c \in Connections : conn[c].tenant # Null =>
    /\ conn[c].holder # Null
    /\ conn[c].use = "outer"
    /\ conn[c].tenant = header[conn[c].holder]

\* An admitted request has a tenant, and its token names no other.
AdmittedInv ==
  \A r \in Requests :
    /\ pc[r] \in Working => header[r] \in Tenants /\ route[r] \in Routes
    /\ token[r] \in {Null, header[r]}
    /\ seen[r] \subseteq {header[r]}
    /\ pc[r] = "idle" => seen[r] = {}
    /\ pc[r] \in Working /\ route[r].work # "repository" => r \in Second
    /\ pc[r] \in {"wantSecond", "second"} => route[r].work # "repository"

IInv == TypeOK /\ HeldInv /\ SettingInv /\ AdmittedInv

--------------------------------------------------------------------------------
(* The pool: its queue, and connections given and given back.                 *)

\* A request is in the queue exactly while it waits, once.
QueueInv ==
  /\ queue \in Seq(Requests)
  /\ \A r \in Requests : (pc[r] \in Waiting) <=> (\E i \in DOMAIN queue : queue[i] = r)
  /\ \A i, j \in DOMAIN queue : queue[i] = queue[j] => i = j

LEMMA AskForKeepsQueue ==
  ASSUME TypeOK, NEW r \in Requests, pc[r] \notin Waiting,
         NEW stage \in Waiting, AskFor(r, stage)
  PROVE  QueueInv' /\ pc' \in [Requests -> {"idle"} \cup Working \cup Answered]
<1>1. queue \in Seq(Requests) /\ queue' = Append(queue, r) /\ queue' \in Seq(Requests)
  BY DEF AskFor, TypeOK
<1>2. /\ DOMAIN queue = 1..Len(queue) /\ Len(queue) \in Nat
      /\ DOMAIN queue' = 1..(Len(queue) + 1)
      /\ \A i \in 1..Len(queue) : queue'[i] = queue[i]
      /\ queue'[Len(queue) + 1] = r
  BY <1>1
<1>3. \A i \in DOMAIN queue : queue[i] # r
  BY DEF TypeOK
<1>4. /\ pc' \in [Requests -> {"idle"} \cup Working \cup Answered]
      /\ pc'[r] \in Waiting
      /\ \A o \in Requests \ {r} : pc'[o] = pc[o]
  BY DEF AskFor, TypeOK, Working
<1>5. \A o \in Requests :
        (\E i \in DOMAIN queue' : queue'[i] = o) <=>
          o = r \/ (\E i \in DOMAIN queue : queue[i] = o)
  BY <1>2
<1>6. \A i, j \in DOMAIN queue' : queue'[i] = queue'[j] => i = j
  BY <1>2, <1>3 DEF TypeOK
<1>7. \A o \in Requests : (pc'[o] \in Waiting) <=> (\E i \in DOMAIN queue' : queue'[i] = o)
  BY <1>3, <1>4, <1>5 DEF TypeOK
<1>8. QED
  BY <1>1, <1>4, <1>6, <1>7 DEF QueueInv

\* A step that neither begins nor ends a wait leaves the queue right.
LEMMA MoveKeepsQueue ==
  ASSUME TypeOK, NEW r \in Requests, pc[r] \notin Waiting,
         NEW stage \in Working \cup Answered, stage \notin Waiting,
         pc' = [pc EXCEPT ![r] = stage], queue' = queue
  PROVE  QueueInv' /\ pc' \in [Requests -> {"idle"} \cup Working \cup Answered]
BY DEF QueueInv, TypeOK

\* Giving a connection back takes it from its holder and changes nothing else.
LEMMA GiveBackFacts ==
  ASSUME IInv, NEW r \in Requests, NEW c \in Connections, conn[c].holder = r, GiveBack(c)
  PROVE  /\ conn' \in [Connections -> [holder: Requests \cup {Null}, use: Uses,
                                       tenant: Tenants \cup {Null}]]
         /\ Held(r)' = Held(r) \ {c}
         /\ \A o \in Requests \ {r} : Held(o)' = Held(o)
         /\ \A d \in Connections \ {c} : conn'[d] = conn[d]
         /\ header' = header => SettingInv'
<1>1. conn' = [conn EXCEPT ![c] = Idle] /\ Idle.holder = Null /\ Idle.tenant = Null
  BY DEF GiveBack, Idle
<1>2. conn' \in [Connections -> [holder: Requests \cup {Null}, use: Uses,
                                 tenant: Tenants \cup {Null}]]
  BY DEF GiveBack, Idle, IInv, TypeOK, Uses
<1>3. conn'[c] = Idle /\ \A d \in Connections \ {c} : conn'[d] = conn[d]
  BY <1>1 DEF IInv, TypeOK
<1>4. Null \notin Requests
  BY ConstantsAssumption
<1>5. Held(r)' = Held(r) \ {c} /\ \A o \in Requests \ {r} : Held(o)' = Held(o)
  BY <1>1, <1>3, <1>4 DEF Held
<1>6. header' = header => SettingInv'
  BY <1>1, <1>3 DEF SettingInv, IInv
<1>7. QED
  BY <1>2, <1>3, <1>5, <1>6

\* The others hold what they held, if their connections and stages are the same.
LEMMA OthersHold ==
  ASSUME IInv, NEW r \in Requests,
         \A o \in Requests \ {r} : pc'[o] = pc[o] /\ Held(o)' = Held(o),
         \A o \in Requests \ {r} : \A d \in Held(o) : conn'[d] = conn[d],
         NEW o \in Requests \ {r}
  PROVE  /\ pc'[o] \in {"idle", "wantGuard", "wantOuter"} \cup Answered => Held(o)' = {}
         /\ pc'[o] = "check" =>
              \E c \in Connections : Has(o, c, "guard")' /\ Held(o)' = {c}
         /\ pc'[o] \in {"begin", "handle", "wantSecond"} \cup Ending =>
              \E c \in Connections : Has(o, c, "outer")' /\ Held(o)' = {c}
         /\ pc'[o] = "second" =>
              \E c, d \in Connections :
                Has(o, c, "outer")' /\ Has(o, d, "second")' /\ Held(o)' = {c, d}
<1>1. \A d \in Connections : \A use : Has(o, d, use) => Has(o, d, use)'
  BY DEF Has, Held
<1>2. QED
  BY <1>1 DEF IInv, HeldInv

--------------------------------------------------------------------------------
(* Each action keeps the invariant.                                           *)

LEMMA InitialInv == Init => IInv
<1> SUFFICES ASSUME Init PROVE IInv
  OBVIOUS
<1>1. Null \notin Requests
  BY ConstantsAssumption
<1>2. TypeOK
  BY DEF Init, TypeOK, Idle, Uses
<1>3. HeldInv /\ SettingInv /\ AdmittedInv
  BY <1>1 DEF Init, HeldInv, SettingInv, AdmittedInv, Held, Idle, Working
<1>4. QED
  BY <1>2, <1>3 DEF IInv

LEMMA ArriveKeepsInv ==
  ASSUME IInv, NEW r \in Requests, Arrive(r)
  PROVE  IInv'
<1>1. pc[r] = "idle" /\ conn' = conn /\ seen' = seen
  BY DEF Arrive
<1>2. /\ Held(r) = {}
      /\ \A o \in Requests : Held(o)' = Held(o)
  BY <1>1 DEF IInv, HeldInv, Held
<1>3. CASE pc' = [pc EXCEPT ![r] = "refused"] /\ UNCHANGED <<header, token, route, queue>>
  <2>1. QueueInv' /\ pc' \in [Requests -> {"idle"} \cup Working \cup Answered]
    BY <1>1, <1>3, MoveKeepsQueue DEF IInv
  <2>2. TypeOK'
    BY <1>1, <1>3, <2>1 DEF TypeOK, QueueInv, IInv
  <2>3. HeldInv'
    BY <1>1, <1>2, <1>3, OthersHold DEF HeldInv, IInv, TypeOK
  <2>4. SettingInv' /\ AdmittedInv'
    BY <1>1, <1>3 DEF SettingInv, AdmittedInv, IInv, TypeOK, Working
  <2>5. QED
    BY <2>2, <2>3, <2>4 DEF IInv
<1>4. ASSUME NEW h \in Tenants \cup {Null}, NEW t \in Tenants \cup {Null}, NEW e \in Routes,
             e.work # "repository" => r \in Second,
             Admitted(h, t, e),
             header' = [header EXCEPT ![r] = h],
             token' = [token EXCEPT ![r] = t],
             route' = [route EXCEPT ![r] = e],
             AskFor(r, IF e.guarded THEN "wantGuard" ELSE "wantOuter")
      PROVE  IInv'
  <2> DEFINE stage == IF e.guarded THEN "wantGuard" ELSE "wantOuter"
  <2>1. stage \in {"wantGuard", "wantOuter"} /\ AskFor(r, stage)
    BY <1>4
  <2> HIDE DEF stage
  <2>2. pc' = [pc EXCEPT ![r] = stage]
    BY <2>1 DEF AskFor
  <2>3. QueueInv' /\ pc' \in [Requests -> {"idle"} \cup Working \cup Answered]
    BY <1>1, <2>1, AskForKeepsQueue DEF IInv
  <2>4. TypeOK'
    BY <1>1, <1>4, <2>3 DEF TypeOK, QueueInv, IInv
  <2>5. HeldInv'
    BY <1>1, <1>2, <2>1, <2>2, OthersHold DEF HeldInv, IInv, TypeOK
  <2>6. \A c \in Connections : conn[c].holder # r
    BY <1>2 DEF Held
  <2>7. SettingInv'
    BY <1>1, <1>4, <2>6 DEF SettingInv, IInv, TypeOK
  <2>8. h \in Tenants /\ t \in {Null, h}
    BY <1>4 DEF Admitted
  <2>9. AdmittedInv'
    BY <1>1, <1>4, <2>1, <2>2, <2>8 DEF AdmittedInv, IInv, TypeOK, Working
  <2>10. QED
    BY <2>4, <2>5, <2>7, <2>9 DEF IInv
<1>5. QED
  BY <1>3, <1>4 DEF Arrive

LEMMA GrantKeepsInv ==
  ASSUME IInv, Grant
  PROVE  IInv'
<1>1. queue \in Seq(Requests) /\ queue # <<>>
  BY DEF Grant, IInv, TypeOK
<1> PICK r \in Requests : r = Head(queue)
  BY <1>1
<1>2. /\ Len(queue) \in Nat \ {0}
      /\ DOMAIN queue = 1..Len(queue)
      /\ 1 \in DOMAIN queue /\ queue[1] = r
      /\ queue' = Tail(queue)
      /\ DOMAIN queue' = 1..(Len(queue) - 1)
      /\ \A i \in DOMAIN queue' : queue'[i] = queue[i + 1]
      /\ queue' \in Seq(Requests)
  BY <1>1 DEF Grant
<1>3. pc[r] \in Waiting
  BY <1>2 DEF IInv, TypeOK
<1>4. PICK c \in Free :
        /\ conn' = [conn EXCEPT ![c] =
                      [holder |-> r, use |-> UseOf[pc[r]], tenant |-> conn[c].tenant]]
        /\ pc' = [pc EXCEPT ![r] = Granted[pc[r]]]
  BY DEF Grant
<1>5. /\ pc[r] = "wantGuard" => Granted[pc[r]] = "check" /\ UseOf[pc[r]] = "guard"
      /\ pc[r] = "wantOuter" => Granted[pc[r]] = "begin" /\ UseOf[pc[r]] = "outer"
      /\ pc[r] = "wantSecond" => Granted[pc[r]] = "second" /\ UseOf[pc[r]] = "second"
  BY <1>3 DEF Granted, UseOf
<1>6. c \in Connections /\ conn[c].holder = Null /\ conn[c].tenant = Null
  BY <1>4 DEF Free, IInv, SettingInv
<1>7. /\ pc'[r] = Granted[pc[r]]
      /\ \A o \in Requests \ {r} : pc'[o] = pc[o]
      /\ pc' \in [Requests -> {"idle"} \cup Working \cup Answered]
      /\ pc'[r] \notin Waiting
  BY <1>2, <1>3, <1>4, <1>5 DEF IInv, TypeOK, Working
<1>8. \A o \in Requests : (pc'[o] \in Waiting) <=> (\E i \in DOMAIN queue' : queue'[i] = o)
  <2>1. ASSUME NEW i \in DOMAIN queue', queue'[i] = r PROVE FALSE
    <3>1. i + 1 \in DOMAIN queue /\ i + 1 # 1 /\ queue[i + 1] = queue[1]
      BY <1>2, <2>1
    <3>2. QED
      BY <1>2, <3>1 DEF IInv, TypeOK
  <2>2. ASSUME NEW o \in Requests \ {r}
        PROVE  (\E i \in DOMAIN queue : queue[i] = o) <=> (\E i \in DOMAIN queue' : queue'[i] = o)
    <3>1. ASSUME NEW i \in DOMAIN queue, queue[i] = o PROVE \E j \in DOMAIN queue' : queue'[j] = o
      <4>1. i # 1 /\ i - 1 \in DOMAIN queue' /\ queue'[i - 1] = o
        BY <1>2, <2>2, <3>1
      <4>2. QED
        BY <4>1
    <3>2. ASSUME NEW i \in DOMAIN queue', queue'[i] = o PROVE \E j \in DOMAIN queue : queue[j] = o
      BY <1>2, <3>2
    <3>3. QED
      BY <3>1, <3>2
  <2>3. QED
    BY <1>7, <2>1, <2>2 DEF IInv, TypeOK
<1>9. \A i, j \in DOMAIN queue' : queue'[i] = queue'[j] => i = j
  <2>1. \A i \in DOMAIN queue' : i \in Int /\ i + 1 \in DOMAIN queue
    BY <1>2
  <2>2. \A i, j \in DOMAIN queue' : queue'[i] = queue'[j] => i + 1 = j + 1
    BY <1>2, <2>1 DEF IInv, TypeOK
  <2>3. QED
    BY <2>1, <2>2
<1>10. conn' \in [Connections -> [holder: Requests \cup {Null}, use: Uses,
                                  tenant: Tenants \cup {Null}]]
  BY <1>2, <1>3, <1>4, <1>5, <1>6 DEF IInv, TypeOK, Uses
<1>11. TypeOK'
  BY <1>2, <1>7, <1>8, <1>9, <1>10 DEF TypeOK, Grant, IInv
<1>12. /\ conn'[c].holder = r /\ conn'[c].use = UseOf[pc[r]] /\ conn'[c].tenant = Null
       /\ \A d \in Connections \ {c} : conn'[d] = conn[d]
  BY <1>4, <1>6 DEF IInv, TypeOK
<1>13. Held(r)' = Held(r) \cup {c} /\ \A o \in Requests \ {r} : Held(o)' = Held(o)
  BY <1>6, <1>12, ConstantsAssumption DEF Held
<1>14. \A d \in Connections : \A use : Has(r, d, use) => Has(r, d, use)'
  BY <1>2, <1>6, <1>12, ConstantsAssumption DEF Has
<1>15. HeldInv'
  <2>1. pc[r] = "wantGuard" => pc'[r] = "check" /\ Has(r, c, "guard")' /\ Held(r)' = {c}
    BY <1>2, <1>5, <1>7, <1>12, <1>13 DEF IInv, HeldInv, Has
  <2>2. pc[r] = "wantOuter" => pc'[r] = "begin" /\ Has(r, c, "outer")' /\ Held(r)' = {c}
    BY <1>2, <1>5, <1>7, <1>12, <1>13 DEF IInv, HeldInv, Has
  <2>3. ASSUME pc[r] = "wantSecond"
        PROVE  /\ pc'[r] = "second"
               /\ \E a, d \in Connections :
                    Has(r, a, "outer")' /\ Has(r, d, "second")' /\ Held(r)' = {a, d}
    <3>1. PICK a \in Connections : Has(r, a, "outer") /\ Held(r) = {a}
      BY <1>2, <2>3 DEF IInv, HeldInv
    <3>2. Has(r, a, "outer")' /\ Has(r, c, "second")' /\ Held(r)' = {a, c}
      BY <1>5, <1>12, <1>13, <1>14, <2>3, <3>1 DEF Has
    <3>3. QED
      BY <1>5, <1>6, <1>7, <2>3, <3>2
  <2>4. \A o \in Requests \ {r} : \A d \in Held(o) : conn'[d] = conn[d]
    BY <1>6, <1>12, ConstantsAssumption DEF Held
  <2>5. QED
    BY <1>2, <1>3, <1>6, <1>7, <1>13, <2>1, <2>2, <2>3, <2>4, OthersHold DEF HeldInv
<1>16. SettingInv'
  BY <1>12 DEF SettingInv, Grant, IInv
<1>17. AdmittedInv'
  BY <1>2, <1>3, <1>5, <1>7 DEF AdmittedInv, Grant, IInv, Working
<1>18. QED
  BY <1>11, <1>15, <1>16, <1>17 DEF IInv

LEMMA CheckPermissionsKeepsInv ==
  ASSUME IInv, NEW r \in Requests, CheckPermissions(r)
  PROVE  IInv'
<1>1. PICK c \in Connections : Has(r, c, "guard") /\ GiveBack(c)
  BY DEF CheckPermissions
<1>2. PICK stage \in {"refused", "wantOuter"} :
        /\ pc' = [pc EXCEPT ![r] = stage]
        /\ \/ stage = "refused" /\ queue' = queue
           \/ stage = "wantOuter" /\ AskFor(r, stage)
  BY DEF CheckPermissions, AskFor
<1>3. pc[r] = "check" /\ header' = header /\ UNCHANGED <<token, route, seen>>
  BY DEF CheckPermissions
<1>4. QueueInv' /\ pc' \in [Requests -> {"idle"} \cup Working \cup Answered]
  BY <1>2, <1>3, MoveKeepsQueue, AskForKeepsQueue DEF IInv
<1>5. /\ pc'[r] = stage /\ \A o \in Requests \ {r} : pc'[o] = pc[o]
  BY <1>2 DEF IInv, TypeOK
<1>6. Held(r) = {c}
  BY <1>1, <1>3 DEF IInv, HeldInv, Held, Has
<1>7. conn[c].holder = r
  BY <1>1 DEF Has
<1>8. TypeOK'
  BY <1>1, <1>3, <1>4, <1>7, GiveBackFacts DEF TypeOK, QueueInv, IInv
<1>9. HeldInv'
  <2>1. Held(r)' = {} /\ \A o \in Requests \ {r} : Held(o)' = Held(o)
    BY <1>1, <1>6, <1>7, GiveBackFacts
  <2>2. \A o \in Requests \ {r} : \A d \in Held(o) : conn'[d] = conn[d]
    BY <1>1, <1>7, GiveBackFacts DEF Held
  <2>3. QED
    BY <1>2, <1>5, <2>1, <2>2, OthersHold DEF HeldInv
<1>10. SettingInv'
  BY <1>1, <1>3, <1>7, GiveBackFacts
<1>11. AdmittedInv'
  BY <1>2, <1>3, <1>5 DEF AdmittedInv, IInv, Working
<1>12. QED
  BY <1>8, <1>9, <1>10, <1>11 DEF IInv

LEMMA BeginOuterKeepsInv ==
  ASSUME IInv, NEW r \in Requests, BeginOuter(r)
  PROVE  IInv'
<1>1. PICK c \in Connections :
        Has(r, c, "outer") /\ conn' = [conn EXCEPT ![c].tenant = header[r]]
  BY DEF BeginOuter
<1>2. /\ pc[r] = "begin" /\ pc' = [pc EXCEPT ![r] = "handle"]
      /\ UNCHANGED <<header, token, route, queue, seen>>
  BY DEF BeginOuter
<1>3. QueueInv' /\ pc' \in [Requests -> {"idle"} \cup Working \cup Answered]
  BY <1>2, MoveKeepsQueue DEF IInv, Working
<1>4. header[r] \in Tenants
  BY <1>2 DEF IInv, AdmittedInv, Working
<1>5. TypeOK'
  <2>1. conn' \in [Connections -> [holder: Requests \cup {Null}, use: Uses,
                                   tenant: Tenants \cup {Null}]]
    BY <1>1, <1>4 DEF TypeOK, IInv
  <2>2. QED
    BY <1>2, <1>3, <2>1 DEF TypeOK, QueueInv, IInv
<1>6. /\ conn'[c].tenant = header[r]
      /\ \A d \in Connections \ {c} : conn'[d] = conn[d]
      /\ \A d \in Connections : conn'[d].holder = conn[d].holder /\ conn'[d].use = conn[d].use
  BY <1>1 DEF IInv, TypeOK
<1>7. /\ \A o \in Requests : Held(o)' = Held(o)
      /\ \A o \in Requests, d \in Connections : \A use : Has(o, d, use) => Has(o, d, use)'
  BY <1>6 DEF Held, Has
<1>8. HeldInv'
  <2>1. \A o \in Requests \ {r} : \A d \in Held(o) : conn'[d] = conn[d]
    BY <1>1, <1>6 DEF Held, Has
  <2>2. \A o \in Requests \ {r} : pc'[o] = pc[o]
    BY <1>2 DEF IInv, TypeOK
  <2>3. pc'[r] = "handle"
    BY <1>2 DEF IInv, TypeOK
  <2>4. \E d \in Connections : Has(r, d, "outer")' /\ Held(r)' = {d}
    BY <1>2, <1>7 DEF IInv, HeldInv
  <2>5. QED
    BY <1>7, <2>1, <2>2, <2>3, <2>4, OthersHold DEF HeldInv
<1>9. SettingInv'
  BY <1>1, <1>2, <1>6, ConstantsAssumption DEF SettingInv, IInv, Has
<1>10. AdmittedInv'
  BY <1>2 DEF AdmittedInv, IInv, TypeOK, Working
<1>11. QED
  BY <1>5, <1>8, <1>9, <1>10 DEF IInv

\* The tenant setting of a request's connection is the request's.
LEMMA VisibleIsOwn ==
  ASSUME IInv, NEW r \in Requests, NEW c \in Connections, conn[c].holder = r
  PROVE  /\ Visible(c) \subseteq {header[r]} \cap Tenants
         /\ conn[c].use # "outer" => Visible(c) = {}
BY DEF Visible, IInv, SettingInv, TypeOK

LEMMA HandleKeepsInv ==
  ASSUME IInv, NEW r \in Requests, HandleOnRepositories(r)
  PROVE  IInv'
<1>1. PICK c \in Connections :
        Has(r, c, "outer") /\ seen' = [seen EXCEPT ![r] = @ \cup Visible(c)]
  BY DEF HandleOnRepositories
<1>2. PICK end \in Ending : pc' = [pc EXCEPT ![r] = end]
  BY DEF HandleOnRepositories
<1>3. pc[r] = "handle" /\ UNCHANGED <<header, token, route, conn, queue>>
  BY DEF HandleOnRepositories
<1>4. QueueInv' /\ pc' \in [Requests -> {"idle"} \cup Working \cup Answered]
  BY <1>2, <1>3, MoveKeepsQueue DEF IInv, Working
<1>5. Visible(c) \subseteq {header[r]} \cap Tenants
  BY <1>1, VisibleIsOwn DEF Has
<1>6. TypeOK'
  BY <1>1, <1>3, <1>4, <1>5 DEF TypeOK, QueueInv, IInv
<1>7. pc'[r] = end /\ \A o \in Requests \ {r} : pc'[o] = pc[o]
  BY <1>2 DEF IInv, TypeOK
<1>8. HeldInv'
  <2>1. \A o \in Requests : Held(o)' = Held(o)
    BY <1>3 DEF Held
  <2>2. \E d \in Connections : Has(r, d, "outer")' /\ Held(r)' = {d}
    BY <1>3, <2>1 DEF IInv, HeldInv, Has
  <2>3. QED
    BY <1>3, <1>7, <2>1, <2>2, OthersHold DEF HeldInv
<1>9. SettingInv'
  BY <1>3 DEF SettingInv, IInv
<1>10. AdmittedInv'
  BY <1>1, <1>2, <1>3, <1>5, <1>7 DEF AdmittedInv, IInv, TypeOK, Working
<1>11. QED
  BY <1>6, <1>8, <1>9, <1>10 DEF IInv

LEMMA OpenSecondKeepsInv ==
  ASSUME IInv, NEW r \in Requests, OpenSecond(r)
  PROVE  IInv'
<1>1. /\ pc[r] = "handle" /\ route[r].work \in {"nested", "bare"}
      /\ AskFor(r, "wantSecond") /\ pc' = [pc EXCEPT ![r] = "wantSecond"]
      /\ UNCHANGED <<header, token, route, conn, seen>>
  BY DEF OpenSecond, AskFor
<1>2. QueueInv' /\ pc' \in [Requests -> {"idle"} \cup Working \cup Answered]
  BY <1>1, AskForKeepsQueue DEF IInv
<1>3. TypeOK'
  BY <1>1, <1>2 DEF TypeOK, QueueInv, IInv
<1>4. pc'[r] = "wantSecond" /\ \A o \in Requests \ {r} : pc'[o] = pc[o]
  BY <1>1 DEF IInv, TypeOK
<1>5. HeldInv'
  <2>1. \A o \in Requests : Held(o)' = Held(o)
    BY <1>1 DEF Held
  <2>2. \E d \in Connections : Has(r, d, "outer")' /\ Held(r)' = {d}
    BY <1>1, <2>1 DEF IInv, HeldInv, Has
  <2>3. QED
    BY <1>1, <1>4, <2>1, <2>2, OthersHold DEF HeldInv
<1>6. SettingInv' /\ AdmittedInv'
  BY <1>1, <1>4 DEF SettingInv, AdmittedInv, IInv, Working
<1>7. QED
  BY <1>3, <1>5, <1>6 DEF IInv

LEMMA WorkInSecondKeepsInv ==
  ASSUME IInv, NEW r \in Requests, WorkInSecond(r)
  PROVE  IInv'
<1>1. PICK c \in Connections, end \in Ending :
        /\ Has(r, c, "second")
        /\ seen' = [seen EXCEPT ![r] = @ \cup SeenInSecond(r, c)]
        /\ pc' = [pc EXCEPT ![r] = end]
        /\ GiveBack(c)
  BY DEF WorkInSecond
<1>2. pc[r] = "second" /\ UNCHANGED <<header, token, route, queue>>
  BY DEF WorkInSecond
<1>3. QueueInv' /\ pc' \in [Requests -> {"idle"} \cup Working \cup Answered]
  BY <1>1, <1>2, MoveKeepsQueue DEF IInv, Working
<1>4. conn[c].holder = r /\ conn[c].use = "second"
  BY <1>1 DEF Has
<1>5. SeenInSecond(r, c) \subseteq {header[r]} \cap Tenants
  BY <1>2, <1>4, VisibleIsOwn DEF SeenInSecond, IInv, AdmittedInv, Working
<1>6. TypeOK'
  <2>1. seen' \in [Requests -> SUBSET Tenants]
    BY <1>1, <1>5 DEF TypeOK, IInv
  <2>2. QED
    BY <1>1, <1>2, <1>3, <1>4, <2>1, GiveBackFacts DEF TypeOK, QueueInv, IInv
<1>7. pc'[r] = end /\ \A o \in Requests \ {r} : pc'[o] = pc[o]
  BY <1>1 DEF IInv, TypeOK
<1>8. HeldInv'
  <2>1. PICK a, d \in Connections : Has(r, a, "outer") /\ Has(r, d, "second") /\ Held(r) = {a, d}
    BY <1>2 DEF IInv, HeldInv
  <2>2. c = d /\ a # c
    BY <1>4, <2>1 DEF Has, Held
  <2>3. Held(r)' = {a} /\ \A o \in Requests \ {r} : Held(o)' = Held(o)
    BY <1>1, <1>4, <2>1, <2>2, GiveBackFacts
  <2>4. Has(r, a, "outer")'
    BY <1>1, <1>4, <2>1, <2>2, GiveBackFacts DEF Has
  <2>5. \A o \in Requests \ {r} : \A x \in Held(o) : conn'[x] = conn[x]
    BY <1>1, <1>4, GiveBackFacts DEF Held
  <2>6. QED
    BY <1>7, <2>3, <2>4, <2>5, OthersHold DEF HeldInv
<1>9. SettingInv'
  BY <1>1, <1>2, <1>4, GiveBackFacts
<1>10. AdmittedInv'
  BY <1>1, <1>2, <1>5, <1>7 DEF AdmittedInv, IInv, TypeOK, Working
<1>11. QED
  BY <1>6, <1>8, <1>9, <1>10 DEF IInv

LEMMA FinishKeepsInv ==
  ASSUME IInv, NEW r \in Requests, Finish(r)
  PROVE  IInv'
<1>1. PICK c \in Connections : Has(r, c, "outer") /\ GiveBack(c)
  BY DEF Finish
<1>2. PICK end \in Answered : pc' = [pc EXCEPT ![r] = end]
  BY DEF Finish
<1>3. pc[r] \in Ending /\ UNCHANGED <<header, token, route, queue, seen>>
  BY DEF Finish
<1>4. QueueInv' /\ pc' \in [Requests -> {"idle"} \cup Working \cup Answered]
  BY <1>2, <1>3, MoveKeepsQueue DEF IInv, Working
<1>5. conn[c].holder = r
  BY <1>1 DEF Has
<1>6. TypeOK'
  BY <1>1, <1>3, <1>4, <1>5, GiveBackFacts DEF TypeOK, QueueInv, IInv
<1>7. pc'[r] = end /\ \A o \in Requests \ {r} : pc'[o] = pc[o]
  BY <1>2 DEF IInv, TypeOK
<1>8. HeldInv'
  <2>1. Held(r) = {c}
    BY <1>3, <1>5 DEF IInv, HeldInv, Held
  <2>2. Held(r)' = {} /\ \A o \in Requests \ {r} : Held(o)' = Held(o)
    BY <1>1, <1>5, <2>1, GiveBackFacts
  <2>3. \A o \in Requests \ {r} : \A d \in Held(o) : conn'[d] = conn[d]
    BY <1>1, <1>5, GiveBackFacts DEF Held
  <2>4. QED
    BY <1>7, <2>2, <2>3, OthersHold DEF HeldInv
<1>9. SettingInv'
  BY <1>1, <1>3, <1>5, GiveBackFacts
<1>10. AdmittedInv'
  BY <1>3, <1>7 DEF AdmittedInv, IInv, Working
<1>11. QED
  BY <1>6, <1>8, <1>9, <1>10 DEF IInv

--------------------------------------------------------------------------------
(* The theorems.                                                              *)

\* The invariant above holds in every reachable state of the pipeline; the
\* theorems below rest on it.
THEOREM Invariance == Spec => []IInv
<1>1. IInv /\ [Next]_vars => IInv'
  <2> SUFFICES ASSUME IInv, [Next]_vars PROVE IInv'
    OBVIOUS
  <2>1. ASSUME NEW r \in Requests, Arrive(r) PROVE IInv'
    BY <2>1, ArriveKeepsInv
  <2>2. ASSUME NEW r \in Requests, Step(r) PROVE IInv'
    BY <2>2, CheckPermissionsKeepsInv, BeginOuterKeepsInv, HandleKeepsInv,
       OpenSecondKeepsInv, WorkInSecondKeepsInv, FinishKeepsInv DEF Step
  <2>3. CASE Grant
    BY <2>3, GrantKeepsInv
  <2>4. CASE UNCHANGED vars
    BY <2>4 DEF vars, IInv, TypeOK, HeldInv, SettingInv, AdmittedInv, Held, Has
  <2>5. QED
    BY <2>1, <2>2, <2>3, <2>4 DEF Next, Settled
<1>2. QED
  BY <1>1, InitialInv, PTL DEF Spec

\* The variables of RequestPipeline have their types, and the pool's queue holds
\* exactly the waiting requests, each once.
THEOREM PipelineTypes == Spec => []TypeOK
<1>1. IInv => TypeOK
  BY DEF IInv
<1>2. QED
  BY <1>1, Invariance, PTL

\* Row security with transaction-local settings isolates tenants: for any number
\* of requests on any number of shared connections, no request ever sees a row of
\* another tenant than the one of its header and its access token.
THEOREM TenantsAreIsolated == Spec => []TenantIsolation
<1>1. IInv => TenantIsolation
  BY DEF IInv, AdmittedInv, TenantIsolation
<1>2. QED
  BY <1>1, Invariance, PTL

\* The connections of a request are those of its stage: none before it asks and
\* after its answer, two only in its service's second transaction.
THEOREM ConnectionsAreReturned == Spec => []ConnectionsHeld
<1>1. ASSUME IInv, NEW r \in Requests
      PROVE  Cardinality(Held(r)) =
               CASE pc[r] \in {"idle", "wantGuard", "wantOuter"} \cup Answered -> 0
                 [] pc[r] = "second" -> 2
                 [] OTHER -> 1
  <2>1. CASE pc[r] \in {"idle", "wantGuard", "wantOuter"} \cup Answered
    BY <1>1, <2>1, FS_EmptySet DEF IInv, HeldInv
  <2>2. CASE pc[r] = "second"
    <3>1. PICK a, d \in Connections : a # d /\ Held(r) = {a} \cup {d}
      BY <1>1, <2>2 DEF IInv, HeldInv, Has
    <3>2. Cardinality({a}) = 1 /\ IsFiniteSet({a})
      BY FS_Singleton
    <3>3. Cardinality({a} \cup {d}) = 2
      BY <3>1, <3>2, FS_AddElement
    <3>4. QED
      BY <2>2, <3>1, <3>3
  <2>3. CASE pc[r] \in {"check", "begin", "handle", "wantSecond"} \cup Ending
    <3>1. PICK c \in Connections : Held(r) = {c}
      BY <1>1, <2>3 DEF IInv, HeldInv
    <3>2. QED
      BY <2>3, <3>1, FS_Singleton
  <2>4. QED
    BY <1>1, <2>1, <2>2, <2>3 DEF IInv, TypeOK, Working
<1>2. IInv => ConnectionsHeld
  BY <1>1 DEF ConnectionsHeld
<1>3. QED
  BY <1>2, Invariance, PTL

\* The size of the pool that rules exhaustion out: with more connections than
\* requests that take a second one, the state in which every connection is held
\* by a request waiting for another is unreachable.  With AnsweredUnlessExhausted
\* every request is then answered.
THEOREM LargePoolIsNeverExhausted ==
  ASSUME IsFiniteSet(Second), IsFiniteSet(Connections),
         Cardinality(Second) < Cardinality(Connections)
  PROVE  Spec => []~Exhausted
<1>1. ASSUME IInv, Exhausted PROVE FALSE
  <2> DEFINE f == [c \in Connections |-> conn[c].holder]
  <2>1. \A c \in Connections :
          conn[c].holder \in Requests /\ pc[conn[c].holder] = "wantSecond"
    BY <1>1 DEF Exhausted, IInv, TypeOK
  <2>2. f \in [Connections -> Second]
    BY <1>1, <2>1 DEF IInv, AdmittedInv, Working
  <2> HIDE DEF f
  <2>3. PICK c, d \in Connections : c # d /\ f[c] = f[d]
    <3>1. \E c, d \in Connections : c # d /\ f[c] = f[d]
      BY <2>2, FS_PigeonHole, Zenon
    <3>2. QED
      BY <3>1
  <2> USE DEF f
  <2>4. {c, d} \subseteq Held(conn[c].holder)
    BY <2>3 DEF Held
  <2>5. QED
    BY <1>1, <2>1, <2>3, <2>4 DEF IInv, HeldInv
<1>2. QED
  BY <1>1, Invariance, PTL

--------------------------------------------------------------------------------
(* Idempotency                                                                *)

(* The inductive invariant.  The unique index is checked when a row is      *)
(* inserted, long before the commit, so the argument needs what holds in    *)
(* between: the key of a running transaction is in no committed row and in  *)
(* no other transaction.                                                    *)

Holding == {"handle", "update", "commit"}

\* Where a request is agrees with what it has.
ProgressInv ==
  \A r \in Requests :
    /\ phase[r] = "idle" => call[r] = Null
    /\ phase[r] \in InProgress => call[r] # Null
    /\ mine[r] # Null <=> phase[r] \in Holding
    /\ phase[r] = "commit" => mine[r].body = r
    /\ r \in created => call[r] # Null /\ phase[r] \in {"reply", "answered", "lost"}

\* An uncommitted row is its request's, and nobody else has the key.
MineInv ==
  \A r \in Requests : mine[r] # Null =>
    /\ SameScope(mine[r], call[r]) /\ mine[r].operation = call[r].operation
    /\ \A row \in logs : row.key # mine[r].key
    /\ \A o \in Requests \ {r} : mine[o] # Null => mine[o].key # mine[r].key

UniqueKeys == \A x, y \in logs : x.key = y.key => x = y

ReplyInv ==
  \A r \in Requests : phase[r] \in {"reply", "answered"} =>
    reply[r] \in created /\ call[reply[r]] = call[r]

IdempotencyInv ==
  IdempotencyTypeOK /\ ProgressInv /\ MineInv /\ UniqueKeys /\ LogsStandForRecords /\ ReplyInv

LEMMA IdempotencyInitially == IdempotencyInit => IdempotencyInv
BY DEF IdempotencyInit, IdempotencyInv, IdempotencyTypeOK, ProgressInv, MineInv, UniqueKeys, LogsStandForRecords,
       ReplyInv, InProgress, Holding

LEMMA EndKeepsInv ==
  ASSUME IdempotencyInv, NEW r \in Requests, NEW how \in {"refused", "conflict"},
         EndWithout(r, how), phase[r] # "reply", phase[r] # "answered", phase[r] # "lost"
  PROVE  IdempotencyInv'
<1>1. IdempotencyTypeOK'
  BY DEF EndWithout, IdempotencyInv, IdempotencyTypeOK, Ended
<1>2. ProgressInv'
  BY DEF EndWithout, IdempotencyInv, IdempotencyTypeOK, ProgressInv, InProgress, Holding
<1>3. MineInv'
  BY DEF EndWithout, IdempotencyInv, IdempotencyTypeOK, MineInv, SameScope
<1>4. UniqueKeys' /\ LogsStandForRecords'
  BY DEF EndWithout, IdempotencyInv, UniqueKeys, LogsStandForRecords, SameScope
<1>5. ReplyInv'
  BY DEF EndWithout, IdempotencyInv, IdempotencyTypeOK, ReplyInv
<1>6. QED
  BY <1>1, <1>2, <1>3, <1>4, <1>5 DEF IdempotencyInv

LEMMA ArriveKeyedKeepsInv ==
  ASSUME IdempotencyInv, NEW r \in Requests, ArriveKeyed(r)
  PROVE  IdempotencyInv'
<1>1. CASE EndWithout(r, "refused")
  BY <1>1, EndKeepsInv DEF ArriveKeyed
<1>2. ASSUME NEW c \in Calls, call' = [call EXCEPT ![r] = c],
             phase' = [phase EXCEPT ![r] = "lookup"], UNCHANGED <<logs, mine, created, reply>>
      PROVE  IdempotencyInv'
  <2>1. r \notin created /\ mine[r] = Null /\ c # Null
    BY NullAssumption DEF ArriveKeyed, IdempotencyInv, ProgressInv, Holding
  <2>2. IdempotencyTypeOK'
    BY <1>2 DEF IdempotencyInv, IdempotencyTypeOK, InProgress
  <2>3. ProgressInv'
    BY <1>2, <2>1 DEF IdempotencyInv, IdempotencyTypeOK, ProgressInv, InProgress, Holding
  <2>4. MineInv'
    BY <1>2, <2>1 DEF IdempotencyInv, IdempotencyTypeOK, MineInv, SameScope
  <2>5. UniqueKeys'
    BY <1>2 DEF IdempotencyInv, UniqueKeys
  <2>6. LogsStandForRecords'
    BY <1>2, <2>1 DEF IdempotencyInv, IdempotencyTypeOK, LogsStandForRecords, SameScope
  <2>7. ReplyInv'
    BY <1>2, <2>1 DEF IdempotencyInv, IdempotencyTypeOK, ReplyInv, ArriveKeyed
  <2>8. QED
    BY <2>2, <2>3, <2>4, <2>5, <2>6, <2>7 DEF IdempotencyInv
<1>3. QED
  BY <1>1, <1>2 DEF ArriveKeyed

LEMMA LookupKeepsInv ==
  ASSUME IdempotencyInv, NEW r \in Requests, Lookup(r)
  PROVE  IdempotencyInv'
<1>1. CASE EndWithout(r, "refused")
  BY <1>1, EndKeepsInv DEF Lookup
<1>2. ASSUME NEW row \in Known(r), row.operation = call[r].operation,
             phase' = [phase EXCEPT ![r] = "reply"], reply' = [reply EXCEPT ![r] = row.body],
             UNCHANGED <<call, logs, mine, created>>
      PROVE  IdempotencyInv'
  <2>1. /\ row \in logs /\ SameScope(row, call[r])
        /\ row.body \in created
        /\ SameScope(row, call[row.body]) /\ row.operation = call[row.body].operation
    BY <1>2 DEF Known, IdempotencyInv, LogsStandForRecords
  <2>2. call[r] \in Calls /\ call[row.body] \in Calls
    BY <2>1 DEF Lookup, IdempotencyInv, IdempotencyTypeOK, ProgressInv, InProgress
  <2>3. call[row.body] = call[r]
    <3>1. \A c, d \in Calls :
            SameScope(c, d) /\ c.operation = d.operation => c = d
      BY DEF Calls, SameScope
    <3>2. SameScope(call[row.body], call[r]) /\ call[row.body].operation = call[r].operation
      BY <1>2, <2>1 DEF SameScope
    <3>3. QED
      BY <2>2, <3>1, <3>2
  <2>4. IdempotencyTypeOK'
    BY <1>2, <2>1 DEF IdempotencyInv, IdempotencyTypeOK, InProgress
  <2>5. ProgressInv'
    BY <1>2 DEF Lookup, IdempotencyInv, IdempotencyTypeOK, ProgressInv, InProgress, Holding
  <2>6. MineInv' /\ UniqueKeys' /\ LogsStandForRecords'
    BY <1>2 DEF IdempotencyInv, MineInv, UniqueKeys, LogsStandForRecords, SameScope
  <2>7. ReplyInv'
    BY <1>2, <2>1, <2>3 DEF IdempotencyInv, IdempotencyTypeOK, ReplyInv
  <2>8. QED
    BY <2>4, <2>5, <2>6, <2>7 DEF IdempotencyInv
<1>3. ASSUME phase[r] = "lookup", phase' = [phase EXCEPT ![r] = "insert"],
             UNCHANGED <<call, logs, mine, created, reply>>
      PROVE  IdempotencyInv'
  <2>1. IdempotencyTypeOK' /\ ProgressInv'
    BY <1>3 DEF IdempotencyInv, IdempotencyTypeOK, ProgressInv, InProgress, Holding
  <2>2. MineInv' /\ UniqueKeys' /\ LogsStandForRecords'
    BY <1>3 DEF IdempotencyInv, MineInv, UniqueKeys, LogsStandForRecords, SameScope
  <2>3. ReplyInv'
    BY <1>3 DEF IdempotencyInv, IdempotencyTypeOK, ReplyInv
  <2>4. QED
    BY <2>1, <2>2, <2>3 DEF IdempotencyInv
<1>4. QED
  BY <1>1, <1>2, <1>3 DEF Lookup

LEMMA InsertLogKeepsInv ==
  ASSUME IdempotencyInv, NEW r \in Requests, InsertLog(r)
  PROVE  IdempotencyInv'
<1>1. CASE EndWithout(r, "conflict")
  BY <1>1, EndKeepsInv DEF InsertLog
<1>2. ASSUME ~KeyTaken(r), mine' = [mine EXCEPT ![r] = NewLog(r)],
             phase' = [phase EXCEPT ![r] = "handle"], UNCHANGED <<call, logs, created, reply>>
      PROVE  IdempotencyInv'
  <2>1. call[r] \in Calls
    BY DEF InsertLog, IdempotencyInv, IdempotencyTypeOK, ProgressInv, InProgress
  <2>2. /\ NewLog(r) \in Logs /\ NewLog(r) # Null
        /\ SameScope(NewLog(r), call[r]) /\ NewLog(r).operation = call[r].operation
        /\ NewLog(r).key = call[r].key
    BY <2>1, NullAssumption DEF NewLog, Logs, Calls, SameScope
  <2>3. IdempotencyTypeOK'
    BY <1>2, <2>2 DEF IdempotencyInv, IdempotencyTypeOK, InProgress
  <2>4. ProgressInv'
    BY <1>2, <2>2 DEF InsertLog, IdempotencyInv, IdempotencyTypeOK, ProgressInv, InProgress, Holding
  <2>5. MineInv'
    <3>1. \A row \in logs : row.key # NewLog(r).key
      BY <1>2, <2>2 DEF KeyTaken
    <3>2. \A o \in Requests \ {r} : mine[o] # Null => mine[o].key # NewLog(r).key
      BY <2>2 DEF InsertLog, KeyInUse
    <3>3. mine'[r] = NewLog(r) /\ \A o \in Requests \ {r} : mine'[o] = mine[o]
      BY <1>2 DEF IdempotencyInv, IdempotencyTypeOK
    <3>4. SUFFICES ASSUME NEW o \in Requests, mine'[o] # Null
                   PROVE  /\ SameScope(mine'[o], call[o]) /\ mine'[o].operation = call[o].operation
                          /\ \A row \in logs : row.key # mine'[o].key
                          /\ \A p \in Requests \ {o} : mine'[p] # Null => mine'[p].key # mine'[o].key
      BY <1>2 DEF MineInv, SameScope
    <3>5. CASE o = r
      BY <2>2, <3>1, <3>2, <3>3, <3>5
    <3>6. CASE o # r
      BY <3>2, <3>3, <3>4, <3>6 DEF IdempotencyInv, MineInv
    <3>7. QED
      BY <3>5, <3>6
  <2>6. UniqueKeys' /\ LogsStandForRecords'
    BY <1>2 DEF IdempotencyInv, UniqueKeys, LogsStandForRecords, SameScope
  <2>7. ReplyInv'
    BY <1>2 DEF IdempotencyInv, IdempotencyTypeOK, ReplyInv
  <2>8. QED
    BY <2>3, <2>4, <2>5, <2>6, <2>7 DEF IdempotencyInv
<1>3. QED
  BY <1>1, <1>2 DEF InsertLog

LEMMA HandleKeepsIdempotencyInv ==
  ASSUME IdempotencyInv, NEW r \in Requests, Handle(r)
  PROVE  IdempotencyInv'
<1>1. CASE EndWithout(r, "refused")
  BY <1>1, EndKeepsInv DEF Handle
<1>2. ASSUME phase' = [phase EXCEPT ![r] = "update"], UNCHANGED <<call, logs, mine, created, reply>>
      PROVE  IdempotencyInv'
  <2>1. IdempotencyTypeOK' /\ ProgressInv'
    BY <1>2 DEF Handle, IdempotencyInv, IdempotencyTypeOK, ProgressInv, InProgress, Holding
  <2>2. MineInv' /\ UniqueKeys' /\ LogsStandForRecords'
    BY <1>2 DEF IdempotencyInv, MineInv, UniqueKeys, LogsStandForRecords, SameScope
  <2>3. ReplyInv'
    BY <1>2 DEF IdempotencyInv, IdempotencyTypeOK, ReplyInv
  <2>4. QED
    BY <2>1, <2>2, <2>3 DEF IdempotencyInv
<1>3. QED
  BY <1>1, <1>2 DEF Handle

LEMMA UpdateLogKeepsInv ==
  ASSUME IdempotencyInv, NEW r \in Requests, UpdateLog(r)
  PROVE  IdempotencyInv'
<1>1. mine[r] \in Logs /\ mine[r] # Null
  BY DEF UpdateLog, IdempotencyInv, IdempotencyTypeOK, ProgressInv, Holding
<1>2. PICK row \in Logs : /\ mine' = [mine EXCEPT ![r] = row] /\ row.body = r
                          /\ SameScope(row, mine[r]) /\ row.operation = mine[r].operation
  <2>1. [mine[r] EXCEPT !.body = r] \in Logs
    BY <1>1 DEF Logs
  <2>2. QED
    BY <1>1, <2>1 DEF UpdateLog, Logs, SameScope
<1>3. row # Null
  BY NullAssumption
<1>4. IdempotencyTypeOK' /\ ProgressInv'
  BY <1>1, <1>2, <1>3 DEF UpdateLog, IdempotencyInv, IdempotencyTypeOK, ProgressInv, InProgress, Holding
<1>5. MineInv'
  BY <1>1, <1>2, <1>3 DEF UpdateLog, IdempotencyInv, IdempotencyTypeOK, MineInv, SameScope
<1>6. UniqueKeys' /\ LogsStandForRecords' /\ ReplyInv'
  BY DEF UpdateLog, IdempotencyInv, IdempotencyTypeOK, UniqueKeys, LogsStandForRecords, ReplyInv, SameScope
<1>7. QED
  BY <1>4, <1>5, <1>6 DEF IdempotencyInv

LEMMA CommitKeepsInv ==
  ASSUME IdempotencyInv, NEW r \in Requests, Commit(r)
  PROVE  IdempotencyInv'
<1>1. /\ mine[r] \in Logs /\ mine[r] # Null /\ mine[r].body = r
      /\ SameScope(mine[r], call[r]) /\ mine[r].operation = call[r].operation
      /\ \A row \in logs : row.key # mine[r].key
      /\ \A o \in Requests \ {r} : mine[o] # Null => mine[o].key # mine[r].key
  BY DEF Commit, IdempotencyInv, IdempotencyTypeOK, ProgressInv, MineInv, Holding
<1>2. IdempotencyTypeOK'
  BY <1>1 DEF Commit, IdempotencyInv, IdempotencyTypeOK, InProgress
<1>3. ProgressInv'
  BY <1>1 DEF Commit, IdempotencyInv, IdempotencyTypeOK, ProgressInv, InProgress, Holding
<1>4. MineInv'
  BY <1>1 DEF Commit, IdempotencyInv, IdempotencyTypeOK, MineInv, SameScope
<1>5. UniqueKeys'
  BY <1>1 DEF Commit, IdempotencyInv, UniqueKeys
<1>6. LogsStandForRecords'
  BY <1>1 DEF Commit, IdempotencyInv, LogsStandForRecords, SameScope
<1>7. ReplyInv'
  BY DEF Commit, IdempotencyInv, IdempotencyTypeOK, ReplyInv
<1>8. QED
  BY <1>2, <1>3, <1>4, <1>5, <1>6, <1>7 DEF IdempotencyInv

LEMMA ReplyKeepsInv ==
  ASSUME IdempotencyInv, NEW r \in Requests, Reply(r)
  PROVE  IdempotencyInv'
<1>1. IdempotencyTypeOK' /\ ProgressInv'
  BY DEF Reply, IdempotencyInv, IdempotencyTypeOK, ProgressInv, InProgress, Ended, Holding
<1>2. MineInv' /\ UniqueKeys' /\ LogsStandForRecords' /\ ReplyInv'
  BY DEF Reply, IdempotencyInv, IdempotencyTypeOK, MineInv, UniqueKeys, LogsStandForRecords, ReplyInv, SameScope
<1>3. QED
  BY <1>1, <1>2 DEF IdempotencyInv

LEMMA CrashKeepsInv ==
  ASSUME IdempotencyInv, ServerCrash
  PROVE  IdempotencyInv'
<1>1. IdempotencyTypeOK'
  BY DEF ServerCrash, IdempotencyInv, IdempotencyTypeOK, Ended
<1>2. ProgressInv' /\ ReplyInv'
  BY DEF ServerCrash, IdempotencyInv, IdempotencyTypeOK, ProgressInv, ReplyInv, InProgress, Holding
<1>3. MineInv' /\ UniqueKeys' /\ LogsStandForRecords'
  BY DEF ServerCrash, IdempotencyInv, IdempotencyTypeOK, MineInv, UniqueKeys, LogsStandForRecords, SameScope
<1>4. QED
  BY <1>1, <1>2, <1>3 DEF IdempotencyInv

LEMMA StepKeepsInv == IdempotencyInv /\ [IdempotencyNext]_idempotencyVars => IdempotencyInv'
<1> SUFFICES ASSUME IdempotencyInv, [IdempotencyNext]_idempotencyVars
             PROVE  IdempotencyInv'
  OBVIOUS
<1>1. ASSUME NEW r \in Requests, ArriveKeyed(r) \/ CallStep(r)
      PROVE  IdempotencyInv'
  BY <1>1, ArriveKeyedKeepsInv, LookupKeepsInv, InsertLogKeepsInv, HandleKeepsIdempotencyInv,
     UpdateLogKeepsInv, CommitKeepsInv, ReplyKeepsInv DEF CallStep
<1>2. ASSUME UNCHANGED idempotencyVars
      PROVE  IdempotencyInv'
  BY <1>2 DEF idempotencyVars, IdempotencyInv, IdempotencyTypeOK, ProgressInv, MineInv, UniqueKeys, LogsStandForRecords,
              ReplyInv, SameScope
<1>3. QED
  BY <1>1, <1>2, CrashKeepsInv DEF IdempotencyNext, AllEnded

\* The strengthening above holds in every reachable state of the interceptor, the
\* service and the transaction around them; every theorem below rests on it.
THEOREM IdempotencyInvariance == IdempotencySpec => []IdempotencyInv
BY IdempotencyInitially, StepKeepsInv, PTL DEF IdempotencySpec

\* The variables of Idempotency have their types in every reachable state.
THEOREM IdempotencyTypes == IdempotencySpec => []IdempotencyTypeOK
<1>1. IdempotencyInv => IdempotencyTypeOK
  BY DEF IdempotencyInv
<1>2. QED
  BY <1>1, IdempotencyInvariance, PTL

\* A committed log row stands for a committed record of the same call, and every
\* record has its row: a failed or crashed attempt leaves no row behind.
THEOREM LogsAndRecordsAgree == IdempotencySpec => []LogsStandForRecords
<1>1. IdempotencyInv => LogsStandForRecords
  BY DEF IdempotencyInv
<1>2. QED
  BY <1>1, IdempotencyInvariance, PTL

LEMMA OneRecordLemma == IdempotencyInv => OneRecordPerKey
<1> SUFFICES ASSUME IdempotencyInv, NEW r \in created, NEW o \in created, SameScope(call[r], call[o])
             PROVE  r = o
  BY DEF OneRecordPerKey
<1>1. PICK x \in logs : x.body = r
  BY DEF IdempotencyInv, LogsStandForRecords
<1>2. PICK y \in logs : y.body = o
  BY DEF IdempotencyInv, LogsStandForRecords
<1>3. x.key = y.key
  BY <1>1, <1>2 DEF IdempotencyInv, LogsStandForRecords, SameScope
<1>4. QED
  BY <1>1, <1>2, <1>3 DEF IdempotencyInv, UniqueKeys

\* No two requests under one key of one tenant both have their record committed.
THEOREM NoDuplicateRecords == IdempotencySpec => []OneRecordPerKey
BY OneRecordLemma, IdempotencyInvariance, PTL

\* A request is answered only with the record of the same call.
THEOREM AnswersAreOfTheCall == IdempotencySpec => []AnswersFitTheCall
<1>1. IdempotencyInv => AnswersFitTheCall
  BY DEF IdempotencyInv, ReplyInv, AnswersFitTheCall
<1>2. QED
  BY <1>1, IdempotencyInvariance, PTL

-------------------------------------------------------------------------------
(* Idempotency implements AtMostOnce: a request asks when it arrives, is     *)
(* executed when it commits, and is answered when its response is delivered. *)

LEMMA ScopesAndNull ==
  /\ Null \notin Scopes
  /\ \A c \in Calls : Scope(c) \in Scopes
  /\ \A c, d \in Calls : Scope(c) = Scope(d) <=> SameScope(c, d)
BY NullAssumption DEF Scopes, Scope, Calls, SameScope

LEMMA InitRefines == IdempotencyInit => Promise!Init
<1>1. ASSUME IdempotencyInit, NEW s
      PROVE  OneOf(Executed(s)) = Null
  BY <1>1 DEF IdempotencyInit, Executed, OneOf
<1>2. QED
  BY <1>1 DEF IdempotencyInit, Promise!Init, asked, booked, answer

\* What the abstract state is made of.
LEMMA SameView ==
  ASSUME UNCHANGED <<call, created>>, answer' = answer
  PROVE  UNCHANGED Promise!vars
BY DEF Promise!vars, asked, booked, answer, Executed

LEMMA ArriveRefines ==
  ASSUME IdempotencyInv, NEW r \in Requests, ArriveKeyed(r)
  PROVE  [Promise!Next]_Promise!vars
<1>1. CASE EndWithout(r, "refused")
  <2>1. answer' = answer
    BY <1>1 DEF ArriveKeyed, EndWithout, IdempotencyInv, IdempotencyTypeOK, answer
  <2>2. QED
    BY <1>1, <2>1, SameView DEF EndWithout
<1>2. ASSUME NEW c \in Calls, call' = [call EXCEPT ![r] = c],
             phase' = [phase EXCEPT ![r] = "lookup"], UNCHANGED <<logs, mine, created, reply>>
      PROVE  Promise!Ask(r, Scope(c))
  <2>1. call[r] = Null /\ r \notin created /\ c # Null
    BY NullAssumption DEF ArriveKeyed, IdempotencyInv, ProgressInv
  <2>2. asked[r] = Null /\ asked' = [asked EXCEPT ![r] = Scope(c)]
    BY <1>2, <2>1 DEF asked, IdempotencyInv, IdempotencyTypeOK
  <2>3. booked' = booked
    <3>1. \A s : Executed(s)' = Executed(s)
      BY <1>2, <2>1 DEF Executed, IdempotencyInv, IdempotencyTypeOK
    <3>2. QED
      BY <3>1 DEF booked
  <2>4. answer' = answer
    BY <1>2 DEF ArriveKeyed, IdempotencyInv, IdempotencyTypeOK, answer
  <2>5. QED
    BY <2>2, <2>3, <2>4 DEF Promise!Ask
<1>3. QED
  BY <1>1, <1>2, ScopesAndNull DEF ArriveKeyed, Promise!Next

LEMMA CommitRefines ==
  ASSUME IdempotencyInv, NEW r \in Requests, Commit(r)
  PROVE  [Promise!Next]_Promise!vars
<1>1. call[r] \in Calls /\ call[r] # Null /\ r \notin created
  BY DEF Commit, IdempotencyInv, IdempotencyTypeOK, ProgressInv, InProgress
<1>2. PICK s \in Scopes : s = Scope(call[r])
  BY <1>1, ScopesAndNull
<1>3. asked[r] = s
  BY <1>1, <1>2 DEF asked
<1>4. Executed(s) = {}
  <2>1. ASSUME NEW o \in created, Scope(call[o]) = s
        PROVE  FALSE
    <3>1. PICK row \in logs : row.body = o
      BY DEF IdempotencyInv, LogsStandForRecords
    <3>2. SameScope(row, call[o])
      BY <3>1 DEF IdempotencyInv, LogsStandForRecords
    <3>3. call[o] \in Calls
      BY DEF IdempotencyInv, IdempotencyTypeOK, ProgressInv
    <3>4. row.key = call[r].key
      BY <1>1, <1>2, <2>1, <3>2, <3>3, ScopesAndNull DEF SameScope
    <3>5. row.key # mine[r].key /\ mine[r].key = call[r].key
      BY DEF Commit, IdempotencyInv, IdempotencyTypeOK, ProgressInv, MineInv, Holding, SameScope
    <3>6. QED
      BY <3>4, <3>5
  <2>2. QED
    BY <2>1 DEF Executed
<1>5. booked' = [booked EXCEPT ![s] = r] /\ booked[s] = Null
  <2>1. Executed(s)' = {r}
    BY <1>2, <1>4 DEF Commit, Executed
  <2>2. \A o \in Scopes \ {s} : Executed(o)' = Executed(o)
    BY <1>2 DEF Commit, Executed
  <2>3. OneOf({}) = Null /\ OneOf({r}) = r
    BY DEF OneOf
  <2>4. booked' = [o \in Scopes |-> IF o = s THEN r ELSE OneOf(Executed(o))]
    BY <2>1, <2>2, <2>3 DEF booked
  <2>5. QED
    BY <1>2, <1>4, <2>3, <2>4 DEF booked
<1>6. asked' = asked /\ answer' = answer
  BY DEF Commit, IdempotencyInv, IdempotencyTypeOK, asked, answer
<1>7. Promise!Execute(r, s)
  BY <1>3, <1>5, <1>6 DEF Promise!Execute
<1>8. QED
  BY <1>2, <1>7 DEF Promise!Next

LEMMA ReplyRefines ==
  ASSUME IdempotencyInv, NEW r \in Requests, Reply(r)
  PROVE  [Promise!Next]_Promise!vars
<1> DEFINE s == Scope(call[r])
<1>1. call[r] \in Calls /\ call[r] # Null
  BY DEF Reply, IdempotencyInv, IdempotencyTypeOK, ProgressInv, InProgress
<1>2. s \in Scopes /\ asked[r] = s
  BY <1>1, ScopesAndNull DEF asked
<1>3. Executed(s) = {reply[r]}
  <2>1. reply[r] \in Executed(s)
    BY DEF Reply, IdempotencyInv, ReplyInv, Executed
  <2>2. \A o \in Executed(s) : o = reply[r]
    BY <2>1, OneRecordLemma, ScopesAndNull
    DEF Executed, OneRecordPerKey, IdempotencyInv, IdempotencyTypeOK, ProgressInv
  <2>3. QED
    BY <2>1, <2>2
<1>4. reply[r] # Null
  BY NullAssumption DEF Reply, IdempotencyInv, IdempotencyTypeOK, ReplyInv
<1>5. booked[s] = reply[r] /\ booked[s] # Null
  BY <1>2, <1>3, <1>4 DEF booked, OneOf
<1>6. answer[r] = Null /\ answer' = [answer EXCEPT ![r] = booked[s]]
  BY <1>5 DEF Reply, IdempotencyInv, IdempotencyTypeOK, answer
<1>7. UNCHANGED <<asked, booked>>
  BY DEF Reply, asked, booked, Executed
<1>8. Promise!Answer(r, s)
  BY <1>2, <1>5, <1>6, <1>7 DEF Promise!Answer
<1>9. QED
  BY <1>2, <1>8 DEF Promise!Next

\* The steps of which the promise says nothing.
LEMMA SilentStepsRefine ==
  ASSUME IdempotencyInv,
         \/ \E r \in Requests : Lookup(r) \/ InsertLog(r) \/ Handle(r) \/ UpdateLog(r)
         \/ ServerCrash
         \/ UNCHANGED idempotencyVars
  PROVE  UNCHANGED Promise!vars
<1>1. answer' = answer
  <2>1. ASSUME NEW r \in Requests,
               Lookup(r) \/ InsertLog(r) \/ Handle(r) \/ UpdateLog(r)
        PROVE  answer' = answer
    BY <2>1 DEF Lookup, InsertLog, Handle, UpdateLog, EndWithout, IdempotencyInv, IdempotencyTypeOK, answer
  <2>2. CASE ServerCrash
    BY <2>2 DEF ServerCrash, InProgress, IdempotencyInv, IdempotencyTypeOK, answer
  <2>3. CASE UNCHANGED idempotencyVars
    BY <2>3 DEF idempotencyVars, answer
  <2>4. QED
    BY <2>1, <2>2, <2>3
<1>2. UNCHANGED <<call, created>>
  BY DEF Lookup, InsertLog, Handle, UpdateLog, EndWithout, ServerCrash, idempotencyVars
<1>3. QED
  BY <1>1, <1>2, SameView

LEMMA StepRefines == IdempotencyInv /\ [IdempotencyNext]_idempotencyVars => [Promise!Next]_Promise!vars
<1> SUFFICES ASSUME IdempotencyInv, [IdempotencyNext]_idempotencyVars
             PROVE  [Promise!Next]_Promise!vars
  OBVIOUS
<1>1. ASSUME NEW r \in Requests, ArriveKeyed(r) \/ Commit(r) \/ Reply(r)
      PROVE  [Promise!Next]_Promise!vars
  BY <1>1, ArriveRefines, CommitRefines, ReplyRefines
<1>2. ASSUME NEW r \in Requests, Lookup(r) \/ InsertLog(r) \/ Handle(r) \/ UpdateLog(r)
      PROVE  [Promise!Next]_Promise!vars
  BY <1>2, SilentStepsRefine
<1>3. CASE ServerCrash \/ UNCHANGED idempotencyVars
  BY <1>3, SilentStepsRefine
<1>4. QED
  BY <1>1, <1>2, <1>3 DEF IdempotencyNext, CallStep, AllEnded

\* Every behaviour of the idempotency layer is one of the promise: a call sent
\* any number of times under a key of a tenant is executed at most once, and
\* every answer is the record of that execution.
THEOREM AtMostOnceIsImplemented == IdempotencySpec => ImplementsAtMostOnce
BY IdempotencyInvariance, InitRefines, StepRefines, PTL DEF IdempotencySpec, ImplementsAtMostOnce, Promise!Spec

--------------------------------------------------------------------------------
(* Sessions                                                                   *)

USE DEF AtWork, Over

(* What OneTokenPerSession rests on.                                           *)

\* The token of a login is stored under the session's own name, and first.
SessionsStartWithLogin ==
  /\ \A t \in Stored : tokens[t].session \in Stored /\ place[t] \in {"ok", "lost"}
  /\ ended \subseteq Stored

\* A request that is not at work holds nothing.
IdleHoldsNothing ==
  \A r \in Requests : place[r] \notin AtWork => at[r] = Nothing /\ made[r] = Null /\ marked[r] = {}

\* It issues the token of a new session, or of the session of the one it was given.
Issues(r) ==
  \/ at[r].tokens = {} /\ at[r].session = r
  \/ \E t \in Stored : at[r].tokens = {t} /\ at[r].session = tokens[t].session

InOrder(r) ==
  /\ place[r] = "exchange" => Issues(r) /\ at[r].tokens # {}
  /\ place[r] = "insert" => Issues(r)
  /\ place[r] \in {"exchange", "insert"} => at[r].user \in Users /\ at[r].session \in Requests
  /\ place[r] \in {"exchange", "expire", "logout"} => made[r] = Null /\ marked[r] = {}
  /\ place[r] = "insert" => made[r] = Null
  /\ place[r] \in {"insert", "commit"} => marked[r] = at[r].tokens
  /\ made[r] # Null =>
       /\ Issues(r) /\ place[r] = "commit"
       /\ made[r].session = at[r].session /\ ~made[r].revoked
WorkInOrder == \A r \in Requests : InOrder(r)

\* Two requests at work on one session are on record.
SharedIsRaced ==
  \A r, o \in Requests :
    r # o => Sessions(at[r].tokens) \cap Sessions(at[o].tokens) \subseteq raced

\* The token that a request exchanges stays live, unless the session was raced on.
ExchangedIsLive ==
  \A r \in Requests : place[r] \in {"exchange", "insert"} \/ made[r] # Null =>
    \A t \in at[r].tokens : tokens[t].session \in raced \/ t \in Live

OneLive ==
  \A s \in Sessions(Stored) \ raced :
    IF s \in ended THEN LiveOf(s) = {} ELSE \E t \in Stored : LiveOf(s) = {t}

SessionsInv ==
  /\ SessionsTypeOK /\ SessionsStartWithLogin /\ IdleHoldsNothing /\ WorkInOrder
  /\ SharedIsRaced /\ ExchangedIsLive /\ OneLive

LEMMA NothingIsTarget ==
  Nothing \in Targets /\ Nothing.tokens = {}
BY DEF Nothing, Targets

--------------------------------------------------------------------------------
(* Steps that store nothing.                                                   *)

\* Users and clocks.
LEMMA BesidesKeep ==
  ASSUME SessionsInv, UNCHANGED <<tokens, place, at, made, marked, ended, raced>>,
         active' \in [Users -> BOOLEAN], order' = order, expired' \in 0..Len(order)
  PROVE  SessionsInv'
<1>1. SessionsTypeOK'
  BY DEF SessionsInv, SessionsTypeOK, Stored
<1>2. SessionsStartWithLogin' /\ IdleHoldsNothing' /\ WorkInOrder'
  BY DEF SessionsInv, SessionsStartWithLogin, IdleHoldsNothing, WorkInOrder, InOrder, Issues, Stored
<1>3. SharedIsRaced' /\ ExchangedIsLive' /\ OneLive'
  BY DEF SessionsInv, SharedIsRaced, ExchangedIsLive, OneLive, LiveOf, Live, Stored, Sessions
<1>4. QED
  BY <1>1, <1>2, <1>3 DEF SessionsInv

LEMMA FinishKeeps ==
  ASSUME SessionsInv, NEW r \in Requests, NEW how \in Over, place[r] \notin Over, EndTransaction(r, how),
         UNCHANGED <<active, tokens, order, expired, ended, raced>>
  PROVE  SessionsInv'
<1> USE NothingIsTarget
<1>1. SessionsTypeOK'
  BY DEF SessionsInv, SessionsTypeOK, EndTransaction, Stored
<1>2. SessionsStartWithLogin'
  BY DEF SessionsInv, SessionsTypeOK, EndTransaction, SessionsStartWithLogin, Stored
<1>3. IdleHoldsNothing'
  BY DEF SessionsInv, SessionsTypeOK, EndTransaction, IdleHoldsNothing
<1>4. WorkInOrder'
  BY DEF SessionsInv, SessionsTypeOK, EndTransaction, WorkInOrder, InOrder, Issues, Stored
<1>5. SharedIsRaced'
  BY DEF SessionsInv, SessionsTypeOK, EndTransaction, SharedIsRaced, Sessions
<1>6. ExchangedIsLive'
  BY DEF SessionsInv, SessionsTypeOK, EndTransaction, ExchangedIsLive, Live, Stored
<1>7. OneLive'
  BY DEF SessionsInv, OneLive, LiveOf, Live, Stored, Sessions
<1>8. QED
  BY <1>1, <1>2, <1>3, <1>4, <1>5, <1>6, <1>7 DEF SessionsInv

LEMMA RefuseKeeps ==
  ASSUME SessionsInv, NEW r \in Requests, place[r] \notin Over, Refuse(r)
  PROVE  SessionsInv'
BY FinishKeeps DEF Refuse

\* A request comes in, and is put on record where another one is at work.
LEMMA TakeKeeps ==
  ASSUME SessionsInv, NEW r \in Requests, place[r] = "idle",
         NEW u \in Users \cup {Null}, NEW session \in Requests \cup {Null},
         NEW some \in SUBSET Stored, NEW to \in {"exchange", "expire", "logout", "insert"},
         Take(r, u, session, some, to),
         to = "insert" => some = {} /\ session = r /\ u \in Users,
         to = "exchange" => /\ \E t \in Live : some = {t} /\ session = tokens[t].session
                            /\ u \in Users
  PROVE  SessionsInv'
<1> DEFINE own == [user |-> u, session |-> session, tokens |-> some]
<1>1. own \in Targets
  BY DEF Targets, Stored
<1>2. at' = [at EXCEPT ![r] = own] /\ at \in [Requests -> Targets] /\ made[r] = Null /\ marked[r] = {}
  BY DEF Take, SessionsInv, SessionsTypeOK, IdleHoldsNothing
<1>3. at'[r] = own /\ \A o \in Requests \ {r} : at'[o] = at[o]
  BY <1>2
<1>4. \A t \in Stored : tokens[t].session \in Requests
  BY DEF SessionsInv, SessionsTypeOK, Stored, Rows
<1>5. SessionsTypeOK'
  <2>1. raced' \subseteq Requests
    BY <1>4 DEF Take, SessionsInv, SessionsTypeOK, Sessions
  <2>2. QED
    BY <1>1, <1>2, <1>3, <2>1 DEF Take, SessionsInv, SessionsTypeOK, Stored
<1>6. SessionsStartWithLogin'
  BY DEF SessionsInv, SessionsTypeOK, Take, SessionsStartWithLogin, Stored
<1>7. IdleHoldsNothing'
  BY <1>3 DEF SessionsInv, SessionsTypeOK, Take, IdleHoldsNothing
<1>8. WorkInOrder'
  <2>1. \A o \in Requests \ {r} : place'[o] = place[o] /\ at'[o] = at[o]
    BY <1>3 DEF Take, SessionsInv, SessionsTypeOK
  <2>2. UNCHANGED <<made, marked, tokens>> /\ place'[r] = to /\ Live \subseteq Stored
    BY DEF Take, SessionsInv, SessionsTypeOK, Live
  <2>3. to = "exchange" => Issues(r)' /\ some # {} /\ session \in Requests
    <3>1. SUFFICES ASSUME to = "exchange"
                   PROVE  Issues(r)' /\ some # {} /\ session \in Requests
      OBVIOUS
    <3>2. PICK t \in Live : some = {t} /\ session = tokens[t].session
      BY <3>1
    <3>3. t \in Stored /\ session \in Requests
      BY <1>4, <2>2, <3>2
    <3>4. t \in Stored' /\ at'[r].tokens = {t} /\ at'[r].session = tokens'[t].session
      BY <1>3, <2>2, <3>2, <3>3 DEF Stored
    <3>5. QED
      BY <3>2, <3>3, <3>4 DEF Issues
  <2>4. to = "insert" => Issues(r)'
    BY <1>3 DEF Issues
  <2>5. \A o \in Requests \ {r} : Issues(o) => Issues(o)'
    BY <2>1, <2>2 DEF Issues, Stored
  <2>6. \A o \in Requests \ {r} : InOrder(o)'
    BY <2>1, <2>2, <2>5 DEF SessionsInv, WorkInOrder, InOrder
  <2>7. InOrder(r)'
    BY <1>2, <1>3, <2>2, <2>3, <2>4 DEF InOrder
  <2>8. QED
    BY <2>6, <2>7 DEF WorkInOrder
<1>9. SharedIsRaced'
  BY <1>3 DEF SessionsInv, Take, SharedIsRaced, Sessions
<1>10. ExchangedIsLive'
  <2>1. UNCHANGED <<tokens, made>> /\ raced \subseteq raced' /\ place' = [place EXCEPT ![r] = to]
    BY DEF Take
  <2>2. QED
    BY <1>2, <1>3, <2>1 DEF SessionsInv, SessionsTypeOK, ExchangedIsLive, Live, Stored
<1>11. OneLive'
  BY DEF Take, SessionsInv, OneLive, LiveOf, Live, Stored, Sessions
<1>12. QED
  BY <1>5, <1>6, <1>7, <1>8, <1>9, <1>10, <1>11 DEF SessionsInv

LEMMA ReceiveKeeps ==
  ASSUME SessionsInv, NEW r \in Requests, Receive(r)
  PROVE  SessionsInv'
<1>1. place[r] = "idle" /\ "idle" \notin Over
  BY DEF Receive, Login, Refresh, Logout, LogoutAll
<1>2. \A t \in Stored : /\ tokens[t].user \in Users /\ tokens[t].session \in Requests
                        /\ tokens[t].user \in Users \cup {Null}
                        /\ tokens[t].session \in Requests \cup {Null}
  BY DEF SessionsInv, SessionsTypeOK, Stored, Rows
<1>3. CASE Login(r)
  BY <1>1, <1>3, RefuseKeeps, TakeKeeps DEF Login
<1>4. CASE Refresh(r)
  <2>1. PICK t \in Given :
          \/ Refuse(r)
          \/ /\ t \in Live
             /\ Take(r, tokens[t].user, tokens[t].session, {t},
                     IF Expired(t) THEN "expire" ELSE "exchange")
    BY <1>4 DEF Refresh, Exchangeable
  <2>2. t \in Stored /\ {t} \in SUBSET Stored
    BY DEF Given
  <2>3. CASE Refuse(r)
    BY <1>1, <2>3, RefuseKeeps
  <2>4. CASE t \in Live /\ Take(r, tokens[t].user, tokens[t].session, {t},
                                IF Expired(t) THEN "expire" ELSE "exchange")
    <3>1. CASE Expired(t)
      <4>1. Take(r, tokens[t].user, tokens[t].session, {t}, "expire")
        BY <2>4, <3>1
      <4>2. QED
        BY <1>1, <1>2, <2>2, <4>1, TakeKeeps
    <3>2. CASE ~Expired(t)
      <4>1. Take(r, tokens[t].user, tokens[t].session, {t}, "exchange")
        BY <2>4, <3>2
      <4>2. \E l \in Live : {t} = {l} /\ tokens[t].session = tokens[l].session
        BY <2>4
      <4>3. QED
        BY <1>1, <1>2, <2>2, <4>1, <4>2, TakeKeeps
    <3>3. QED
      BY <3>1, <3>2
  <2>5. QED
    BY <2>1, <2>3, <2>4
<1>5. CASE Logout(r)
  <2>1. PICK some \in SUBSET Stored : Take(r, Null, Null, some, "logout")
    BY <1>5 DEF Logout, Given
  <2>2. QED
    BY <1>1, <2>1, TakeKeeps
<1>6. CASE LogoutAll(r)
  <2>1. PICK some \in SUBSET Stored : Take(r, Null, Null, some, "logout")
    BY <1>6 DEF LogoutAll, Everywhere, Live
  <2>2. QED
    BY <1>1, <2>1, TakeKeeps
<1>7. QED
  BY <1>3, <1>4, <1>5, <1>6 DEF Receive

\* The tokens that a request has revoked are those it took.
LEMMA MarkKeeps ==
  ASSUME SessionsInv, NEW r \in Requests, NEW to \in {"insert", "commit"}, Mark(r),
         place' = [place EXCEPT ![r] = to],
         \/ place[r] = "exchange" /\ to = "insert"
         \/ place[r] = "logout" /\ to = "commit"
  PROVE  SessionsInv'
<1>1. /\ UNCHANGED <<active, tokens, order, expired, at, made, ended, raced>>
      /\ marked' = [marked EXCEPT ![r] = at[r].tokens]
      /\ made[r] = Null /\ place[r] \in AtWork
  BY DEF Mark, SessionsInv, WorkInOrder, InOrder
<1>2. SessionsTypeOK'
  BY <1>1 DEF SessionsInv, SessionsTypeOK, Stored
<1>3. SessionsStartWithLogin' /\ IdleHoldsNothing'
  BY <1>1 DEF SessionsInv, SessionsTypeOK, SessionsStartWithLogin, IdleHoldsNothing, Stored
<1>4. WorkInOrder'
  BY <1>1 DEF SessionsInv, SessionsTypeOK, WorkInOrder, InOrder, Issues, Stored
<1>5. SharedIsRaced' /\ OneLive'
  BY <1>1 DEF SessionsInv, SharedIsRaced, OneLive, LiveOf, Live, Stored, Sessions
<1>6. ExchangedIsLive'
  BY <1>1 DEF SessionsInv, SessionsTypeOK, ExchangedIsLive, Live, Stored
<1>7. QED
  BY <1>2, <1>3, <1>4, <1>5, <1>6 DEF SessionsInv

LEMMA InsertKeeps ==
  ASSUME SessionsInv, NEW r \in Requests, Insert(r)
  PROVE  SessionsInv'
<1>1. /\ UNCHANGED <<active, tokens, expired, at, marked, ended, raced>>
      /\ made' = [made EXCEPT ![r] = TokenOf(r)] /\ place' = [place EXCEPT ![r] = "commit"]
      /\ place[r] = "insert"
  BY DEF Insert
<1>2. TokenOf(r) \in Rows /\ TokenOf(r).session = at[r].session /\ ~TokenOf(r).revoked
  BY <1>1 DEF SessionsInv, WorkInOrder, InOrder, TokenOf, Rows
<1>3. SessionsTypeOK'
  <2>1. order' \in Seq(Requests) /\ expired \in 0..Len(order')
    BY DEF Insert, SessionsInv, SessionsTypeOK
  <2>2. QED
    BY <1>1, <1>2, <2>1 DEF SessionsInv, SessionsTypeOK, Stored
<1>4. SessionsStartWithLogin' /\ IdleHoldsNothing'
  BY <1>1 DEF SessionsInv, SessionsTypeOK, SessionsStartWithLogin, IdleHoldsNothing, Stored
<1>5. WorkInOrder'
  BY <1>1, <1>2 DEF SessionsInv, SessionsTypeOK, WorkInOrder, InOrder, Issues, Stored
<1>6. SharedIsRaced' /\ OneLive'
  BY <1>1 DEF SessionsInv, SharedIsRaced, OneLive, LiveOf, Live, Stored, Sessions
<1>7. ExchangedIsLive'
  BY <1>1 DEF SessionsInv, SessionsTypeOK, ExchangedIsLive, Live, Stored
<1>8. QED
  BY <1>3, <1>4, <1>5, <1>6, <1>7 DEF SessionsInv

LEMMA CrashKeeps ==
  ASSUME SessionsInv, SessionsCrash
  PROVE  SessionsInv'
<1> USE NothingIsTarget
<1>1. SessionsTypeOK'
  BY DEF SessionsCrash, SessionsInv, SessionsTypeOK, Stored
<1>2. SessionsStartWithLogin' /\ IdleHoldsNothing'
  BY DEF SessionsCrash, SessionsInv, SessionsTypeOK, SessionsStartWithLogin, IdleHoldsNothing, Stored
<1>3. WorkInOrder'
  BY DEF SessionsCrash, SessionsInv, SessionsTypeOK, WorkInOrder, InOrder
<1>4. SharedIsRaced' /\ ExchangedIsLive' /\ OneLive'
  BY DEF SessionsCrash, SessionsInv, SharedIsRaced, ExchangedIsLive, OneLive, LiveOf, Live, Stored, Sessions
<1>5. QED
  BY <1>1, <1>2, <1>3, <1>4 DEF SessionsInv

--------------------------------------------------------------------------------
(* A commit.                                                                   *)

\* What it stores: its new token, if it made one, and the revocations.
LEMMA CommitFacts ==
  ASSUME SessionsInv, NEW r \in Requests, CommitTokens(r)
  PROVE  /\ r \notin Stored /\ marked[r] = at[r].tokens /\ at[r].tokens \subseteq Stored
         /\ \A t \in Stored : tokens'[t].session = tokens[t].session /\ tokens'[t] \in Rows
         /\ made[r] # Null => tokens'[r] = made[r] /\ made[r] \in Rows
         /\ tokens' \in [Requests -> Rows \cup {Null}]
         /\ Stored' = Stored \cup (IF made[r] = Null THEN {} ELSE {r})
         /\ Live' = (Live \ at[r].tokens) \cup (IF made[r] = Null THEN {} ELSE {r})
         /\ place[r] = "commit"
<1> USE SessionsAssumption
<1>1. /\ place[r] = "commit" /\ tokens' = Kept(r)
      /\ tokens \in [Requests -> Rows \cup {Null}] /\ made[r] \in Rows \cup {Null}
      /\ marked[r] = at[r].tokens /\ at[r].tokens \subseteq Stored
      /\ made[r] # Null => ~made[r].revoked
  BY DEF CommitTokens, SessionsInv, SessionsTypeOK, WorkInOrder, InOrder
<1>2. r \notin Stored
  BY <1>1 DEF SessionsInv, SessionsStartWithLogin
<1>3. ASSUME NEW t \in Stored
      PROVE  /\ t \in Stored' /\ tokens'[t].session = tokens[t].session /\ tokens'[t] \in Rows
             /\ t \in Live' <=> t \in Live /\ t \notin at[r].tokens
  <2>1. t # r /\ tokens[t] \in Rows /\ t \in Requests
    BY <1>1, <1>2 DEF Stored
  <2>2. CASE t \in at[r].tokens
    <3>1. tokens'[t] = [tokens[t] EXCEPT !.revoked = TRUE]
      BY <1>1, <2>1, <2>2 DEF Kept
    <3>2. tokens'[t] \in Rows /\ tokens'[t].revoked /\ tokens'[t].session = tokens[t].session
      BY <2>1, <3>1 DEF Rows
    <3>3. QED
      BY <2>1, <2>2, <3>2 DEF Stored, Live
  <2>3. CASE t \notin at[r].tokens
    <3>1. tokens'[t] = tokens[t]
      BY <1>1, <2>1, <2>3 DEF Kept
    <3>2. QED
      BY <2>1, <2>3, <3>1 DEF Stored, Live
  <2>4. QED
    BY <2>2, <2>3
<1>4. tokens'[r] = made[r]
  BY <1>1 DEF Kept
<1>5. \A t \in Requests : t # r /\ t \notin Stored => t \notin Stored'
  BY <1>1 DEF Kept, Stored
<1>6. Stored' = Stored \cup (IF made[r] = Null THEN {} ELSE {r})
  BY <1>3, <1>4, <1>5 DEF Stored
<1>7. Live' = (Live \ at[r].tokens) \cup (IF made[r] = Null THEN {} ELSE {r})
  <2>1. Live' \subseteq Stored' /\ Live \subseteq Stored
    BY DEF Live
  <2>2. made[r] # Null => r \in Live'
    BY <1>1, <1>4, <1>6 DEF Live
  <2>3. QED
    BY <1>2, <1>3, <1>6, <2>1, <2>2
<1>8. tokens' \in [Requests -> Rows \cup {Null}]
  <2>1. \A t \in Requests : tokens'[t] \in Rows \cup {Null}
    BY <1>1, <1>3, <1>4, <1>5 DEF Stored
  <2>2. QED
    BY <1>1, <2>1 DEF Kept
<1>9. QED
  BY <1>1, <1>2, <1>3, <1>4, <1>6, <1>7, <1>8

\* One request alone changes what is live in a session that was not raced on.
LEMMA CommitKeepsOneLive ==
  ASSUME SessionsInv, NEW r \in Requests, CommitTokens(r)
  PROVE  OneLive'
<1>1. /\ r \notin Stored /\ marked[r] = at[r].tokens /\ at[r].tokens \subseteq Stored
      /\ \A t \in Stored : tokens'[t].session = tokens[t].session
      /\ made[r] # Null => tokens'[r] = made[r]
      /\ Stored' = Stored \cup (IF made[r] = Null THEN {} ELSE {r})
      /\ Live' = (Live \ at[r].tokens) \cup (IF made[r] = Null THEN {} ELSE {r})
  BY CommitFacts
<1>2. raced' = raced /\ ended' = ended \cup Ends(r) /\ Live \subseteq Stored
  BY DEF CommitTokens, Live
<1>3. /\ \A t \in Stored : tokens[t].session \in Stored
      /\ ended \subseteq Stored
  BY DEF SessionsInv, SessionsStartWithLogin
<1>4. made[r] # Null => Issues(r) /\ made[r].session = at[r].session
  BY DEF SessionsInv, WorkInOrder, InOrder
<1>5. Ends(r) \subseteq Stored
  BY <1>1, <1>2, <1>3 DEF Ends, Sessions
<1>6. SUFFICES ASSUME NEW s \in Sessions(Stored)' \ raced
               PROVE  IF s \in ended' THEN LiveOf(s)' = {}
                      ELSE \E t \in Stored' : LiveOf(s)' = {t}
  BY <1>2 DEF OneLive
<1>7. CASE s = r
  <2>1. \A t \in Stored : tokens'[t].session # r
    BY <1>1, <1>3
  <2>2. made[r] # Null /\ tokens'[r].session = r
    BY <1>1, <1>6, <1>7, <2>1 DEF Sessions
  <2>3. LiveOf(s)' = {r} /\ r \in Stored'
    BY <1>1, <1>2, <1>7, <2>1, <2>2 DEF LiveOf
  <2>4. s \notin ended'
    BY <1>1, <1>2, <1>3, <1>5, <1>7
  <2>5. QED
    BY <2>3, <2>4
<1>8. CASE s # r /\ s \notin Sessions(at[r].tokens)
  <2>1. made[r] # Null => made[r].session # s
    BY <1>4, <1>8 DEF Issues, Sessions
  <2>2. s \in Sessions(Stored)
    BY <1>1, <1>6, <2>1 DEF Sessions
  <2>3. LiveOf(s)' = LiveOf(s)
    BY <1>1, <1>2, <1>8, <2>1 DEF LiveOf, Sessions
  <2>4. s \notin Ends(r)
    BY <1>1, <1>8 DEF Ends, Sessions
  <2>5. QED
    BY <1>1, <1>2, <1>6, <2>2, <2>3, <2>4 DEF SessionsInv, OneLive
<1>9. CASE s \in Sessions(at[r].tokens) /\ made[r] # Null
  <2>1. PICK t \in Stored : at[r].tokens = {t} /\ at[r].session = tokens[t].session
    BY <1>4, <1>9 DEF Issues, Sessions
  <2>2. s = tokens[t].session /\ t \in Live
    BY <1>6, <1>9, <2>1 DEF Sessions, SessionsInv, ExchangedIsLive
  <2>3. s \in Sessions(Stored) /\ t \in LiveOf(s)
    BY <2>2, <2>1 DEF Sessions, LiveOf
  <2>4. s \notin ended /\ LiveOf(s) = {t}
    BY <1>6, <2>3 DEF SessionsInv, OneLive
  <2>5. Ends(r) = {}
    BY <1>9 DEF Ends
  <2>6. tokens'[r].session = s
    BY <1>1, <1>4, <1>9, <2>1, <2>2
  <2>7. LiveOf(s)' = {r}
    BY <1>1, <1>2, <1>9, <2>1, <2>4, <2>6 DEF LiveOf
  <2>8. QED
    BY <1>1, <1>2, <1>9, <2>4, <2>5, <2>7
<1>10. CASE s \in Sessions(at[r].tokens) /\ made[r] = Null
  <2>1. Stored' = Stored /\ Live' = Live \ at[r].tokens
    BY <1>1, <1>10
  <2>2. s \in Sessions(Stored)
    BY <1>1, <1>10 DEF Sessions
  <2>3. LiveOf(s)' = LiveOf(s) \ at[r].tokens
    BY <1>1, <1>2, <2>1 DEF LiveOf
  <2>4. s \in Ends(r) <=> LiveOf(s) \cap at[r].tokens # {}
    BY <1>1, <1>10 DEF Ends, Sessions, LiveOf
  <2>5. IF s \in ended THEN LiveOf(s) = {} ELSE \E t \in Stored : LiveOf(s) = {t}
    BY <1>6, <2>2 DEF SessionsInv, OneLive
  <2>6. QED
    BY <1>2, <2>1, <2>3, <2>4, <2>5
<1>11. QED
  BY <1>7, <1>8, <1>9, <1>10

LEMMA CommitKeeps ==
  ASSUME SessionsInv, NEW r \in Requests, CommitTokens(r)
  PROVE  SessionsInv'
<1> USE NothingIsTarget
<1>1. /\ r \notin Stored /\ marked[r] = at[r].tokens /\ at[r].tokens \subseteq Stored
      /\ \A t \in Stored : tokens'[t].session = tokens[t].session /\ tokens'[t] \in Rows
      /\ made[r] # Null => tokens'[r] = made[r] /\ made[r] \in Rows
      /\ tokens' \in [Requests -> Rows \cup {Null}]
      /\ Stored' = Stored \cup (IF made[r] = Null THEN {} ELSE {r})
      /\ Live' = (Live \ at[r].tokens) \cup (IF made[r] = Null THEN {} ELSE {r})
      /\ place[r] = "commit"
  BY CommitFacts
<1>2. PICK how \in {"ok", "lost"} : EndTransaction(r, how)
  BY DEF CommitTokens
<1>3. /\ UNCHANGED <<active, order, expired, raced>> /\ ended' = ended \cup Ends(r)
      /\ place' = [place EXCEPT ![r] = how] /\ at' = [at EXCEPT ![r] = Nothing]
      /\ made' = [made EXCEPT ![r] = Null] /\ marked' = [marked EXCEPT ![r] = {}]
  BY <1>2 DEF CommitTokens, EndTransaction
<1>4. Ends(r) \subseteq Stored /\ Stored \subseteq Requests
  BY <1>1 DEF Ends, Sessions, SessionsInv, SessionsStartWithLogin, Stored
<1>5. /\ \A o \in Requests \ {r} : /\ place'[o] = place[o] /\ at'[o] = at[o]
                                   /\ made'[o] = made[o] /\ marked'[o] = marked[o]
                                   /\ at[o].tokens \subseteq Stored
      /\ place'[r] = how /\ at'[r] = Nothing /\ made'[r] = Null /\ marked'[r] = {}
  BY <1>3 DEF SessionsInv, SessionsTypeOK
<1>6. SessionsTypeOK'
  <2>1. \A o \in Requests : at'[o].tokens \subseteq Stored'
    BY <1>1, <1>5
  <2>2. QED
    BY <1>1, <1>3, <1>4, <2>1 DEF SessionsInv, SessionsTypeOK
<1>7. SessionsStartWithLogin'
  <2>1. made[r] # Null => made[r].session \in Stored \cup {r}
    BY DEF SessionsInv, WorkInOrder, InOrder, Issues, SessionsStartWithLogin
  <2>2. \A t \in Stored : tokens[t].session \in Stored /\ t # r /\ place[t] \in {"ok", "lost"} /\ t \in Requests
    BY <1>1, <1>4 DEF SessionsInv, SessionsStartWithLogin
  <2>3. QED
    BY <1>1, <1>3, <1>4, <1>5, <2>1, <2>2 DEF SessionsInv, SessionsStartWithLogin
<1>8. IdleHoldsNothing'
  BY <1>5 DEF SessionsInv, IdleHoldsNothing
<1>9. WorkInOrder'
  <2>1. \A o \in Requests \ {r} : Issues(o) => Issues(o)'
    BY <1>1, <1>5 DEF Issues
  <2>2. \A o \in Requests \ {r} : InOrder(o)'
    BY <1>5, <2>1 DEF SessionsInv, WorkInOrder, InOrder
  <2>3. InOrder(r)'
    BY <1>5 DEF InOrder
  <2>4. QED
    BY <2>2, <2>3 DEF WorkInOrder
<1>10. SharedIsRaced'
  <2>1. \A o \in Requests : Sessions(at[o].tokens)' \subseteq Sessions(at[o].tokens)
    BY <1>1, <1>5 DEF Sessions
  <2>2. QED
    BY <1>3, <2>1 DEF SessionsInv, SharedIsRaced
<1>11. ExchangedIsLive'
  <2>1. SUFFICES ASSUME NEW o \in Requests \ {r}, NEW t \in at[o].tokens,
                        place[o] \in {"exchange", "insert"} \/ made[o] # Null,
                        tokens[t].session \notin raced
                 PROVE  t \in Live'
    BY <1>1, <1>3, <1>5 DEF ExchangedIsLive
  <2>2. t \in Live
    BY <2>1 DEF SessionsInv, ExchangedIsLive
  <2>3. t \notin at[r].tokens
    BY <2>1 DEF SessionsInv, SharedIsRaced, Sessions
  <2>4. QED
    BY <1>1, <2>2, <2>3
<1>12. OneLive'
  BY CommitKeepsOneLive
<1>13. QED
  BY <1>6, <1>7, <1>8, <1>9, <1>10, <1>11, <1>12 DEF SessionsInv

--------------------------------------------------------------------------------

\* It holds before any request has come in.
THEOREM InitHolds == SessionsInit => SessionsInv
<1> SUFFICES ASSUME SessionsInit PROVE SessionsInv
  OBVIOUS
<1>1. SessionsTypeOK
  <2>1. order \in Seq(Requests) /\ expired \in 0..Len(order)
    BY DEF SessionsInit
  <2>2. QED
    BY NothingIsTarget, <2>1 DEF SessionsInit, SessionsTypeOK, Stored
<1>2. SessionsStartWithLogin /\ IdleHoldsNothing /\ WorkInOrder
  BY NothingIsTarget DEF SessionsInit, SessionsStartWithLogin, IdleHoldsNothing, WorkInOrder, InOrder, Stored
<1>3. SharedIsRaced /\ ExchangedIsLive /\ OneLive
  BY NothingIsTarget DEF SessionsInit, SharedIsRaced, ExchangedIsLive, OneLive, Stored, Sessions
<1>4. QED
  BY <1>1, <1>2, <1>3 DEF SessionsInv

\* Every step of a request, of a user's switch, of the clock and of a crash keeps it.
THEOREM StepsKeep == SessionsInv /\ [SessionsNext]_sessionVars => SessionsInv'
<1> SUFFICES ASSUME SessionsInv, [SessionsNext]_sessionVars PROVE SessionsInv'
  OBVIOUS
<1>1. CASE UNCHANGED sessionVars
  BY <1>1, BesidesKeep DEF sessionVars, SessionsInv, SessionsTypeOK
<1>2. ASSUME NEW r \in Requests, Receive(r) PROVE SessionsInv'
  BY <1>2, ReceiveKeeps
<1>3. ASSUME NEW r \in Requests, Exchange(r) PROVE SessionsInv'
  BY <1>3, MarkKeeps DEF Exchange
<1>4. ASSUME NEW r \in Requests, RevokeMine(r) PROVE SessionsInv'
  BY <1>4, MarkKeeps DEF RevokeMine
<1>5. ASSUME NEW r \in Requests, RevokeExpired(r) PROVE SessionsInv'
  BY <1>5, RefuseKeeps DEF RevokeExpired
<1>6. ASSUME NEW r \in Requests, Insert(r) PROVE SessionsInv'
  BY <1>6, InsertKeeps
<1>7. ASSUME NEW r \in Requests, CommitTokens(r) PROVE SessionsInv'
  BY <1>7, CommitKeeps
<1>8. ASSUME NEW u \in Users, SetActive(u) PROVE SessionsInv'
  BY <1>8, BesidesKeep DEF SetActive, working, SessionsInv, SessionsTypeOK
<1>9. CASE Expire
  <2>1. Len(order) \in Nat /\ expired \in 0..Len(order)
    BY DEF SessionsInv, SessionsTypeOK
  <2>2. expired' \in 0..Len(order)
    BY <1>9, <2>1 DEF Expire
  <2>3. QED
    BY <1>9, <2>2, BesidesKeep DEF Expire, working, SessionsInv, SessionsTypeOK
<1>10. CASE SessionsCrash
  BY <1>10, CrashKeeps
<1>11. QED
  BY <1>1, <1>2, <1>3, <1>4, <1>5, <1>6, <1>7, <1>8, <1>9, <1>10 DEF SessionsNext, SessionStep

LEMMA OneLiveIsOne ==
  ASSUME SessionsInv
  PROVE  OneTokenPerSession
<1>1. Cardinality({}) = 0
  BY FS_EmptySet
<1>2. \A t : Cardinality({t}) = 1
  BY FS_Singleton
<1>3. QED
  BY <1>1, <1>2 DEF SessionsInv, OneLive, OneTokenPerSession

\* The rows, the requests and the histories keep their types.
THEOREM TypeCorrect == SessionsSpec => []SessionsTypeOK
<1>1. SessionsInv => SessionsTypeOK
  BY DEF SessionsInv
<1>2. QED
  BY InitHolds, StepsKeep, <1>1, PTL DEF SessionsSpec

\* However many requests log in, refresh and log out, whatever crashes, expires or
\* is presented again: a session that two of them were never at work on at once
\* has one live token until it is logged out, and none afterwards.
THEOREM SessionsHaveOneToken == SessionsSpec => []OneTokenPerSession
BY InitHolds, StepsKeep, OneLiveIsOne, PTL DEF SessionsSpec
==================================================================================
