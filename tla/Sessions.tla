-------------------------------- MODULE Sessions -------------------------------
(***************************************************************************)
(* Logins and refresh tokens: AuthService over users and refresh_tokens,   *)
(* run by concurrent requests.                                             *)
(*                                                                         *)
(* A token is named after the request that issues it, and a session after  *)
(* the login it began with; no token is guessed, and its hash is its own.  *)
(* A terminal presents a token it was given, at any time, also again.      *)
(* Each request is one transaction (READ COMMITTED), which keeps to itself *)
(* what it has written; that a user is deactivated or activated again is   *)
(* one step (what else UserService does to a user is in Access).           *)
(* Tokens live for the same time, so they expire in the order in which     *)
(* they were made.                                                         *)
(***************************************************************************)
EXTENDS Server, Naturals, Sequences, FiniteSets

CONSTANTS Users

VARIABLES
  active,   \* is_active of each user
  tokens,   \* committed rows: of each token [user, session, revoked], or Null
  order,    \* the tokens in the order in which they were made
  expired,  \* how many of these have expired
  place,    \* where each request is, or how it ended
  at,       \* the user or the tokens it is at work on
  made,     \* its uncommitted token, or Null
  marked,   \* the tokens it has revoked and not committed
  ended,    \* history: the sessions that a logout has ended
  raced     \* history: the sessions two requests were at work on at once

sessionVars == <<active, tokens, order, expired, place, at, made, marked, ended, raced>>
working == <<at, made, marked>>

AtWork == {"exchange", "expire", "logout", "insert", "commit"}
Over == {"ok", "refused", "lost"}
Nothing == [user |-> Null, session |-> Null, tokens |-> {}]
Targets == [user: Users \cup {Null}, session: Requests \cup {Null}, tokens: SUBSET Requests]
Rows == [user: Users, session: Requests, revoked: BOOLEAN]

ASSUME SessionsAssumption == Null \notin Requests \cup Users \cup Rows

--------------------------------------------------------------------------------

Stored == {t \in Requests : tokens[t] # Null}
Live == {t \in Stored : ~tokens[t].revoked}
Expired(t) == \E i \in 1..expired : order[i] = t

\* The tokens that some terminal was given: the answer arrived.
Given == {t \in Stored : place[t] = "ok"}

\* Another request has revoked one of them, and may still commit that.
Locked(r, some) == \E o \in Requests \ {r} : marked[o] \cap some # {}

Sessions(some) == {tokens[t].session : t \in some}

--------------------------------------------------------------------------------
(* How a request ends.                                                        *)

EndTransaction(r, how) ==
  /\ place' = [place EXCEPT ![r] = how]
  /\ at' = [at EXCEPT ![r] = Nothing]
  /\ made' = [made EXCEPT ![r] = Null]
  /\ marked' = [marked EXCEPT ![r] = {}]

\* The handler throws: nothing stays of what it has written.
Refuse(r) == EndTransaction(r, "refused") /\ UNCHANGED <<active, tokens, order, expired, ended, raced>>

Kept(r) ==
  [t \in Requests |->
     IF t = r THEN made[r]
     ELSE IF t \in marked[r] THEN [tokens[t] EXCEPT !.revoked = TRUE] ELSE tokens[t]]

\* A session is ended by a request that revokes a token of it and issues none.
Ends(r) == IF made[r] = Null THEN Sessions(marked[r] \cap Live) ELSE {}

CommitTokens(r) ==
  /\ place[r] = "commit"
  /\ tokens' = Kept(r)
  /\ ended' = ended \cup Ends(r)
  /\ \E how \in {"ok", "lost"} : EndTransaction(r, how) \* the answer arrives or does not
  /\ UNCHANGED <<active, order, expired, raced>>

--------------------------------------------------------------------------------
(* Requests come in.                                                          *)

\* r is at work on these tokens from here on, and so may others be.
Take(r, u, session, some, to) ==
  /\ at' = [at EXCEPT ![r] = [user |-> u, session |-> session, tokens |-> some]]
  /\ place' = [place EXCEPT ![r] = to]
  /\ raced' = raced \cup {s \in Sessions(some) :
                            \E o \in Requests \ {r} : s \in Sessions(at[o].tokens)}
  /\ UNCHANGED <<active, tokens, order, expired, made, marked, ended>>

\* validateUser, and the session begins; it may be answered after the user was
\* deactivated, for the password takes its time.
Login(r) ==
  /\ place[r] = "idle"
  /\ \/ Refuse(r) \* no such user, or another password
     \/ \E u \in Users : ~active[u] /\ Refuse(r)
     \/ \E u \in Users : active[u] /\ Take(r, u, r, {}, "insert")

\* MUTANT of Exchangeable: the token is looked up by its hash alone.
ExchangeableOnceMore(t) == t \in Stored
Exchangeable(t) == t \in Live

\* refreshAccessToken: whether the user is active is not asked.
Refresh(r) ==
  /\ place[r] = "idle"
  /\ \E t \in Given :
       \/ ~Exchangeable(t) /\ Refuse(r)
       \/ /\ Exchangeable(t)
          /\ Take(r, tokens[t].user, tokens[t].session, {t},
                  IF Expired(t) THEN "expire" ELSE "exchange")

Logout(r) ==
  /\ place[r] = "idle"
  /\ \/ Take(r, Null, Null, {}, "logout") \* no such token
     \/ \E t \in Given : Take(r, Null, Null, {t}, "logout")

\* The rows the UPDATE finds; it waits for those that are being revoked, and
\* does not look for what has been issued meanwhile.
Everywhere(u) == {t \in Live : tokens[t].user = u}
LogoutAll(r) ==
  /\ place[r] = "idle"
  /\ \E t \in Given : Take(r, Null, Null, Everywhere(tokens[t].user), "logout")

--------------------------------------------------------------------------------

\* UPDATE ... SET is_revoked = true: it waits for another one of the same row,
\* and does not mind that it was revoked.
Mark(r) ==
  /\ ~Locked(r, at[r].tokens)
  /\ marked' = [marked EXCEPT ![r] = at[r].tokens]
  /\ UNCHANGED <<active, tokens, order, expired, at, made, ended, raced>>

Exchange(r) ==
  /\ place[r] = "exchange"
  /\ Mark(r)
  /\ place' = [place EXCEPT ![r] = "insert"]

RevokeMine(r) ==
  /\ place[r] = "logout"
  /\ Mark(r)
  /\ place' = [place EXCEPT ![r] = "commit"]

\* The expired token is revoked, and that is rolled back with the refusal.
RevokeExpired(r) ==
  /\ place[r] = "expire"
  /\ ~Locked(r, at[r].tokens)
  /\ Refuse(r)

TokenOf(r) == [user |-> at[r].user, session |-> at[r].session, revoked |-> FALSE]

\* createRefreshToken.
Insert(r) ==
  /\ place[r] = "insert"
  /\ made' = [made EXCEPT ![r] = TokenOf(r)]
  /\ order' = Append(order, r)
  /\ place' = [place EXCEPT ![r] = "commit"]
  /\ UNCHANGED <<active, tokens, expired, at, marked, ended, raced>>

--------------------------------------------------------------------------------

\* update or remove of a user that is not at work on its password.
SetActive(u) ==
  /\ active' = [active EXCEPT ![u] = ~@]
  /\ UNCHANGED <<tokens, order, expired, place, working, ended, raced>>

\* Time passes.
Expire ==
  /\ expired < Len(order)
  /\ expired' = expired + 1
  /\ UNCHANGED <<active, tokens, order, place, working, ended, raced>>

\* The server stops: the database rolls back what is not committed.
SessionsCrash ==
  /\ \E r \in Requests : place[r] \in AtWork
  /\ place' = [r \in Requests |-> IF place[r] \in AtWork THEN "lost" ELSE place[r]]
  /\ at' = [r \in Requests |-> Nothing]
  /\ made' = [r \in Requests |-> Null]
  /\ marked' = [r \in Requests |-> {}]
  /\ UNCHANGED <<active, tokens, order, expired, ended, raced>>

SessionsInit ==
  /\ active \in [Users -> BOOLEAN]
  /\ tokens = [t \in Requests |-> Null]
  /\ order = <<>> /\ expired = 0
  /\ place = [r \in Requests |-> "idle"]
  /\ at = [r \in Requests |-> Nothing]
  /\ made = [r \in Requests |-> Null] /\ marked = [r \in Requests |-> {}]
  /\ ended = {} /\ raced = {}

Receive(r) == Login(r) \/ Refresh(r) \/ Logout(r) \/ LogoutAll(r)
SessionStep(r) == Exchange(r) \/ RevokeMine(r) \/ RevokeExpired(r) \/ Insert(r) \/ CommitTokens(r)

SessionsNext ==
  \/ \E r \in Requests : Receive(r) \/ SessionStep(r)
  \/ \E u \in Users : SetActive(u)
  \/ Expire \/ SessionsCrash

SessionsSpec == SessionsInit /\ [][SessionsNext]_sessionVars

--------------------------------------------------------------------------------

SessionsTypeOK ==
  /\ active \in [Users -> BOOLEAN]
  /\ tokens \in [Requests -> Rows \cup {Null}]
  /\ order \in Seq(Requests) /\ expired \in 0..Len(order)
  /\ place \in [Requests -> {"idle"} \cup AtWork \cup Over]
  /\ at \in [Requests -> Targets] /\ \A r \in Requests : at[r].tokens \subseteq Stored
  /\ made \in [Requests -> Rows \cup {Null}]
  /\ marked \in [Requests -> SUBSET Requests]
  /\ ended \subseteq Requests /\ raced \subseteq Requests

LiveOf(s) == {t \in Live : tokens[t].session = s}

\* A session that two requests were never at work on at once has one token that
\* is not revoked, from its login until it is logged out, and none from then on:
\* rotation neither leaves the old token nor loses the session, whatever crashes,
\* expires or is presented again, and a logout ends it for good.
OneTokenPerSession ==
  \A s \in Sessions(Stored) \ raced :
    Cardinality(LiveOf(s)) = IF s \in ended THEN 0 ELSE 1
================================================================================
