------------------------------ MODULE AtMostOnce ------------------------------
(***************************************************************************)
(* What the idempotency layer promises its clients: however often a        *)
(* request is sent under one key of one tenant, and however many of the    *)
(* copies run at once, at most one of them is executed, and every copy     *)
(* that is answered is answered with the record of that one.  An attempt   *)
(* may also fail or be lost, and then it has done nothing, or it is the    *)
(* one that was executed.                                                  *)
(***************************************************************************)
CONSTANTS
  Requests,  \* the attempts; the record an attempt creates is named after it
  Scopes,    \* what a key is unique within: a key of a tenant
  Null

VARIABLES
  asked,   \* the scope each attempt was sent under, or Null
  booked,  \* the attempt executed for each scope, or Null
  answer   \* the record each attempt was answered with, or Null

vars == <<asked, booked, answer>>

Init ==
  /\ asked = [r \in Requests |-> Null]
  /\ booked = [s \in Scopes |-> Null]
  /\ answer = [r \in Requests |-> Null]

Ask(r, s) ==
  /\ asked[r] = Null
  /\ asked' = [asked EXCEPT ![r] = s]
  /\ UNCHANGED <<booked, answer>>

Execute(r, s) ==
  /\ asked[r] = s
  /\ booked[s] = Null
  /\ booked' = [booked EXCEPT ![s] = r]
  /\ UNCHANGED <<asked, answer>>

Answer(r, s) ==
  /\ asked[r] = s
  /\ booked[s] # Null
  /\ answer[r] = Null
  /\ answer' = [answer EXCEPT ![r] = booked[s]]
  /\ UNCHANGED <<asked, booked>>

Next == \E r \in Requests, s \in Scopes : Ask(r, s) \/ Execute(r, s) \/ Answer(r, s)

Spec == Init /\ [][Next]_vars
===============================================================================
