------------------------------- MODULE OrderLife -------------------------------
(***************************************************************************)
(* What the business promises of an order, sold or bought: it is created   *)
(* in one of a few statuses, goes along its flow one status at a time, and *)
(* is charged - an invoice or a vendor bill is made for it - in the very   *)
(* step that gives it its charged status, so exactly once.  The promise is *)
(* made for an order as long as no two requests have been at work on it at *)
(* once; a contested order may take any status and be charged again.       *)
(***************************************************************************)
EXTENDS Naturals

CONSTANTS
  Orders,
  Statuses,
  Created,   \* the statuses a new order may have
  Flow,      \* the pairs <<from, to>> of statuses an order may go through
  Charged,   \* the status of an order that was charged
  Null       \* the status of an order that does not exist

VARIABLES
  status,    \* of each order
  charges,   \* how many documents were made for each order
  contested  \* the orders two requests have been at work on at once

vars == <<status, charges, contested>>

Init ==
  /\ status \in [Orders -> Statuses \cup {Null}]
  /\ charges = [o \in Orders |-> IF status[o] = Charged THEN 1 ELSE 0]
  /\ contested = {}

Create(o) ==
  /\ status[o] = Null
  /\ \E s \in Created : status' = [status EXCEPT ![o] = s]
  /\ UNCHANGED <<charges, contested>>

Advance(o) ==
  /\ o \notin contested
  /\ \E s \in Statuses :
       /\ <<status[o], s>> \in Flow
       /\ status' = [status EXCEPT ![o] = s]
       /\ charges' = [charges EXCEPT ![o] = IF s = Charged THEN @ + 1 ELSE @]
  /\ UNCHANGED contested

Contest(o) ==
  /\ contested' = contested \cup {o}
  /\ UNCHANGED <<status, charges>>

AdvanceContested(o) ==
  /\ o \in contested /\ status[o] # Null
  /\ \E s \in Statuses : status' = [status EXCEPT ![o] = s]
  /\ charges' \in {charges, [charges EXCEPT ![o] = @ + 1]}
  /\ UNCHANGED contested

Next ==
  \E o \in Orders : Create(o) \/ Advance(o) \/ Contest(o) \/ AdvanceContested(o)

Spec == Init /\ [][Next]_vars
================================================================================
