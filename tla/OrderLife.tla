----------------------------- MODULE OrderLife -----------------------------
(***************************************************************************)
(* What the service promises of an order number: one user can have it       *)
(* accepted, its status then goes forward to one that is final, and once    *)
(* it is PROCESSED its accrual may be credited, once.  Nothing is said of   *)
(* uploads, polls, listeners, events or restarts: OrderProcessing has those *)
(* and is shown to implement this module, Loyalty joins it to the ledger.   *)
(***************************************************************************)
EXTENDS OrderStatus

CONSTANTS
  Numbers,  \* the order numbers
  Users,    \* the users
  NoOne     \* the owner of an order that is not stored

VARIABLES
  owner,    \* who had the order accepted
  status,   \* its status
  credited  \* how often its accrual was added to a balance

vars == <<owner, status, credited>>

Init ==
  /\ owner = [n \in Numbers |-> NoOne]
  /\ status = [n \in Numbers |-> "NEW"]
  /\ credited = [n \in Numbers |-> 0]

Accept(n, u) ==
  /\ owner[n] = NoOne
  /\ owner' = [owner EXCEPT ![n] = u]
  /\ UNCHANGED <<status, credited>>

Forward(n, s) ==
  /\ owner[n] # NoOne
  /\ Rank(status[n]) < Rank(s)
  /\ status' = [status EXCEPT ![n] = s]
  /\ UNCHANGED <<owner, credited>>

Credit(n) ==
  /\ status[n] = "PROCESSED"
  /\ credited[n] = 0
  /\ credited' = [credited EXCEPT ![n] = 1]
  /\ UNCHANGED <<owner, status>>

Next ==
  \E n \in Numbers :
    \/ \E u \in Users : Accept(n, u)
    \/ \E s \in Status : Forward(n, s)
    \/ Credit(n)

Spec == Init /\ [][Next]_vars
=============================================================================
