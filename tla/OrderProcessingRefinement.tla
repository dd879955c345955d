-------------------- MODULE OrderProcessingRefinement --------------------
(***************************************************************************)
(* Proof that OrderProcessing implements OrderLife, for any number of       *)
(* orders, users, requests, restarts and failing database calls.            *)
(***************************************************************************)
EXTENDS OrderProcessingProofs

\* OrderLife has the statuses' definitions too.
LEMMA LifeStatuses ==
  /\ Life!Status = Status
  /\ \A s \in Status : Life!Rank(s) = Rank(s)
  BY DEF Life!Status, Status, Life!Rank, Rank, Life!Final, Final

LEMMA InitLife == Init => Life!Init
  BY DEF Init, Life!Init

\* An insertion is the number's acceptance.
LEMMA InsertLife ==
  ASSUME Inv, NEW r \in Requests, Insert(r), UNCHANGED credited
  PROVE  Life!Next
<1> USE Distinct
<1>1. status[OrderOf[r]] = "NEW" /\ status \in [Numbers -> Status]
  BY DEF Inv, TypeOK, NumberInv, Insert
<1>2. status' = status
  BY <1>1 DEF Insert
<1>3. Life!Accept(OrderOf[r], UserOf[r])
  BY <1>2 DEF Insert, Stored, Life!Accept
<1> QED BY <1>3 DEF Life!Next

\* A write of the listener moves the order forward, or repeats what is stored.
LEMMA SetStatusLife ==
  ASSUME Inv, NEW n \in Numbers, listener[n] = "updating", SetStatus(n),
         UNCHANGED <<owner, credited>>
  PROVE  [Life!Next]_Life!vars
<1>1. /\ status[n] \in {"NEW", "PROCESSING"} /\ status'[n] \in Status \ {"NEW"}
      /\ Stored(n) /\ status \in [Numbers -> Status]
  BY SetStatusForward DEF Inv, TypeOK, NumberInv
<1>2. status' = [status EXCEPT ![n] = status'[n]]
  BY <1>1 DEF SetStatus
<1>3. CASE status'[n] = status[n]
  BY <1>1, <1>2, <1>3 DEF Life!vars
<1>4. CASE status'[n] # status[n]
  <2>1. Rank(status[n]) < Rank(status'[n])
    <3>1. /\ Rank("NEW") = 0 /\ Rank("PROCESSING") = 1
          /\ Rank("INVALID") = 2 /\ Rank("PROCESSED") = 2
      BY DEF Rank, Final
    <3> QED BY <1>1, <1>4, <3>1 DEF Status
  <2>2. Life!Forward(n, status'[n])
    BY <1>1, <1>2, <2>1, LifeStatuses DEF Life!Forward, Stored
  <2> QED BY <1>1, <2>2, LifeStatuses DEF Life!Next
<1> QED BY <1>3, <1>4

\* An event that reaches the account is the order's one credit.
LEMMA CreditLife ==
  ASSUME Inv, NEW n \in Numbers, inflight[n] > 0,
         credited' = [credited EXCEPT ![n] = @ + 1], UNCHANGED orderVars
  PROVE  Life!Next
<1>1. /\ inflight[n] \in Nat /\ credited[n] \in Nat /\ inflight[n] + credited[n] <= 1
      /\ status[n] = "PROCESSED"
  BY DEF Inv, TypeOK, NumberInv
<1>2. credited[n] = 0 /\ credited[n] + 1 = 1
  BY <1>1
<1>3. Life!Credit(n)
  BY <1>1, <1>2 DEF Life!Credit, orderVars
<1> QED BY <1>3 DEF Life!Next

LEMMA StepLife == Inv /\ [Next]_vars => [Life!Next]_Life!vars
<1> SUFFICES ASSUME Inv, [Next]_vars PROVE [Life!Next]_Life!vars
  OBVIOUS
<1>1. ASSUME NEW r \in Requests, Upload(r) PROVE [Life!Next]_Life!vars
  <2>1. credited' = credited /\ (Insert(r) \/ UNCHANGED orderVars)
    BY <1>1 DEF Upload, GetOwner, GetOwnerFails, Add, AddFails, Queue, QueueFails, creditVars
  <2> QED BY <2>1, InsertLife DEF Life!vars, orderVars
<1>2. ASSUME NEW n \in Numbers, Listener(n) PROVE [Life!Next]_Life!vars
  <2>1. /\ credited' = credited
        /\ \/ listener[n] = "updating" /\ SetStatus(n) /\ owner' = owner
           \/ UNCHANGED orderVars
    BY <1>2 DEF Listener, Take, Update, UpdateFails, Publish, StopListening, orderVars, creditVars
  <2> QED BY <2>1, SetStatusLife DEF Life!vars, orderVars
<1>3. ASSUME NEW n \in Numbers, OnOrderProcessed(n) PROVE [Life!Next]_Life!vars
  <2>1. /\ inflight[n] > 0 /\ UNCHANGED orderVars
        /\ credited' = credited \/ credited' = [credited EXCEPT ![n] = @ + 1]
    BY <1>3 DEF OnOrderProcessed, Credit, CreditFails
  <2> QED BY <2>1, CreditLife DEF Life!vars, orderVars
<1>4. CASE Main \/ Poll \/ UNCHANGED vars
  <2>1. UNCHANGED <<orderVars, credited>>
    BY <1>4 DEF Main, Start, Requeue, Serve, Unsubscribe, ClosePoller, CloseDB, Exit,
                Crash, LoseMemory, Poll, creditVars, vars
  <2> QED BY <2>1 DEF Life!vars, orderVars
<1> QED BY <1>1, <1>2, <1>3, <1>4 DEF Next

\* Every behaviour of uploads, polls, listeners, events, credits, failures and
\* restarts is, for the orders and their credits, one that OrderLife allows.
THEOREM ImplementsLife == Spec => FollowsLife
<1>1. Init => Life!Init
  BY InitLife
<1> QED BY <1>1, StepLife, Invariance, PTL DEF Spec, FollowsLife, Life!Spec
=============================================================================
