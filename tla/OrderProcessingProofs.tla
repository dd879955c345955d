----------------------- MODULE OrderProcessingProofs -----------------------
(***************************************************************************)
(* Proofs about OrderProcessing, for any number of orders, users, requests, *)
(* restarts and failing database calls: an order is credited once at the    *)
(* most, and what the database says of it only goes forward.                *)
(***************************************************************************)
EXTENDS OrderProcessing, TLAPS

\* A result that ends the feed.
Decided(s) == s \in Final \cup {"ERROR"}

\* How far an order is: while a feed is open nothing is decided; the deciding
\* result is in one place, the channel or the listener's hands, and the order
\* has no final status until it is written; then one event can follow.
NumberInv(n) ==
  /\ ~Stored(n) => status[n] = "NEW" /\ feed[n] = "idle"
  /\ feed[n] = "idle" => listener[n] = "off" /\ inflight[n] = 0
  /\ listener[n] = "off" => feed[n] \in {"idle", "closed"} /\ chan[n] = Nothing
  /\ listener[n] = "updating" <=> got[n] # Nothing
  /\ feed[n] = "open" =>
       ~Decided(chan[n]) /\ ~Decided(got[n]) /\ status[n] \notin Final
  /\ chan[n] # Nothing \/ got[n] # Nothing => status[n] \notin Final
  /\ Decided(got[n]) => chan[n] = Nothing
  /\ listener[n] = "publishing" =>
       status[n] = "PROCESSED" /\ inflight[n] = 0 /\ credited[n] = 0
  /\ inflight[n] + credited[n] <= 1
  /\ inflight[n] > 0 \/ credited[n] > 0 => status[n] = "PROCESSED"
  /\ chan[n] # "NEW" /\ got[n] # "NEW"
  /\ "PROCESSED" \in {chan[n], got[n], status[n]} => remote[n] = "PROCESSED"

\* The request has stored its order.
Inserted(r) == req[r] = "queueing" \/ answer[r] = "202"

\* An order about to be queued, by its upload or at the start, has no feed yet.
QueueInv ==
  /\ phase = "down" => \A n \in Numbers : feed[n] = "idle"
  /\ unprocessed # {} => phase = "loading"
  /\ \A n \in unprocessed : feed[n] = "idle" /\ Stored(n) /\ status[n] \notin Final
  /\ \A r \in Requests :
       /\ req[r] \in {"adding", "queueing"} => phase \notin {"down", "loading"}
       /\ req[r] = "queueing" =>
            feed[OrderOf[r]] = "idle" /\ status[OrderOf[r]] \notin Final

AnswerInv ==
  /\ \A r \in Requests :
       /\ Inserted(r) \/ answer[r] = "200" => owner[OrderOf[r]] = UserOf[r]
       /\ answer[r] = "409" => owner[OrderOf[r]] \notin {NoOne, UserOf[r]}
  /\ \A r, q \in Requests : Inserted(r) /\ Inserted(q) /\ OrderOf[r] = OrderOf[q] => r = q

Inv == TypeOK /\ (\A n \in Numbers : NumberInv(n)) /\ QueueInv /\ AnswerInv

-----------------------------------------------------------------------------
\* The poller's module has the statuses' definitions too.
LEMMA SameStatuses ==
  /\ Poller!Status = Status
  /\ Poller!Final = Final
  /\ Poller!AccrualStatus = AccrualStatus
  /\ Poller!Results = Results
  BY DEF Poller!Status, Status, Poller!Final, Final, Poller!AccrualStatus,
         AccrualStatus, Poller!Results, Results

LEMMA PollerTypes ==
  Poller!TypeOK <=>
    /\ remote \in [Numbers -> AccrualStatus]
    /\ feed \in [Numbers -> {"idle", "open", "ended", "closed"}]
    /\ known \in [Numbers -> Status \ Final]
    /\ chan \in [Numbers -> Results \cup {Nothing}]
    /\ stopped \in BOOLEAN
  BY SameStatuses DEF Poller!TypeOK

\* Who is to be told of no result, and who is nobody.
LEMMA Distinct ==
  /\ Nothing \notin Status \cup {"ERROR"}
  /\ NoOne \notin Users
  /\ \A r \in Requests : UserOf[r] \in Users /\ OrderOf[r] \in Numbers
  BY ProcessingAssumption

LEMMA InitInv == Init => Inv
<1> SUFFICES ASSUME Init PROVE Inv
  OBVIOUS
<1> USE Distinct, ProcessingAssumption DEF Init, Poller!Init
<1>1. TypeOK
  <2>1. Poller!TypeOK
    BY SameStatuses DEF Poller!TypeOK, Status, Final, AccrualStatus
  <2>2. status \in [Numbers -> Status] /\ runs \in 0 .. MaxRuns /\ faults \in 0 .. MaxFaults
    BY DEF Status
  <2> QED BY <2>1, <2>2 DEF TypeOK, Phases
<1>2. \A n \in Numbers : NumberInv(n)
  BY DEF NumberInv, Stored, Decided, Final, Status
<1>3. QueueInv /\ AnswerInv
  BY DEF QueueInv, AnswerInv, Inserted
<1> QED BY <1>1, <1>2, <1>3 DEF Inv

-----------------------------------------------------------------------------
(* Upload.                                                                  *)

LEMMA GetOwnerStep ==
  ASSUME Inv, NEW r \in Requests, GetOwner(r) \/ GetOwnerFails(r)
  PROVE  Inv'
<1> USE Distinct DEF GetOwner, GetOwnerFails, Answer, pollerVars, orderVars,
                     listenerVars, creditVars, mainVars
<1>1. TypeOK'
  <2>1. faults' \in 0 .. MaxFaults
    BY ProcessingAssumption DEF Inv, TypeOK, DBFails, DBUp
  <2> QED BY <2>1 DEF Inv, TypeOK, Poller!TypeOK
<1>2. \A n \in Numbers : NumberInv(n)'
  BY DEF Inv, NumberInv, Stored
<1>3. QueueInv'
  BY DEF Inv, TypeOK, QueueInv, Stored
<1>4. AnswerInv'
  BY DEF Inv, TypeOK, AnswerInv, Inserted, Stored
<1> QED BY <1>1, <1>2, <1>3, <1>4 DEF Inv

\* An insertion, with its answer or without, finds no order stored.
LEMMA InsertKeeps ==
  ASSUME Inv, NEW r \in Requests, req[r] = "adding", Insert(r),
         UNCHANGED <<pollerVars, listenerVars, creditVars, mainVars>>,
         \/ req' = [req EXCEPT ![r] = "queueing"] /\ answer' = answer
         \/ req' = [req EXCEPT ![r] = "answered"] /\ answer' = [answer EXCEPT ![r] = "500"]
  PROVE  /\ owner' \in [Numbers -> Users \cup {NoOne}] /\ status' \in [Numbers -> Status]
         /\ \A n \in Numbers : NumberInv(n)'
         /\ QueueInv' /\ AnswerInv'
<1> USE Distinct DEF Insert, pollerVars, listenerVars, creditVars, mainVars
<1>1. owner' \in [Numbers -> Users \cup {NoOne}] /\ status' \in [Numbers -> Status]
  BY DEF Inv, TypeOK, Status
<1>2. /\ feed[OrderOf[r]] = "idle" /\ status[OrderOf[r]] = "NEW"
      /\ status' = status
  BY DEF Inv, TypeOK, NumberInv
<1>3. \A n \in Numbers : NumberInv(n)'
  BY <1>2 DEF Inv, TypeOK, NumberInv, Stored
<1>4. QueueInv'
  BY <1>2 DEF Inv, TypeOK, QueueInv, Stored, Final
<1>5. AnswerInv'
  BY DEF Inv, TypeOK, AnswerInv, Inserted, Stored
<1> QED BY <1>1, <1>3, <1>4, <1>5

LEMMA AddStep ==
  ASSUME Inv, NEW r \in Requests, Add(r) \/ AddFails(r)
  PROVE  Inv'
<1> USE Distinct DEF Add, AddFails, Answer, pollerVars, listenerVars, creditVars, mainVars
<1>1. faults' \in 0 .. MaxFaults
  BY ProcessingAssumption DEF Inv, TypeOK, DBFails, DBUp, AnswerLost
<1>2. CASE Insert(r)
  <2>1. TypeOK'
    BY <1>1, <1>2, InsertKeeps DEF Inv, TypeOK, Poller!TypeOK
  <2> QED BY <1>2, <2>1, InsertKeeps DEF Inv
<1>3. CASE UNCHANGED orderVars /\ Answer(r, "500")
  <2> USE DEF orderVars
  <2>1. TypeOK'
    BY <1>1, <1>3 DEF Inv, TypeOK, Poller!TypeOK
  <2>2. \A n \in Numbers : NumberInv(n)'
    BY <1>3 DEF Inv, NumberInv, Stored
  <2>3. QueueInv' /\ AnswerInv'
    BY <1>3 DEF Inv, TypeOK, QueueInv, AnswerInv, Inserted, Stored
  <2> QED BY <2>1, <2>2, <2>3 DEF Inv
<1> QED BY <1>2, <1>3

\* A number is put on the queue: by its upload, or at the start.
LEMMA AcceptKeeps ==
  ASSUME Inv, NEW n \in Numbers, Poller!Accept(n), Listen(n), Stored(n),
         status[n] \notin Final,
         UNCHANGED <<owner, status, got, inflight, credited>>
  PROVE  /\ Poller!TypeOK' /\ listener' \in [Numbers -> {"off", "receiving", "updating", "publishing"}]
         /\ \A m \in Numbers : NumberInv(m)'
<1> USE Distinct DEF Poller!Accept, Listen
<1>1. Poller!TypeOK'
  BY SameStatuses DEF Inv, TypeOK, Poller!TypeOK
<1>2. listener' \in [Numbers -> {"off", "receiving", "updating", "publishing"}]
  BY DEF Inv, TypeOK
<1>3. \A m \in Numbers : NumberInv(m)'
  <2> SUFFICES ASSUME NEW m \in Numbers PROVE NumberInv(m)'
    OBVIOUS
  <2>1. CASE m = n
    <3>1. /\ feed'[n] = "open" /\ listener'[n] = "receiving"
          /\ chan[n] = Nothing /\ got[n] = Nothing /\ inflight[n] = 0
      BY DEF Inv, TypeOK, Poller!TypeOK, NumberInv
    <3>2. ~Decided(Nothing)
      BY DEF Decided, Final, Status
    <3> QED BY <2>1, <3>1, <3>2 DEF Inv, NumberInv, Stored
  <2>2. CASE m # n
    BY <2>2 DEF Inv, TypeOK, Poller!TypeOK, NumberInv, Stored
  <2> QED BY <2>1, <2>2
<1> QED BY <1>1, <1>2, <1>3

LEMMA QueueStep ==
  ASSUME Inv, NEW r \in Requests, Queue(r) \/ QueueFails(r)
  PROVE  Inv'
<1> USE Distinct DEF Answer, orderVars, creditVars, mainVars
<1>1. CASE Queue(r)
  <2> USE <1>1 DEF Queue
  <2>1. Stored(OrderOf[r]) /\ status[OrderOf[r]] \notin Final
    BY DEF Inv, TypeOK, QueueInv, AnswerInv, Inserted, Stored
  <2>2. Poller!TypeOK' /\ (\A m \in Numbers : NumberInv(m)')
        /\ listener' \in [Numbers -> {"off", "receiving", "updating", "publishing"}]
    BY <2>1, AcceptKeeps
  <2>3. TypeOK'
    BY <2>2 DEF Inv, TypeOK
  <2>4. feed' = [feed EXCEPT ![OrderOf[r]] = "open"] /\ phase \notin {"down", "loading"}
    BY DEF Poller!Accept, Inv, QueueInv
  <2>5. QueueInv'
    BY <2>4 DEF Inv, TypeOK, Poller!TypeOK, QueueInv, AnswerInv, Inserted
  <2>6. AnswerInv'
    BY DEF Inv, TypeOK, AnswerInv, Inserted
  <2> QED BY <2>2, <2>3, <2>5, <2>6 DEF Inv
<1>2. CASE QueueFails(r)
  <2> USE <1>2 DEF QueueFails, pollerVars, listenerVars
  <2>1. TypeOK'
    BY DEF Inv, TypeOK, Poller!TypeOK
  <2>2. \A n \in Numbers : NumberInv(n)'
    BY DEF Inv, NumberInv, Stored
  <2>3. QueueInv' /\ AnswerInv'
    BY DEF Inv, TypeOK, QueueInv, AnswerInv, Inserted, Stored
  <2> QED BY <2>1, <2>2, <2>3 DEF Inv
<1> QED BY <1>1, <1>2

-----------------------------------------------------------------------------
(* Listeners and credits.                                                   *)

LEMMA TakeStep ==
  ASSUME Inv, NEW n \in Numbers, Take(n)
  PROVE  Inv'
<1> USE Distinct DEF Take, Poller!Receive, orderVars, requestVars, creditVars, mainVars
<1>1. TypeOK'
  BY SameStatuses DEF Inv, TypeOK, Poller!TypeOK
<1>2. \A m \in Numbers : NumberInv(m)'
  <2> SUFFICES ASSUME NEW m \in Numbers PROVE NumberInv(m)'
    OBVIOUS
  <2>1. CASE m = n
    <3>1. /\ chan'[n] = Nothing /\ got'[n] = chan[n] /\ listener'[n] = "updating"
          /\ listener[n] = "receiving" /\ chan[n] # Nothing /\ got[n] = Nothing
      BY DEF Inv, TypeOK, Poller!TypeOK, NumberInv
    <3> QED BY <2>1, <3>1 DEF Inv, NumberInv, Stored, Decided, Final
  <2>2. CASE m # n
    BY <2>2 DEF Inv, TypeOK, Poller!TypeOK, NumberInv, Stored
  <2> QED BY <2>1, <2>2
<1>3. QueueInv' /\ AnswerInv'
  BY DEF Inv, QueueInv, AnswerInv, Inserted, Stored
<1> QED BY <1>1, <1>2, <1>3 DEF Inv

\* The status that is written: later than the one it replaces, which is not final.
LEMMA SetStatusForward ==
  ASSUME Inv, NEW n \in Numbers, listener[n] = "updating", SetStatus(n)
  PROVE  /\ status' \in [Numbers -> Status]
         /\ \A m \in Numbers : m # n => status'[m] = status[m]
         /\ status'[n] = IF got[n] = "ERROR" THEN "INVALID" ELSE got[n]
         /\ status[n] \in {"NEW", "PROCESSING"}
         /\ status'[n] \in Status \ {"NEW"}
<1> USE Distinct
<1>1. status \in [Numbers -> Status] /\ got[n] \in Results \cup {Nothing}
  BY DEF Inv, TypeOK
<1>2. got[n] # Nothing /\ got[n] # "NEW" /\ status[n] \notin Final
  BY DEF Inv, NumberInv
<1> QED BY <1>1, <1>2 DEF SetStatus, Status, Results, Final

\* A result is written, or lost, or the answer is; then perhaps published.
LEMMA UpdateStep ==
  ASSUME Inv, NEW n \in Numbers, Update(n) \/ UpdateFails(n)
  PROVE  Inv'
<1> USE Distinct DEF Update, UpdateFails, ToPublish, pollerVars, requestVars, creditVars, mainVars
<1>1. faults' \in 0 .. MaxFaults
  BY ProcessingAssumption DEF Inv, TypeOK, DBFails, DBUp, AnswerLost
<1>2. /\ listener[n] = "updating" /\ got' = [got EXCEPT ![n] = Nothing]
      /\ \/ listener' = [listener EXCEPT ![n] = "receiving"]
         \/ /\ got[n] = "PROCESSED" /\ SetStatus(n)
            /\ listener' = [listener EXCEPT ![n] = "publishing"]
      /\ SetStatus(n) \/ UNCHANGED status
  BY DEF Inv, TypeOK
<1>3. TypeOK'
  <2>1. status' \in [Numbers -> Status]
    BY <1>2, SetStatusForward DEF Inv, TypeOK
  <2> QED BY <1>1, <1>2, <2>1 DEF Inv, TypeOK, Poller!TypeOK
<1>4. \A m \in Numbers : NumberInv(m)'
  <2> SUFFICES ASSUME NEW m \in Numbers PROVE NumberInv(m)'
    OBVIOUS
  <2>1. CASE m = n
    <3>1. /\ got'[n] = Nothing /\ got[n] # Nothing /\ got[n] # "NEW"
          /\ \/ listener'[n] = "receiving"
             \/ listener'[n] = "publishing" /\ status'[n] = "PROCESSED"
          /\ status[n] \notin Final
      BY <1>2, SetStatusForward DEF Inv, TypeOK, NumberInv
    <3>2. inflight[n] = 0 /\ credited[n] = 0
      BY <3>1 DEF Inv, TypeOK, NumberInv, Final
    <3>3. /\ Decided(got[n]) \/ status'[n] \notin Final
          /\ status'[n] = "PROCESSED" => got[n] = "PROCESSED"
      BY <1>2, <3>1, SetStatusForward DEF Decided, Final
    <3>4. Stored(n) /\ feed[n] # "idle"
      BY <1>2 DEF Inv, NumberInv
    <3>5. chan[n] # Nothing => status'[n] \notin Final
      BY <3>3 DEF Inv, NumberInv
    <3>6. feed[n] = "open" => status'[n] \notin Final
      BY <3>3 DEF Inv, NumberInv
    <3>7. ~Decided(Nothing) /\ Nothing # "NEW" /\ Nothing # "PROCESSED"
      BY DEF Decided, Final, Status
    <3>8. /\ listener'[n] # "updating" /\ listener'[n] # "off"
          /\ inflight'[n] + credited'[n] <= 1
          /\ inflight'[n] = 0 /\ credited'[n] = 0
      BY <3>1, <3>2
    <3>9. "PROCESSED" \in {chan[n], status'[n]} => remote[n] = "PROCESSED"
      BY <3>3 DEF Inv, NumberInv
    <3>10. feed[n] = "open" => ~Decided(chan[n])
      BY DEF Inv, NumberInv
    <3>11. chan[n] # "NEW"
      BY DEF Inv, NumberInv
    <3> QED BY <2>1, <3>1, <3>4, <3>5, <3>6, <3>7, <3>8, <3>9, <3>10, <3>11
            DEF NumberInv, Stored
  <2>2. CASE m # n
    <3>1. status'[m] = status[m]
      BY <1>2, <2>2, SetStatusForward
    <3> QED BY <1>2, <2>2, <3>1 DEF Inv, TypeOK, NumberInv, Stored
  <2> QED BY <2>1, <2>2
<1>5. QueueInv'
  <2>1. feed[n] # "idle" /\ (\A m \in Numbers : m # n => status'[m] = status[m])
    BY <1>2, SetStatusForward DEF Inv, NumberInv
  <2> QED BY <2>1 DEF Inv, TypeOK, QueueInv, Stored
<1>6. AnswerInv'
  BY DEF Inv, AnswerInv, Inserted
<1> QED BY <1>3, <1>4, <1>5, <1>6 DEF Inv

\* An event is published, and may be heard by the balance service.
LEMMA PublishStep ==
  ASSUME Inv, NEW n \in Numbers, Publish(n)
  PROVE  Inv'
<1> USE Distinct DEF Publish, pollerVars, orderVars, requestVars, mainVars
<1>1. inflight' = inflight \/ inflight' = [inflight EXCEPT ![n] = 1]
  <2>1. inflight[n] = 0 /\ 0 + 1 = 1
    BY DEF Inv, NumberInv
  <2> QED BY <2>1
<1>2. TypeOK'
  BY <1>1 DEF Inv, TypeOK, Poller!TypeOK
<1>3. \A m \in Numbers : NumberInv(m)'
  <2> SUFFICES ASSUME NEW m \in Numbers PROVE NumberInv(m)'
    OBVIOUS
  <2>1. CASE m = n
    BY <1>1, <2>1 DEF Inv, TypeOK, NumberInv, Stored
  <2>2. CASE m # n
    BY <1>1, <2>2 DEF Inv, TypeOK, NumberInv, Stored
  <2> QED BY <2>1, <2>2
<1>4. QueueInv' /\ AnswerInv'
  BY DEF Inv, QueueInv, AnswerInv, Inserted, Stored
<1> QED BY <1>2, <1>3, <1>4 DEF Inv

LEMMA StopListeningStep ==
  ASSUME Inv, NEW n \in Numbers, StopListening(n)
  PROVE  Inv'
<1> USE Distinct DEF StopListening, pollerVars, orderVars, requestVars, creditVars, mainVars
<1>1. TypeOK'
  BY DEF Inv, TypeOK, Poller!TypeOK
<1>2. \A m \in Numbers : NumberInv(m)'
  BY DEF Inv, TypeOK, NumberInv, Stored
<1>3. QueueInv' /\ AnswerInv'
  BY DEF Inv, QueueInv, AnswerInv, Inserted, Stored
<1> QED BY <1>1, <1>2, <1>3 DEF Inv

LEMMA CreditStep ==
  ASSUME Inv, NEW n \in Numbers, Credit(n) \/ CreditFails(n)
  PROVE  Inv'
<1> USE Distinct DEF Credit, CreditFails, pollerVars, orderVars, requestVars, listenerVars, mainVars
<1>1. faults' \in 0 .. MaxFaults
  BY ProcessingAssumption DEF Inv, TypeOK, DBFails, DBUp, AnswerLost
<1>2. /\ inflight[n] = 1 /\ credited[n] = 0 /\ inflight' = [inflight EXCEPT ![n] = 0]
      /\ credited' = credited \/ credited' = [credited EXCEPT ![n] = 1]
  <2>1. inflight[n] \in Nat /\ credited[n] \in Nat /\ inflight[n] > 0
        /\ inflight[n] + credited[n] <= 1
    BY DEF Inv, TypeOK, NumberInv
  <2>2. inflight[n] = 1 /\ credited[n] = 0 /\ 1 - 1 = 0 /\ 0 + 1 = 1
    BY <2>1
  <2> QED BY <2>2
<1>3. TypeOK'
  BY <1>1, <1>2 DEF Inv, TypeOK, Poller!TypeOK
<1>4. \A m \in Numbers : NumberInv(m)'
  <2> SUFFICES ASSUME NEW m \in Numbers PROVE NumberInv(m)'
    OBVIOUS
  <2>1. CASE m = n
    BY <1>2, <2>1 DEF Inv, TypeOK, NumberInv, Stored
  <2>2. CASE m # n
    BY <1>2, <2>2 DEF Inv, TypeOK, NumberInv, Stored
  <2> QED BY <2>1, <2>2
<1>5. QueueInv' /\ AnswerInv'
  BY DEF Inv, QueueInv, AnswerInv, Inserted, Stored
<1> QED BY <1>3, <1>4, <1>5 DEF Inv

-----------------------------------------------------------------------------
(* main.                                                                    *)

\* The program starts: no order has a feed, those without a final status wait.
LEMMA StartStep ==
  ASSUME Inv, Start
  PROVE  Inv'
<1> USE Distinct DEF Start, pollerVars, orderVars, requestVars, listenerVars, creditVars
<1>1. TypeOK'
  BY ProcessingAssumption DEF Inv, TypeOK, Poller!TypeOK, Phases, Unprocessed
<1>2. \A n \in Numbers : NumberInv(n)'
  BY DEF Inv, NumberInv, Stored
<1>3. QueueInv'
  BY DEF Inv, TypeOK, QueueInv, Stored, Unprocessed, Final
<1>4. AnswerInv'
  BY DEF Inv, AnswerInv, Inserted
<1> QED BY <1>1, <1>2, <1>3, <1>4 DEF Inv

LEMMA RequeueStep ==
  ASSUME Inv, NEW n \in Numbers, Requeue(n)
  PROVE  Inv'
<1> USE Distinct DEF Requeue, orderVars, requestVars, creditVars
<1>1. Stored(n) /\ status[n] \notin Final
  BY DEF Inv, QueueInv
<1>2. Poller!TypeOK' /\ (\A m \in Numbers : NumberInv(m)')
      /\ listener' \in [Numbers -> {"off", "receiving", "updating", "publishing"}]
  BY <1>1, AcceptKeeps
<1>3. TypeOK'
  BY <1>2 DEF Inv, TypeOK
<1>4. feed' = [feed EXCEPT ![n] = "open"]
  BY DEF Poller!Accept
<1>5. QueueInv'
  BY <1>4 DEF Inv, TypeOK, Poller!TypeOK, QueueInv, Stored
<1>6. AnswerInv'
  BY DEF Inv, AnswerInv, Inserted
<1> QED BY <1>2, <1>3, <1>5, <1>6 DEF Inv

LEMMA PhaseStep ==
  ASSUME Inv, Serve \/ Unsubscribe \/ CloseDB
  PROVE  Inv'
<1> USE Distinct DEF Serve, Unsubscribe, CloseDB, pollerVars, orderVars, requestVars,
                     listenerVars, creditVars
<1>1. TypeOK'
  BY DEF Inv, TypeOK, Poller!TypeOK, Phases
<1>2. \A n \in Numbers : NumberInv(n)'
  BY DEF Inv, NumberInv, Stored
<1>3. QueueInv'
  BY DEF Inv, QueueInv, Stored
<1>4. AnswerInv'
  BY DEF Inv, AnswerInv, Inserted
<1> QED BY <1>1, <1>2, <1>3, <1>4 DEF Inv

LEMMA ClosePollerStep ==
  ASSUME Inv, ClosePoller
  PROVE  Inv'
<1> USE Distinct DEF ClosePoller, orderVars, requestVars, listenerVars, creditVars, mainVars
<1>1. /\ UNCHANGED <<remote, known, chan>>
      /\ stopped' \in BOOLEAN
      /\ feed' \in [Numbers -> {"idle", "open", "ended", "closed"}]
      /\ \A n \in Numbers :
           \/ feed'[n] = feed[n]
           \/ feed[n] \in {"open", "ended"} /\ feed'[n] = "closed"
  <2>1. CASE Poller!Stop
    BY <2>1 DEF Poller!Stop, Inv, TypeOK, Poller!TypeOK
  <2>2. ASSUME NEW S \in SUBSET Numbers, Poller!Abandon(S)
        PROVE  /\ UNCHANGED <<remote, known, chan, stopped>>
               /\ feed' = [n \in Numbers |-> IF n \in S THEN "closed" ELSE feed[n]]
               /\ \A n \in S : feed[n] \in {"open", "ended"}
    BY <2>2 DEF Poller!Abandon, Poller!Live
  <2>3. stopped \in BOOLEAN /\ feed \in [Numbers -> {"idle", "open", "ended", "closed"}]
    BY DEF Inv, TypeOK, Poller!TypeOK
  <2> QED BY <2>1, <2>2, <2>3
<1>2. TypeOK'
  BY <1>1 DEF Inv, TypeOK, Poller!TypeOK
<1>3. \A n \in Numbers : NumberInv(n)'
  BY <1>1 DEF Inv, NumberInv, Stored
<1>4. QueueInv'
  <2>1. \A n \in Numbers : feed[n] = "idle" => feed'[n] = "idle"
    BY <1>1
  <2> QED BY <2>1 DEF Inv, TypeOK, QueueInv, Stored
<1>5. AnswerInv'
  BY DEF Inv, AnswerInv, Inserted
<1> QED BY <1>2, <1>3, <1>4, <1>5 DEF Inv

\* The process ends: an order credited or stored stays so, the rest begins anew.
LEMMA EndStep ==
  ASSUME Inv, Exit \/ Crash
  PROVE  Inv'
<1> USE Distinct DEF Exit, Crash, LoseMemory, orderVars
<1>1. TypeOK'
  <2>1. Poller!TypeOK'
    <3>1. "NEW" \in Status \ Final
      BY DEF Status, Final
    <3>2. known' \in [Numbers -> Status \ Final]
      BY <3>1
    <3>3. feed' \in [Numbers -> {"idle", "open", "ended", "closed"}]
      OBVIOUS
    <3>6. stopped' \in BOOLEAN
      <4>1. stopped' = FALSE
        OBVIOUS
      <4> QED BY <4>1
    <3>4. chan' \in [Numbers -> Results \cup {Nothing}]
      OBVIOUS
    <3>5. remote' \in [Numbers -> AccrualStatus]
      BY PollerTypes DEF Inv, TypeOK
    <3> QED BY <3>2, <3>3, <3>4, <3>5, <3>6, SameStatuses DEF Poller!TypeOK
  <2>2. req' \in [Requests -> {"idle", "adding", "queueing", "answered", "broken"}]
    BY DEF Inv, TypeOK
  <2> QED BY <2>1, <2>2 DEF Inv, TypeOK, Phases
<1>2. \A n \in Numbers : NumberInv(n)'
  <2> SUFFICES ASSUME NEW n \in Numbers PROVE NumberInv(n)'
    OBVIOUS
  <2>1. ~Decided(Nothing) /\ Nothing # "NEW" /\ Nothing # "PROCESSED"
    BY DEF Decided, Final, Status
  <2>2. credited[n] \in Nat /\ inflight[n] \in Nat /\ inflight[n] + credited[n] <= 1
    BY DEF Inv, TypeOK, NumberInv
  <2>3. inflight'[n] = 0 /\ credited'[n] = credited[n] /\ 0 + credited[n] <= 1
    BY <2>2
  <2>4. "PROCESSED" = status[n] => remote[n] = "PROCESSED"
    BY DEF Inv, NumberInv
  <2>5. credited[n] > 0 => status[n] = "PROCESSED"
    BY DEF Inv, NumberInv
  <2>6. ~Stored(n)' => status'[n] = "NEW"
    BY DEF Inv, NumberInv, Stored
  <2>7. /\ feed'[n] = "idle" /\ chan'[n] = Nothing /\ got'[n] = Nothing
        /\ listener'[n] = "off" /\ status'[n] = status[n] /\ remote'[n] = remote[n]
    OBVIOUS
  <2> QED BY <2>1, <2>3, <2>4, <2>5, <2>6, <2>7 DEF NumberInv
<1>3. QueueInv'
  BY DEF Inv, TypeOK, QueueInv
<1>4. AnswerInv'
  <2>1. \A r \in Requests : Inserted(r)' => Inserted(r)
    BY DEF Inserted
  <2> QED BY <2>1 DEF Inv, AnswerInv
<1> QED BY <1>1, <1>2, <1>3, <1>4 DEF Inv

-----------------------------------------------------------------------------
(* The poller and the accrual service.                                      *)

\* A result is announced, the last one with the end of the feed.
LEMMA EmitStep ==
  ASSUME Inv, Up, NEW n \in Numbers,
         \/ \E s \in Status \ Final : Poller!Emit(n, s)
         \/ \E s \in Final \cup {"ERROR"} : Poller!EmitLast(n, s),
         UNCHANGED <<orderVars, requestVars, listenerVars, creditVars, mainVars, faults>>
  PROVE  Inv'
<1> USE Distinct DEF orderVars, requestVars, listenerVars, creditVars, mainVars
<1>1. PICK s \in Results \ {"NEW"} :
        /\ feed[n] = "open" /\ chan[n] = Nothing
        /\ chan' = [chan EXCEPT ![n] = s]
        /\ \/ s \notin Final \cup {"ERROR"} /\ feed' = feed
           \/ feed' = [feed EXCEPT ![n] = "ended"]
        /\ s = "PROCESSED" => remote[n] = "PROCESSED"
        /\ known' \in [Numbers -> Status \ Final]
        /\ UNCHANGED <<remote, stopped>>
  <2>1. known \in [Numbers -> Status \ Final] /\ remote \in [Numbers -> AccrualStatus]
    BY PollerTypes DEF Inv, TypeOK
  <2>2. CASE \E s \in Status \ Final : Poller!Emit(n, s)
    <3>1. PICK s \in Status \ Final : Poller!Emit(n, s)
      BY <2>2
    <3>2. s # "NEW"
      <4>1. known[n] = "NEW" \/ known[n] = "PROCESSING"
        BY <2>1 DEF Status, Final
      <4>2. Poller!Rank("NEW") = 0 /\ Poller!Rank("PROCESSING") = 1
        BY DEF Poller!Rank, Poller!Final
      <4> QED BY <3>1, <4>1, <4>2 DEF Poller!Emit
    <3>3. s # "PROCESSED" /\ s \notin Final \cup {"ERROR"} /\ s \in Results \ {"NEW"}
      BY <3>2 DEF Final, Status, Results
    <3>4. known' \in [Numbers -> Status \ Final]
      BY <2>1, <3>1 DEF Poller!Emit
    <3> QED BY <3>1, <3>3, <3>4 DEF Poller!Emit
  <2>3. CASE \E s \in Final \cup {"ERROR"} : Poller!EmitLast(n, s)
    <3>1. PICK s \in Final \cup {"ERROR"} : Poller!EmitLast(n, s)
      BY <2>3
    <3>2. s = "PROCESSED" => remote[n] = "PROCESSED"
      <4>1. s = "PROCESSED" => s = Poller!StatusOf(remote[n])
        BY <3>1, SameStatuses DEF Poller!EmitLast, Final
      <4> QED BY <4>1 DEF Poller!StatusOf
    <3>3. s \in Results \ {"NEW"}
      BY DEF Final, Status, Results
    <3> QED BY <2>1, <3>1, <3>2, <3>3 DEF Poller!EmitLast
  <2> QED BY <2>2, <2>3
<1>2. TypeOK'
  <2>1. Poller!TypeOK'
    BY <1>1, SameStatuses DEF Inv, TypeOK, Poller!TypeOK
  <2> QED BY <2>1 DEF Inv, TypeOK
<1>3. \A m \in Numbers : NumberInv(m)'
  <2> SUFFICES ASSUME NEW m \in Numbers PROVE NumberInv(m)'
    OBVIOUS
  <2>1. CASE m = n
    <3>1. /\ chan'[n] = s /\ s # "NEW" /\ feed[n] = "open"
          /\ \/ feed'[n] = "open" /\ ~Decided(s)
             \/ feed'[n] = "ended"
      BY <1>1 DEF Inv, TypeOK, Poller!TypeOK, Decided
    <3>2. Stored(n) /\ listener[n] # "off" /\ ~Decided(got[n]) /\ status[n] \notin Final
      BY <3>1 DEF Inv, NumberInv
    <3> QED BY <1>1, <2>1, <3>1, <3>2 DEF Inv, NumberInv, Stored
  <2>2. CASE m # n
    BY <1>1, <2>2 DEF Inv, TypeOK, Poller!TypeOK, NumberInv, Stored
  <2> QED BY <2>1, <2>2
<1>4. QueueInv'
  BY <1>1 DEF Inv, TypeOK, Poller!TypeOK, QueueInv, Stored, Up
<1>5. AnswerInv'
  BY DEF Inv, AnswerInv, Inserted
<1> QED BY <1>2, <1>3, <1>4, <1>5 DEF Inv

LEMMA CloseFeedStep ==
  ASSUME Inv, NEW n \in Numbers, Poller!CloseFeed(n),
         UNCHANGED <<orderVars, requestVars, listenerVars, creditVars, mainVars, faults>>
  PROVE  Inv'
<1> USE Distinct DEF Poller!CloseFeed, orderVars, requestVars, listenerVars, creditVars, mainVars
<1>1. TypeOK'
  BY DEF Inv, TypeOK, Poller!TypeOK
<1>2. \A m \in Numbers : NumberInv(m)'
  BY DEF Inv, TypeOK, Poller!TypeOK, NumberInv, Stored
<1>3. QueueInv'
  BY DEF Inv, TypeOK, Poller!TypeOK, QueueInv, Stored
<1>4. AnswerInv'
  BY DEF Inv, AnswerInv, Inserted
<1> QED BY <1>1, <1>2, <1>3, <1>4 DEF Inv

\* The accrual service never takes PROCESSED back.
LEMMA AdvanceStep ==
  ASSUME Inv, NEW n \in Numbers, Poller!Advance(n),
         UNCHANGED <<orderVars, requestVars, listenerVars, creditVars, mainVars, faults>>
  PROVE  Inv'
<1> USE Distinct DEF Poller!Advance, orderVars, requestVars, listenerVars, creditVars, mainVars
<1>1. PICK a \in Poller!LaterStatuses(remote[n]) : remote' = [remote EXCEPT ![n] = a]
  OBVIOUS
<1>2. remote[n] # "PROCESSED" /\ a \in Poller!AccrualStatus
  BY <1>1 DEF Poller!LaterStatuses, Poller!AccrualStatus, Poller!Final, Final
<1>3. TypeOK'
  BY <1>1, <1>2 DEF Inv, TypeOK, Poller!TypeOK
<1>4. \A m \in Numbers : NumberInv(m)'
  BY <1>1, <1>2 DEF Inv, TypeOK, Poller!TypeOK, NumberInv, Stored
<1>5. QueueInv' /\ AnswerInv'
  BY DEF Inv, QueueInv, AnswerInv, Inserted, Stored
<1> QED BY <1>3, <1>4, <1>5 DEF Inv

LEMMA PollStep ==
  ASSUME Inv, Poll
  PROVE  Inv'
<1>1. PICK n \in Numbers :
        \/ Up /\ \E s \in Status \ Final : Poller!Emit(n, s)
        \/ Up /\ \E s \in Final \cup {"ERROR"} : Poller!EmitLast(n, s)
        \/ Poller!CloseFeed(n)
        \/ Poller!Advance(n)
  BY DEF Poll
<1>2. UNCHANGED <<orderVars, requestVars, listenerVars, creditVars, mainVars, faults>>
  BY DEF Poll
<1> QED BY <1>1, <1>2, EmitStep, CloseFeedStep, AdvanceStep

-----------------------------------------------------------------------------
LEMMA NextInv == Inv /\ [Next]_vars => Inv'
<1> SUFFICES ASSUME Inv, [Next]_vars PROVE Inv'
  OBVIOUS
<1>1. ASSUME NEW r \in Requests, Upload(r) PROVE Inv'
  BY <1>1, GetOwnerStep, AddStep, QueueStep DEF Upload
<1>2. ASSUME NEW n \in Numbers, Listener(n) \/ OnOrderProcessed(n) PROVE Inv'
  BY <1>2, TakeStep, UpdateStep, PublishStep, StopListeningStep, CreditStep
     DEF Listener, OnOrderProcessed
<1>3. CASE Main
  BY <1>3, StartStep, RequeueStep, PhaseStep, ClosePollerStep, EndStep DEF Main
<1>4. CASE Poll
  BY <1>4, PollStep
<1>5. CASE UNCHANGED vars
  <2> USE <1>5 DEF vars, pollerVars, orderVars, requestVars, listenerVars, creditVars, mainVars
  <2>1. TypeOK'
    BY DEF Inv, TypeOK, Poller!TypeOK
  <2>2. \A n \in Numbers : NumberInv(n)'
    BY DEF Inv, NumberInv, Stored
  <2>3. QueueInv' /\ AnswerInv'
    BY DEF Inv, QueueInv, AnswerInv, Inserted, Stored
  <2> QED BY <2>1, <2>2, <2>3 DEF Inv
<1> QED BY <1>1, <1>2, <1>3, <1>4, <1>5 DEF Next

\* Inv holds in every reachable state.
THEOREM Invariance == Spec => []Inv
  BY InitInv, NextInv, PTL DEF Spec

\* Every variable keeps its type; no status but one of the four is ever stored.
THEOREM TypeCorrect == Spec => []TypeOK
<1>1. Inv => TypeOK
  BY DEF Inv
<1> QED BY <1>1, Invariance, PTL

\* Whatever crashes, restarts and lost answers there are, an order's accrual is
\* added once at the most, and only for an order processed and stored as such.
THEOREM NoDoubleCredit == Spec => []CreditedAtMostOnce
<1>1. Inv => CreditedAtMostOnce
  <2> SUFFICES ASSUME Inv, NEW n \in Numbers
               PROVE /\ credited[n] <= 1
                     /\ credited[n] > 0 => status[n] = "PROCESSED" /\ remote[n] = "PROCESSED"
    BY DEF CreditedAtMostOnce
  <2>1. credited[n] \in Nat /\ inflight[n] \in Nat /\ inflight[n] + credited[n] <= 1
    BY DEF Inv, TypeOK, NumberInv
  <2>2. credited[n] <= 1
    BY <2>1
  <2>3. credited[n] > 0 => status[n] = "PROCESSED" /\ remote[n] = "PROCESSED"
    BY DEF Inv, NumberInv
  <2> QED BY <2>2, <2>3
<1> QED BY <1>1, Invariance, PTL

\* A number is accepted once, from its owner, and the codes tell owners apart.
THEOREM AcceptedOnce == Spec => []AnswersAgree
<1>1. Inv => AnswersAgree
  BY DEF Inv, AnswerInv, Inserted, AnswersAgree
<1> QED BY <1>1, Invariance, PTL

\* The poller never finds a number it is given enqueued already.
THEOREM NeverRefused == Spec => []Enqueueable
<1>1. Inv => Enqueueable
  BY DEF Inv, TypeOK, QueueInv, Enqueueable
<1> QED BY <1>1, Invariance, PTL

-----------------------------------------------------------------------------
(* What the database says of an order goes forward.                         *)

Forward(n) ==
  Stored(n) =>
    /\ owner'[n] = owner[n]
    /\ Rank(status[n]) <= Rank(status'[n])
    /\ status[n] \in Final => status'[n] = status[n]

LEMMA RankOrder ==
  /\ \A s \in Status : Rank(s) <= Rank(s)
  /\ \A s \in {"NEW", "PROCESSING"}, t \in Status \ {"NEW"} : Rank(s) <= Rank(t)
<1>1. /\ Rank("NEW") = 0 /\ Rank("PROCESSING") = 1
      /\ Rank("INVALID") = 2 /\ Rank("PROCESSED") = 2
  BY DEF Rank, Final
<1> QED BY <1>1 DEF Status

LEMMA UnchangedForward ==
  ASSUME Inv, UNCHANGED orderVars, NEW n \in Numbers
  PROVE  Forward(n)
<1>1. status[n] \in Status
  BY DEF Inv, TypeOK
<1> QED BY <1>1, RankOrder DEF Forward, orderVars

\* Only an insertion, which finds no row, and a listener write to the table.
LEMMA StepForward ==
  ASSUME Inv, Next, NEW n \in Numbers
  PROVE  Forward(n)
<1> USE Distinct
<1>1. ASSUME NEW r \in Requests, Insert(r) PROVE Forward(n)
  <2>1. CASE n = OrderOf[r]
    BY <1>1, <2>1 DEF Insert, Forward
  <2>2. CASE n # OrderOf[r]
    <3>1. owner'[n] = owner[n] /\ status'[n] = status[n] /\ status[n] \in Status
      BY <1>1, <2>2 DEF Insert, Inv, TypeOK
    <3> QED BY <3>1, RankOrder DEF Forward
  <2> QED BY <2>1, <2>2
<1>2. ASSUME NEW m \in Numbers, listener[m] = "updating", SetStatus(m), owner' = owner
      PROVE  Forward(n)
  <2>1. CASE n = m
    <3>1. status[n] \in {"NEW", "PROCESSING"} /\ status'[n] \in Status \ {"NEW"}
      BY <1>2, <2>1, SetStatusForward
    <3> QED BY <1>2, <3>1, RankOrder DEF Forward, Final
  <2>2. CASE n # m
    <3>1. status'[n] = status[n] /\ status[n] \in Status
      BY <1>2, <2>2, SetStatusForward DEF Inv, TypeOK
    <3> QED BY <1>2, <3>1, RankOrder DEF Forward
  <2> QED BY <2>1, <2>2
<1>3. ASSUME NEW r \in Requests, Upload(r) PROVE Forward(n)
  <2>1. Insert(r) \/ UNCHANGED orderVars
    BY <1>3 DEF Upload, GetOwner, GetOwnerFails, Add, AddFails, Queue, QueueFails
  <2> QED BY <1>1, <2>1, UnchangedForward
<1>4. ASSUME NEW m \in Numbers, Listener(m) \/ OnOrderProcessed(m) PROVE Forward(n)
  <2>1. \/ listener[m] = "updating" /\ SetStatus(m) /\ owner' = owner
        \/ UNCHANGED orderVars
    BY <1>4 DEF Listener, OnOrderProcessed, Take, Update, UpdateFails, Publish,
                StopListening, Credit, CreditFails, orderVars
  <2> QED BY <1>2, <2>1, UnchangedForward
<1>5. CASE Main \/ Poll
  <2>1. UNCHANGED orderVars
    BY <1>5 DEF Main, Start, Requeue, Serve, Unsubscribe, ClosePoller, CloseDB, Exit,
                Crash, LoseMemory, Poll
  <2> QED BY <2>1, UnchangedForward
<1> QED BY <1>3, <1>4, <1>5 DEF Next

\* A user's list loses no order, and shows no status that goes back or is not
\* the final one any more, although Update looks at nothing but the number.
THEOREM OnlyForward == Spec => StatusForward
<1> DEFINE Kept == \A u \in Users : \A e \in List(u) :
                     \E f \in List(u)' :
                       /\ f.number = e.number
                       /\ Rank(e.status) <= Rank(f.status)
                       /\ e.status \in Final => f.status = e.status
<1>1. Inv /\ [Next]_vars => [Kept]_vars
  <2> SUFFICES ASSUME Inv, Next, NEW u \in Users, NEW e \in List(u)
               PROVE \E f \in List(u)' :
                       /\ f.number = e.number
                       /\ Rank(e.status) <= Rank(f.status)
                       /\ e.status \in Final => f.status = e.status
    OBVIOUS
  <2>1. PICK n \in Numbers : owner[n] = u /\ e = [number |-> n, status |-> status[n]]
    BY DEF List
  <2>2. Forward(n) /\ Stored(n)
    BY <2>1, StepForward, Distinct DEF Stored
  <2>3. [number |-> n, status |-> status'[n]] \in List(u)'
    BY <2>1, <2>2 DEF Forward, List
  <2> QED BY <2>1, <2>2, <2>3 DEF Forward
<1> QED BY <1>1, Invariance, PTL DEF Spec, StatusForward

-----------------------------------------------------------------------------
(* No order is forgotten, as long as no database call has failed.           *)

\* Somebody will see to it that the order gets a final status.
Followed(n) ==
  \/ n \in unprocessed
  \/ listener[n] # "off"
  \/ \E r \in Requests : OrderOf[r] = n /\ req[r] = "queueing"

\* While the program loads and serves, an order with no final status is followed,
\* and a feed that has ended has left its result somewhere: in the channel, with
\* the listener, or in the table.
FollowInv ==
  /\ phase \in {"down", "loading", "serving"} => ~stopped
  /\ phase \in {"loading", "serving"} /\ faults = 0 =>
       \A n \in Numbers :
         /\ Stored(n) /\ status[n] \notin Final => Followed(n)
         /\ feed[n] \in {"ended", "closed"} =>
              Decided(chan[n]) \/ Decided(got[n]) \/ status[n] \in Final

LEMMA FollowInit == Init => FollowInv
  BY DEF Init, Poller!Init, FollowInv

\* Steps that touch neither orders, feeds nor who follows.
LEMMA FollowSame ==
  ASSUME FollowInv, faults' = 0 => faults = 0,
         UNCHANGED <<phase, stopped, owner, status, feed, chan, got, listener,
                     req, unprocessed>>
  PROVE  FollowInv'
  BY DEF FollowInv, Followed, Stored

LEMMA FollowUpload ==
  ASSUME Inv, FollowInv, NEW r \in Requests, Upload(r)
  PROVE  FollowInv'
<1> USE Distinct DEF pollerVars, listenerVars, creditVars, mainVars, orderVars, Answer
<1>1. faults' = 0 => faults = 0 /\ faults \in Nat
  BY DEF Inv, TypeOK, Upload, GetOwner, GetOwnerFails, Add, AddFails, Queue, QueueFails,
         DBFails, AnswerLost
<1>2. CASE GetOwner(r) \/ GetOwnerFails(r)
  BY <1>1, <1>2 DEF Inv, TypeOK, GetOwner, GetOwnerFails, FollowInv, Followed, Stored
<1>3. CASE Add(r)
  BY <1>1, <1>3 DEF Inv, TypeOK, NumberInv, Add, Insert, FollowInv, Followed, Stored
<1>4. CASE AddFails(r)
  <2>1. phase # "dbClosed" => faults' # 0
    BY <1>4, ProcessingAssumption DEF Inv, TypeOK, AddFails, DBFails, AnswerLost, DBUp
  <2> QED BY <1>4, <2>1 DEF AddFails, FollowInv
<1>5. CASE Queue(r)
  BY <1>1, <1>5 DEF Inv, TypeOK, Poller!TypeOK, Queue, Listen, Poller!Accept, FollowInv,
                    Followed, Stored
<1>6. CASE QueueFails(r)
  <2>1. phase \notin {"loading", "serving"}
    BY <1>6 DEF QueueFails, FollowInv, Inv, QueueInv
  <2> QED BY <1>6, <2>1 DEF QueueFails, FollowInv, Up
<1> QED BY <1>2, <1>3, <1>4, <1>5, <1>6 DEF Upload

\* A listener goes off only when its feed has ended and its result is written.
LEMMA FollowListener ==
  ASSUME Inv, FollowInv, NEW n \in Numbers, Listener(n)
  PROVE  FollowInv'
<1> USE Distinct DEF pollerVars, requestVars, creditVars, mainVars, orderVars
<1>1. faults \in Nat
  BY DEF Inv, TypeOK
<1>2. CASE Take(n)
  BY <1>2 DEF Inv, TypeOK, Poller!TypeOK, NumberInv, Take, Poller!Receive, FollowInv,
              Followed, Stored, Decided
<1>3. CASE Update(n)
  <2>1. /\ status' = [status EXCEPT ![n] = status'[n]]
        /\ Decided(got[n]) => status'[n] \in Final
        /\ \A m \in Numbers : m # n => status'[m] = status[m]
        /\ status[n] \notin Final
    BY <1>3, SetStatusForward DEF Inv, TypeOK, NumberInv, Update, SetStatus, Decided, Final
  <2>2. listener'[n] # "off" /\ \A m \in Numbers : m # n =>
          listener'[m] = listener[m] /\ got'[m] = got[m]
    BY <1>3 DEF Inv, TypeOK, Update
  <2> QED BY <1>3, <2>1, <2>2 DEF Update, FollowInv, Followed, Stored
<1>4. CASE UpdateFails(n)
  <2>1. phase # "dbClosed" => faults' # 0
    BY <1>1, <1>4 DEF UpdateFails, DBFails, AnswerLost, DBUp
  <2> QED BY <1>4, <2>1 DEF UpdateFails, FollowInv
<1>5. CASE Publish(n)
  BY <1>5 DEF Inv, TypeOK, Publish, FollowInv, Followed, Stored
<1>6. CASE StopListening(n)
  <2>1. got[n] = Nothing /\ chan[n] = Nothing
    BY <1>6 DEF Inv, NumberInv, StopListening
  <2>2. phase \in {"loading", "serving"} /\ faults = 0 => status[n] \in Final
    BY <1>6, <2>1 DEF StopListening, FollowInv, Decided, Final, Status
  <2> QED BY <1>6, <2>2 DEF Inv, TypeOK, StopListening, FollowInv, Followed, Stored
<1> QED BY <1>2, <1>3, <1>4, <1>5, <1>6 DEF Listener

\* A start takes every order that is stored and not final.
LEMMA FollowMain ==
  ASSUME Inv, FollowInv, Main
  PROVE  FollowInv'
<1> USE Distinct DEF pollerVars, orderVars, requestVars, listenerVars, creditVars
<1>1. CASE Start
  <2>1. \A n \in Numbers : feed[n] = "idle" /\ status[n] \in Status
    BY <1>1 DEF Start, Inv, TypeOK, QueueInv
  <2>2. \A n \in Numbers : Stored(n) /\ status[n] \notin Final => n \in unprocessed'
    BY <1>1, <2>1 DEF Start, Unprocessed, Status, Final
  <2> QED BY <1>1, <2>1, <2>2 DEF Start, FollowInv, Followed, Stored
<1>2. ASSUME NEW n \in Numbers, Requeue(n) PROVE FollowInv'
  BY <1>2 DEF Requeue, Listen, Poller!Accept, Inv, TypeOK, Poller!TypeOK, FollowInv,
              Followed, Stored
<1>3. CASE Serve
  BY <1>3 DEF Serve, FollowInv, Followed, Stored
<1>4. CASE Unsubscribe \/ ClosePoller \/ CloseDB
  BY <1>4 DEF Unsubscribe, ClosePoller, CloseDB, mainVars, FollowInv
<1>5. CASE Exit \/ Crash
  BY <1>5 DEF Exit, Crash, LoseMemory, FollowInv
<1> QED BY <1>1, <1>2, <1>3, <1>4, <1>5 DEF Main

\* A feed ends with the result in its channel.
LEMMA FollowPoll ==
  ASSUME Inv, FollowInv, Poll
  PROVE  FollowInv'
<1> USE Distinct, SameStatuses DEF orderVars, requestVars, listenerVars, creditVars, mainVars
<1>1. PICK n \in Numbers :
        \/ Up /\ \E s \in Status \ Final : Poller!Emit(n, s)
        \/ Up /\ \E s \in Final \cup {"ERROR"} : Poller!EmitLast(n, s)
        \/ Poller!CloseFeed(n)
        \/ Poller!Advance(n)
  BY DEF Poll
<1>2. UNCHANGED <<orderVars, requestVars, listenerVars, creditVars, mainVars, faults>>
  BY DEF Poll
<1>3. chan \in [Numbers -> Results \cup {Nothing}]
      /\ feed \in [Numbers -> {"idle", "open", "ended", "closed"}]
  BY PollerTypes DEF Inv, TypeOK
<1>4. ASSUME NEW s \in Status \ Final, Poller!Emit(n, s) PROVE FollowInv'
  BY <1>2, <1>3, <1>4 DEF Poller!Emit, FollowInv, Followed, Stored, Decided
<1>5. ASSUME NEW s \in Final \cup {"ERROR"}, Poller!EmitLast(n, s) PROVE FollowInv'
  BY <1>2, <1>3, <1>5 DEF Poller!EmitLast, FollowInv, Followed, Stored, Decided
<1>6. CASE Poller!CloseFeed(n)
  BY <1>2, <1>3, <1>6 DEF Poller!CloseFeed, FollowInv, Followed, Stored
<1>7. CASE Poller!Advance(n)
  BY <1>2, <1>7, FollowSame DEF Poller!Advance
<1> QED BY <1>1, <1>4, <1>5, <1>6, <1>7

LEMMA FollowNext == Inv /\ FollowInv /\ [Next]_vars => FollowInv'
<1> SUFFICES ASSUME Inv, FollowInv, [Next]_vars PROVE FollowInv'
  OBVIOUS
<1>1. ASSUME NEW n \in Numbers, OnOrderProcessed(n) PROVE FollowInv'
  <2>1. faults' = 0 => faults = 0
    BY <1>1 DEF OnOrderProcessed, Credit, CreditFails, DBFails, AnswerLost, Inv, TypeOK
  <2> QED BY <1>1, <2>1, FollowSame
          DEF OnOrderProcessed, Credit, CreditFails, pollerVars, orderVars, requestVars,
              listenerVars, mainVars
<1>2. CASE UNCHANGED vars
  BY <1>2, FollowSame DEF vars, pollerVars, orderVars, requestVars, listenerVars, mainVars
<1> QED BY <1>1, <1>2, FollowUpload, FollowListener, FollowMain, FollowPoll DEF Next

\* For any number of restarts, and until a database call fails: while the program
\* serves, every order that is stored and not final has a listener, or its
\* upload is about to start one.
THEOREM NoneForgotten == Spec => []OrderFollowed
<1>1. Inv /\ FollowInv => OrderFollowed
  BY DEF Inv, QueueInv, FollowInv, Followed, OrderFollowed
<1>2. Inv /\ FollowInv /\ [Next]_vars => Inv' /\ FollowInv'
  BY NextInv, FollowNext
<1> QED BY <1>1, <1>2, InitInv, FollowInit, PTL DEF Spec
-----------------------------------------------------------------------------
(* In the first run no credit is lost, as long as no call has failed.       *)

\* The credit of a processed order is made, or will be by an event.
OnItsWay(n) == credited[n] = 1 \/ inflight[n] = 1 \/ listener[n] = "publishing"

\* Until the first run serves no order is stored; then each that is processed has
\* its credit on the way.
FirstRunInv ==
  /\ Up => runs >= 1
  /\ (phase = "down" /\ runs = 0) \/ (phase = "loading" /\ runs = 1) =>
       \A n \in Numbers : ~Stored(n)
  /\ phase = "serving" /\ runs <= 1 /\ faults = 0 =>
       \A n \in Numbers : status[n] = "PROCESSED" => OnItsWay(n)

LEMMA FirstRunInit == Init => FirstRunInv
  BY DEF Init, FirstRunInv, Stored, Up

LEMMA FirstRunUpload ==
  ASSUME Inv, FirstRunInv, NEW r \in Requests, Upload(r)
  PROVE  FirstRunInv'
<1> USE Distinct DEF pollerVars, listenerVars, creditVars, mainVars, orderVars, Answer
<1>1. faults' = 0 => faults = 0
  BY DEF Inv, TypeOK, Upload, GetOwner, GetOwnerFails, Add, AddFails, Queue, QueueFails,
         DBFails, AnswerLost
<1>2. phase \notin {"down", "loading"} /\ UNCHANGED <<phase, runs, inflight, credited>>
  BY DEF Inv, QueueInv, Upload, GetOwner, GetOwnerFails, Add, AddFails, Queue, QueueFails
<1>3. \A n \in Numbers : status'[n] = "PROCESSED" => status[n] = "PROCESSED"
  BY DEF Inv, TypeOK, Upload, GetOwner, GetOwnerFails, Add, AddFails, Insert, Queue, QueueFails
<1>4. \A n \in Numbers : listener[n] = "publishing" => listener'[n] = "publishing"
  BY DEF Inv, TypeOK, NumberInv, QueueInv, Upload, GetOwner, GetOwnerFails, Add, AddFails,
         Queue, Listen, QueueFails
<1> QED BY <1>1, <1>2, <1>3, <1>4 DEF FirstRunInv, OnItsWay, Up

\* What is written as processed is published, to a subscriber, and added.
LEMMA FirstRunNumber ==
  ASSUME Inv, FirstRunInv, NEW n \in Numbers, Listener(n) \/ OnOrderProcessed(n)
  PROVE  FirstRunInv'
<1> USE Distinct DEF pollerVars, requestVars, mainVars, orderVars
<1>1. UNCHANGED <<phase, runs, owner>>
  BY DEF Listener, OnOrderProcessed, Take, Update, UpdateFails, Publish, StopListening,
         Credit, CreditFails
<1>2. phase = "serving" => (faults' = 0 => faults' = faults)
  BY DEF Inv, TypeOK, Listener, OnOrderProcessed, Take, Update, UpdateFails, Publish,
         StopListening, Credit, CreditFails, DBFails, AnswerLost, DBUp
<1>3. \A m \in Numbers : m # n => status'[m] = status[m] /\ (OnItsWay(m) => OnItsWay(m)')
  <2>1. \A m \in Numbers : m # n => status'[m] = status[m]
    BY SetStatusForward DEF Listener, OnOrderProcessed, Take, Update, UpdateFails, Publish,
       StopListening, Credit, CreditFails
  <2>2. \A m \in Numbers : m # n => /\ listener'[m] = listener[m] /\ inflight'[m] = inflight[m]
                                    /\ credited'[m] = credited[m]
    BY DEF Inv, TypeOK, Listener, OnOrderProcessed, Take, Update, UpdateFails, Publish,
       StopListening, Credit, CreditFails, creditVars, listenerVars
  <2> QED BY <2>1, <2>2 DEF OnItsWay
<1>4. ASSUME phase = "serving", runs <= 1, faults = 0, faults' = 0, status'[n] = "PROCESSED"
      PROVE  OnItsWay(n)'
  <2>1. status[n] = "PROCESSED" => OnItsWay(n)
    BY <1>4 DEF FirstRunInv
  <2>2. CASE Take(n) \/ StopListening(n)
    BY <1>4, <2>1, <2>2 DEF Take, StopListening, creditVars, OnItsWay
  <2>3. CASE Update(n)
    <3>1. got[n] = "PROCESSED"
      BY <1>4, <2>3, SetStatusForward DEF Update
    <3> QED BY <2>3, <3>1 DEF Inv, TypeOK, Update, ToPublish, OnItsWay
  <2>4. CASE UpdateFails(n) \/ CreditFails(n)
    BY <1>4, <2>4 DEF Inv, TypeOK, UpdateFails, CreditFails, DBFails, AnswerLost, DBUp
  <2>5. CASE Publish(n)
    <3>1. inflight[n] = 0 /\ inflight \in [Numbers -> Nat] /\ 0 + 1 = 1
      BY <2>5 DEF Inv, TypeOK, NumberInv, Publish
    <3> QED BY <1>4, <2>5, <3>1 DEF Publish, OnItsWay
  <2>6. CASE Credit(n)
    <3>1. credited[n] = 0 /\ credited \in [Numbers -> Nat] /\ 0 + 1 = 1
      <4>1. inflight[n] \in Nat /\ credited[n] \in Nat /\ inflight[n] + credited[n] <= 1
            /\ inflight[n] > 0
        BY <2>6 DEF Inv, TypeOK, NumberInv, Credit
      <4>2. credited[n] = 0
        BY <4>1
      <4> QED BY <4>2 DEF Inv, TypeOK
    <3> QED BY <2>6, <3>1 DEF Credit, OnItsWay
  <2> QED BY <2>2, <2>3, <2>4, <2>5, <2>6 DEF Listener, OnOrderProcessed
<1>5. ASSUME phase' = "serving", runs' <= 1, faults' = 0, NEW m \in Numbers,
             status'[m] = "PROCESSED"
      PROVE  OnItsWay(m)'
  <2>1. phase = "serving" /\ runs <= 1 /\ faults = 0
    BY <1>1, <1>2, <1>5
  <2>2. CASE m = n
    BY <1>4, <1>5, <2>1, <2>2
  <2>3. CASE m # n
    BY <1>3, <1>5, <2>1, <2>3 DEF FirstRunInv
  <2> QED BY <2>2, <2>3
<1>6. /\ (Up => runs >= 1)'
      /\ (phase' = "down" /\ runs' = 0) \/ (phase' = "loading" /\ runs' = 1) =>
           \A m \in Numbers : ~Stored(m)'
  BY <1>1 DEF FirstRunInv, Stored, Up
<1> QED BY <1>5, <1>6 DEF FirstRunInv

LEMMA FirstRunMain ==
  ASSUME Inv, FirstRunInv, Main
  PROVE  FirstRunInv'
<1> USE Distinct DEF pollerVars, orderVars, requestVars, listenerVars, creditVars
<1>1. CASE Start
  <2>1. runs \in Nat /\ runs' = runs + 1 /\ phase = "down" /\ phase' = "loading"
        /\ owner' = owner
    BY <1>1 DEF Start, Inv, TypeOK
  <2>2. runs' >= 1 /\ (runs' = 1 => runs = 0)
    BY <2>1
  <2> QED BY <2>1, <2>2 DEF FirstRunInv, Stored, Up
<1>2. ASSUME NEW n \in Numbers, Requeue(n) PROVE FirstRunInv'
  BY <1>2 DEF Requeue, FirstRunInv, Stored, Up
<1>3. CASE Serve
  <2>1. runs \in Nat /\ phase = "loading" /\ phase' = "serving"
        /\ UNCHANGED <<runs, owner, status, listener, inflight, credited, faults>>
    BY <1>3 DEF Serve, Inv, TypeOK
  <2>2. runs <= 1 => \A n \in Numbers : status[n] = "NEW"
    BY <2>1 DEF FirstRunInv, Up, Inv, NumberInv
  <2> QED BY <2>1, <2>2 DEF FirstRunInv, Up
<1>4. CASE Unsubscribe \/ ClosePoller \/ CloseDB
  BY <1>4 DEF Unsubscribe, ClosePoller, CloseDB, mainVars, FirstRunInv, Up
<1>5. CASE Exit \/ Crash
  <2>1. Up /\ phase' = "down" /\ runs' = runs /\ runs \in Nat
    BY <1>5 DEF Exit, Crash, LoseMemory, Up, Inv, TypeOK
  <2> QED BY <2>1 DEF FirstRunInv, Up
<1> QED BY <1>1, <1>2, <1>3, <1>4, <1>5 DEF Main

LEMMA FirstRunNext == Inv /\ FirstRunInv /\ [Next]_vars => FirstRunInv'
<1> SUFFICES ASSUME Inv, FirstRunInv, [Next]_vars PROVE FirstRunInv'
  OBVIOUS
<1>1. CASE Poll \/ UNCHANGED vars
  BY <1>1 DEF Poll, vars, orderVars, requestVars, listenerVars, creditVars, mainVars,
              FirstRunInv, OnItsWay, Stored, Up
<1> QED BY <1>1, FirstRunUpload, FirstRunNumber, FirstRunMain DEF Next

\* In a program never stopped, and until a database call fails, a processed
\* order is credited or its event is on its way: only a stop or a failing call can
\* lose a credit.
THEOREM NoCreditLost == Spec => []CreditOnItsWay
<1>1. FirstRunInv => CreditOnItsWay
  BY DEF FirstRunInv, OnItsWay, CreditOnItsWay
<1> QED BY <1>1, Invariance, FirstRunInit, FirstRunNext, PTL DEF Spec
-----------------------------------------------------------------------------
(* What makes an order INVALID that the accrual service has not refused.    *)

\* The poller has given no order up: no result in a channel is an error.
NoneGivenUp == \A n \in Numbers : chan[n] # "ERROR"

\* INVALID, wherever it is on its way to the table, is what the accrual service says.
RefusedInv ==
  \A n \in Numbers :
    /\ got[n] # "ERROR"
    /\ "INVALID" \in {chan[n], got[n], status[n]} => remote[n] = "INVALID"

LEMMA RefusedInit == Init => RefusedInv
  BY Distinct DEF Init, Poller!Init, RefusedInv, Status

LEMMA RefusedPoll ==
  ASSUME Inv, RefusedInv, Poll
  PROVE  RefusedInv'
<1> USE Distinct DEF orderVars, listenerVars
<1>1. /\ chan \in [Numbers -> Results \cup {Nothing}] /\ remote \in [Numbers -> AccrualStatus]
      /\ UNCHANGED <<got, status>>
  BY PollerTypes DEF Inv, TypeOK, Poll
<1>2. PICK n \in Numbers :
        \/ \E s \in Status \ Final : Poller!Emit(n, s)
        \/ \E s \in Final \cup {"ERROR"} : Poller!EmitLast(n, s)
        \/ Poller!CloseFeed(n)
        \/ Poller!Advance(n)
  BY DEF Poll
<1>3. ASSUME NEW s \in Status \ Final, Poller!Emit(n, s) PROVE RefusedInv'
  BY <1>1, <1>3 DEF Poller!Emit, RefusedInv, Final
<1>4. ASSUME NEW s \in Final \cup {"ERROR"}, Poller!EmitLast(n, s) PROVE RefusedInv'
  <2>1. s = "INVALID" => remote[n] = "INVALID"
    <3>1. s = "INVALID" => s = Poller!StatusOf(remote[n])
      BY <1>4, SameStatuses DEF Poller!EmitLast, Final
    <3> QED BY <3>1 DEF Poller!StatusOf
  <2> QED BY <1>1, <1>4, <2>1 DEF Poller!EmitLast, RefusedInv
<1>5. CASE Poller!CloseFeed(n)
  BY <1>1, <1>5 DEF Poller!CloseFeed, RefusedInv
<1>6. CASE Poller!Advance(n)
  <2>1. PICK a \in Poller!LaterStatuses(remote[n]) : remote' = [remote EXCEPT ![n] = a]
    BY <1>6 DEF Poller!Advance
  <2>2. remote[n] # "INVALID"
    BY <2>1 DEF Poller!LaterStatuses, Poller!Final
  <2> QED BY <1>1, <1>6, <2>1, <2>2 DEF Poller!Advance, RefusedInv
<1> QED BY <1>2, <1>3, <1>4, <1>5, <1>6

LEMMA RefusedNext == Inv /\ RefusedInv /\ NoneGivenUp /\ [Next]_vars => RefusedInv'
<1> SUFFICES ASSUME Inv, RefusedInv, NoneGivenUp, [Next]_vars PROVE RefusedInv'
  OBVIOUS
<1> USE Distinct DEF pollerVars, orderVars, requestVars, listenerVars, creditVars, mainVars
<1>1. Nothing # "INVALID" /\ Nothing # "ERROR"
  BY DEF Status
<1>2. ASSUME NEW r \in Requests, Upload(r) PROVE RefusedInv'
  <2>1. UNCHANGED <<chan, got, remote>>
    BY <1>2 DEF Upload, GetOwner, GetOwnerFails, Add, AddFails, Queue, Poller!Accept, QueueFails
  <2>2. \A n \in Numbers : status'[n] = "INVALID" => status[n] = "INVALID"
    BY <1>2 DEF Inv, TypeOK, Upload, GetOwner, GetOwnerFails, Add, AddFails, Insert, Queue,
                QueueFails
  <2> QED BY <2>1, <2>2 DEF RefusedInv
<1>3. ASSUME NEW n \in Numbers, Listener(n) \/ OnOrderProcessed(n) PROVE RefusedInv'
  <2>1. CASE Take(n)
    BY <1>1, <2>1 DEF Take, Poller!Receive, Inv, TypeOK, Poller!TypeOK, NoneGivenUp, RefusedInv
  <2>2. CASE Update(n) \/ UpdateFails(n)
    <3>1. UNCHANGED <<chan, remote>> /\ got' = [got EXCEPT ![n] = Nothing]
      BY <2>2 DEF Update, UpdateFails
    <3>2. \A m \in Numbers : status'[m] = status[m] \/ (m = n /\ status'[n] = got[n])
      BY <2>2, SetStatusForward DEF Update, UpdateFails, RefusedInv
    <3> QED BY <1>1, <3>1, <3>2 DEF Inv, TypeOK, RefusedInv
  <2>3. CASE Publish(n) \/ StopListening(n) \/ OnOrderProcessed(n)
    BY <2>3 DEF Publish, StopListening, OnOrderProcessed, Credit, CreditFails, RefusedInv
  <2> QED BY <1>3, <2>1, <2>2, <2>3 DEF Listener
<1>4. CASE Main
  <2>1. /\ UNCHANGED <<status, remote>>
        /\ \A n \in Numbers : /\ chan'[n] \in {chan[n], Nothing}
                              /\ got'[n] \in {got[n], Nothing}
    BY <1>4 DEF Main, Start, Requeue, Poller!Accept, Serve, Unsubscribe, ClosePoller,
                Poller!Stop, Poller!Abandon, CloseDB, Exit, Crash, LoseMemory
  <2> QED BY <1>1, <2>1 DEF RefusedInv
<1>5. CASE UNCHANGED vars
  BY <1>5 DEF vars, RefusedInv
<1> QED BY <1>2, <1>3, <1>4, <1>5, RefusedPoll DEF Next

\* INVALID without the accrual service's refusal comes from the poller's giving an
\* order up and from nothing else: while no channel carries an error, INVALID
\* means refused, whatever restarts, failing calls and repeated polls there are.
THEOREM InvalidOnlyByError == Spec /\ []NoneGivenUp => []InvalidMeansRefused
<1>1. RefusedInv => InvalidMeansRefused
  BY DEF RefusedInv, InvalidMeansRefused
<1> QED BY <1>1, RefusedInit, RefusedNext, Invariance, PTL DEF Spec
=============================================================================
