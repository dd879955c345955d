-------------------------- MODULE OrderProcessing --------------------------
(***************************************************************************)
(* The life of an order: uploads (internal/service/order/service.go), the   *)
(* orders table, the listeners of the poller's feeds, the event bus and the *)
(* balance service's credit, under the program's own life cycle             *)
(* (cmd/gophermart/main.go): start, with the orders left unprocessed,       *)
(* shutdown, crash and restart.  The poller is what AccrualFeed promises,   *)
(* with at most one call of Enqueue per number and run of the program,      *)
(* which Enqueueable shows to be enough.  Only orders, requests and credits *)
(* in the database survive a restart.  What it all comes to for an order is *)
(* OrderLife, which this module is shown to implement.                      *)
(***************************************************************************)
EXTENDS OrderStatus

CONSTANTS
  Numbers,    \* order numbers, all of them valid
  Users,      \* the users
  Requests,   \* the upload requests made over all runs of the program
  UserOf,     \* who makes each request
  OrderOf,    \* and for which number
  NoOne,      \* the owner of an order that is not stored
  Nothing,    \* the value of an empty channel
  MaxRuns,    \* bound: how often the program is started
  MaxFaults   \* bound: how many database calls fail

ASSUME ProcessingAssumption ==
  /\ UserOf \in [Requests -> Users]
  /\ OrderOf \in [Requests -> Numbers]
  /\ NoOne \notin Users
  /\ Nothing \notin Status \cup {"ERROR"}
  /\ MaxRuns \in Nat
  /\ MaxFaults \in Nat

VARIABLES
  remote, feed, known, chan, stopped,   \* the poller: see AccrualFeed
  owner,      \* orders.user_id, NoOne where there is no row
  status,     \* orders.status
  req,        \* where each upload request is
  answer,     \* its response code
  listener,   \* where each order's listenAccrualResults goroutine is
  got,        \* the result it handles
  inflight,   \* onOrderProcessed goroutines started by the bus
  credited,   \* how often the order's accrual was added to a balance
  phase,      \* what main is doing
  unprocessed,\* the orders initOrderService has still to enqueue
  runs,       \* how often the program was started
  faults      \* how many database calls failed

pollerVars   == <<remote, feed, known, chan, stopped>>
orderVars    == <<owner, status>>
requestVars  == <<req, answer>>
listenerVars == <<listener, got>>
creditVars   == <<inflight, credited>>
mainVars     == <<phase, unprocessed, runs>>
vars == <<pollerVars, orderVars, requestVars, listenerVars, creditVars,
          mainVars, faults>>

Poller == INSTANCE AccrualFeed
            WITH Tasks <- Numbers, NumberOf <- [n \in Numbers |-> n]

Life == INSTANCE OrderLife

Results == Status \cup {"ERROR"}

Phases == {"down", "loading", "serving", "unsubscribed", "dbClosed"}

TypeOK ==
  /\ Poller!TypeOK
  /\ owner \in [Numbers -> Users \cup {NoOne}]
  /\ status \in [Numbers -> Status]
  /\ req \in [Requests -> {"idle", "adding", "queueing", "answered", "broken"}]
  /\ answer \in [Requests -> {"none", "200", "202", "409", "500"}]
  /\ listener \in [Numbers -> {"off", "receiving", "updating", "publishing"}]
  /\ got \in [Numbers -> Results \cup {Nothing}]
  /\ inflight \in [Numbers -> Nat]
  /\ credited \in [Numbers -> Nat]
  /\ phase \in Phases
  /\ unprocessed \subseteq Numbers
  /\ runs \in 0 .. MaxRuns
  /\ faults \in 0 .. MaxFaults

Init ==
  /\ Poller!Init
  /\ owner = [n \in Numbers |-> NoOne]
  /\ status = [n \in Numbers |-> "NEW"]
  /\ req = [r \in Requests |-> "idle"]
  /\ answer = [r \in Requests |-> "none"]
  /\ listener = [n \in Numbers |-> "off"]
  /\ got = [n \in Numbers |-> Nothing]
  /\ inflight = [n \in Numbers |-> 0]
  /\ credited = [n \in Numbers |-> 0]
  /\ phase = "down"
  /\ unprocessed = {}
  /\ runs = 0
  /\ faults = 0

-----------------------------------------------------------------------------
(* The database.  A call may fail, before or after it took effect; once     *)
(* main has closed the connections every call fails.                        *)

DBUp == phase # "dbClosed"

\* A call that fails without effect.
DBFails ==
  IF DBUp THEN faults < MaxFaults /\ faults' = faults + 1 ELSE UNCHANGED faults

\* A call that takes effect and whose answer is lost.
AnswerLost == DBUp /\ faults < MaxFaults /\ faults' = faults + 1

Stored(n) == owner[n] # NoOne

Up == phase # "down"

\* What GET /api/user/orders shows a user, in no order: the query has none.
List(u) == {[number |-> n, status |-> status[n]] : n \in {m \in Numbers : owner[m] = u}}

-----------------------------------------------------------------------------
(* Upload.                                                                  *)

Answer(r, code) ==
  /\ req' = [req EXCEPT ![r] = "answered"]
  /\ answer' = [answer EXCEPT ![r] = code]

\* The request arrives and GetOwner finds the order or not.
GetOwner(r) ==
  LET n == OrderOf[r] IN
  /\ req[r] = "idle"
  /\ phase = "serving"
  /\ IF Stored(n)
     THEN Answer(r, IF owner[n] = UserOf[r] THEN "200" ELSE "409")
     ELSE req' = [req EXCEPT ![r] = "adding"] /\ UNCHANGED answer
  /\ UNCHANGED <<pollerVars, orderVars, listenerVars, creditVars, mainVars, faults>>

GetOwnerFails(r) ==
  /\ req[r] = "idle"
  /\ phase = "serving"
  /\ DBFails
  /\ Answer(r, "500")
  /\ UNCHANGED <<pollerVars, orderVars, listenerVars, creditVars, mainVars>>

\* Mutant: no primary key, the second insert wins.
InsertAgain(r) ==
  /\ owner' = [owner EXCEPT ![OrderOf[r]] = UserOf[r]]
  /\ status' = [status EXCEPT ![OrderOf[r]] = "NEW"]

Insert(r) ==
  /\ ~Stored(OrderOf[r])
  /\ owner' = [owner EXCEPT ![OrderOf[r]] = UserOf[r]]
  /\ status' = [status EXCEPT ![OrderOf[r]] = "NEW"]

\* repo.Add stores the order, unless somebody has since GetOwner: the primary
\* key makes the second INSERT fail.
Add(r) ==
  /\ req[r] = "adding"
  /\ Up /\ DBUp
  /\ \/ Insert(r) /\ req' = [req EXCEPT ![r] = "queueing"] /\ UNCHANGED answer
     \/ Stored(OrderOf[r]) /\ Answer(r, "500") /\ UNCHANGED orderVars
  /\ UNCHANGED <<pollerVars, listenerVars, creditVars, mainVars, faults>>

AddFails(r) ==
  /\ req[r] = "adding"
  /\ Up
  /\ \/ DBFails /\ UNCHANGED orderVars
     \/ AnswerLost /\ Insert(r)
  /\ Answer(r, "500")
  /\ UNCHANGED <<pollerVars, listenerVars, creditVars, mainVars>>

\* AddToProcessQueue: Enqueue, and a goroutine that listens to the feed.
Listen(n) == listener' = [listener EXCEPT ![n] = "receiving"]

Queue(r) ==
  /\ req[r] = "queueing"
  /\ Up
  /\ Poller!Accept(OrderOf[r])
  /\ Listen(OrderOf[r])
  /\ Answer(r, "202")
  /\ UNCHANGED <<orderVars, got, creditVars, mainVars, faults>>

\* Enqueue refuses: the poller is closed, or has a task for the number.
QueueFails(r) ==
  /\ req[r] = "queueing"
  /\ Up
  /\ stopped \/ feed[OrderOf[r]] # "idle"
  /\ Answer(r, "500")
  /\ UNCHANGED <<pollerVars, orderVars, listenerVars, creditVars, mainVars, faults>>

-----------------------------------------------------------------------------
(* listenAccrualResults, the bus and onOrderProcessed.                      *)

Take(n) ==
  /\ listener[n] = "receiving"
  /\ Poller!Receive(n)
  /\ got' = [got EXCEPT ![n] = chan[n]]
  /\ listener' = [listener EXCEPT ![n] = "updating"]
  /\ UNCHANGED <<orderVars, requestVars, creditVars, mainVars, faults>>

\* Mutant: the error is not looked at.
SetStatusUnchecked(n) == status' = [status EXCEPT ![n] = got[n]]

\* An error from the poller marks the order as invalid.
SetStatus(n) ==
  status' = [status EXCEPT ![n] = IF got[n] = "ERROR" THEN "INVALID" ELSE got[n]]

\* Mutant: the status stored so far is looked at, not the new one.
ToPublishStale(n) == status[n] = "PROCESSED"

\* Mutant: every final status is published.
ToPublishFinal(n) == got[n] \in Final

ToPublish(n) == got[n] = "PROCESSED"

Update(n) ==
  /\ listener[n] = "updating"
  /\ DBUp
  /\ SetStatus(n)
  /\ listener' = [listener EXCEPT ![n] =
                    IF ToPublish(n) THEN "publishing" ELSE "receiving"]
  /\ got' = [got EXCEPT ![n] = Nothing]
  /\ UNCHANGED <<pollerVars, owner, requestVars, creditVars, mainVars, faults>>

\* The error is logged and the listener goes on: the result is lost.
UpdateFails(n) ==
  /\ listener[n] = "updating"
  /\ \/ DBFails /\ UNCHANGED status
     \/ AnswerLost /\ SetStatus(n)
  /\ listener' = [listener EXCEPT ![n] = "receiving"]
  /\ got' = [got EXCEPT ![n] = Nothing]
  /\ UNCHANGED <<pollerVars, owner, requestVars, creditVars, mainVars>>

\* event.Publish starts a goroutine for the balance service, which is
\* subscribed from NewService to Close; otherwise nobody hears the event.
Publish(n) ==
  /\ listener[n] = "publishing"
  /\ inflight' = IF phase = "serving" THEN [inflight EXCEPT ![n] = @ + 1] ELSE inflight
  /\ listener' = [listener EXCEPT ![n] = "receiving"]
  /\ UNCHANGED <<pollerVars, orderVars, requestVars, got, credited, mainVars, faults>>

\* The range over the channel ends.
StopListening(n) ==
  /\ listener[n] = "receiving"
  /\ feed[n] = "closed"
  /\ chan[n] = Nothing
  /\ listener' = [listener EXCEPT ![n] = "off"]
  /\ UNCHANGED <<pollerVars, orderVars, requestVars, got, creditVars, mainVars, faults>>

\* onOrderProcessed: Increase.
Credit(n) ==
  /\ inflight[n] > 0
  /\ DBUp
  /\ inflight' = [inflight EXCEPT ![n] = @ - 1]
  /\ credited' = [credited EXCEPT ![n] = @ + 1]
  /\ UNCHANGED <<pollerVars, orderVars, requestVars, listenerVars, mainVars, faults>>

\* Its error is only logged.
CreditFails(n) ==
  /\ inflight[n] > 0
  /\ \/ DBFails /\ UNCHANGED credited
     \/ AnswerLost /\ credited' = [credited EXCEPT ![n] = @ + 1]
  /\ inflight' = [inflight EXCEPT ![n] = @ - 1]
  /\ UNCHANGED <<pollerVars, orderVars, requestVars, listenerVars, mainVars>>

-----------------------------------------------------------------------------
(* main.                                                                    *)

\* Mutants: final orders are taken again; the PROCESSING ones are forgotten.
UnprocessedAll == {n \in Numbers : Stored(n)}

UnprocessedNew == {n \in Numbers : Stored(n) /\ status[n] = "NEW"}

\* GetUnprocessedOrders
Unprocessed == {n \in Numbers : Stored(n) /\ status[n] \in {"NEW", "PROCESSING"}}

\* The program starts and reads the orders that have no final status.
Start ==
  /\ phase = "down"
  /\ runs < MaxRuns
  /\ runs' = runs + 1
  /\ phase' = "loading"
  /\ unprocessed' = Unprocessed
  /\ UNCHANGED <<pollerVars, orderVars, requestVars, listenerVars, creditVars, faults>>

\* initOrderService puts one of them on the queue.
Requeue(n) ==
  /\ phase = "loading"
  /\ n \in unprocessed
  /\ Poller!Accept(n)
  /\ Listen(n)
  /\ unprocessed' = unprocessed \ {n}
  /\ UNCHANGED <<orderVars, requestVars, got, creditVars, phase, runs, faults>>

\* initBalanceService subscribes, and the server listens.
Serve ==
  /\ phase = "loading"
  /\ unprocessed = {}
  /\ phase' = "serving"
  /\ UNCHANGED <<pollerVars, orderVars, requestVars, listenerVars, creditVars,
                 unprocessed, runs, faults>>

\* A signal: Shutdown waits for the handlers, but not longer than its timeout;
\* then the deferred calls, balanceService.Close first.
Unsubscribe ==
  /\ phase = "serving"
  /\ phase' = "unsubscribed"
  /\ UNCHANGED <<pollerVars, orderVars, requestVars, listenerVars, creditVars,
                 unprocessed, runs, faults>>

\* poller.Close: the pool is released, the channels are closed.
ClosePoller ==
  /\ phase = "unsubscribed"
  /\ \/ Poller!Stop
     \/ \E S \in SUBSET Numbers : Poller!Abandon(S)
  /\ UNCHANGED <<orderVars, requestVars, listenerVars, creditVars, mainVars, faults>>

CloseDB ==
  /\ phase = "unsubscribed"
  /\ stopped
  /\ phase' = "dbClosed"
  /\ UNCHANGED <<pollerVars, orderVars, requestVars, listenerVars, creditVars,
                 unprocessed, runs, faults>>

\* Whatever is not in the database is gone.
LoseMemory ==
  /\ phase' = "down"
  /\ unprocessed' = {}
  /\ feed' = [n \in Numbers |-> "idle"]
  /\ known' = [n \in Numbers |-> "NEW"]
  /\ chan' = [n \in Numbers |-> Nothing]
  /\ stopped' = FALSE
  /\ req' = [r \in Requests |-> IF req[r] \in {"adding", "queueing"}
                                THEN "broken" ELSE req[r]]
  /\ listener' = [n \in Numbers |-> "off"]
  /\ got' = [n \in Numbers |-> Nothing]
  /\ inflight' = [n \in Numbers |-> 0]
  /\ UNCHANGED <<remote, orderVars, answer, credited, runs, faults>>

\* event.Release has waited for the bus's goroutines, and main returns.
Exit == phase = "dbClosed" /\ (\A n \in Numbers : inflight[n] = 0) /\ LoseMemory

\* The process dies: also what log.Fatalw does at start, when the database
\* cannot be read or an order cannot be put on the queue.
Crash == Up /\ LoseMemory

\* The poller's own steps, and the accrual service's.
Poll ==
  /\ \/ Up /\ \E n \in Numbers : \/ \E s \in Status \ Final : Poller!Emit(n, s)
                                 \/ \E s \in Final \cup {"ERROR"} : Poller!EmitLast(n, s)
                                 \/ Poller!CloseFeed(n)
     \/ \E n \in Numbers : Poller!Advance(n)
  /\ UNCHANGED <<orderVars, requestVars, listenerVars, creditVars, mainVars, faults>>

-----------------------------------------------------------------------------
Upload(r) ==
  \/ GetOwner(r) \/ GetOwnerFails(r) \/ Add(r) \/ AddFails(r) \/ Queue(r) \/ QueueFails(r)

Listener(n) ==
  Take(n) \/ Update(n) \/ UpdateFails(n) \/ Publish(n) \/ StopListening(n)

OnOrderProcessed(n) == Credit(n) \/ CreditFails(n)

Main ==
  \/ Start \/ \E n \in Numbers : Requeue(n)
  \/ Serve \/ Unsubscribe \/ ClosePoller \/ CloseDB \/ Exit \/ Crash

Next ==
  \/ \E r \in Requests : Upload(r)
  \/ \E n \in Numbers : Listener(n) \/ OnOrderProcessed(n)
  \/ Main
  \/ Poll

Spec == Init /\ [][Next]_vars

\* Handlers, listeners, the bus and main go on; the poller ends its feeds.
\* Requests, signals, crashes and the accrual service's progress just happen.
PollerEnds(n) == Poll /\ Poller!Ending(n)

PollerCloses(n) == Poll /\ Poller!CloseFeed(n)

Fairness ==
  /\ \A r \in Requests : WF_vars(req[r] # "idle" /\ Upload(r))
  /\ \A n \in Numbers : /\ WF_vars(Listener(n))
                        /\ WF_vars(OnOrderProcessed(n))
                        /\ WF_vars(Requeue(n))
                        /\ WF_vars(PollerEnds(n))
                        /\ WF_vars(PollerCloses(n))
  /\ WF_vars(Start)
  /\ WF_vars(Serve)

FairSpec == Spec /\ Fairness

-----------------------------------------------------------------------------
(* Properties.                                                              *)

\* An order is credited once at the most, whatever crashes, restarts, lost
\* answers of the database and repeated polls there are, and only when the
\* accrual service has processed it and the order is stored as PROCESSED
\* (service.go:98-112, balance/service.go:149-154, main.go:192-197).
CreditedAtMostOnce ==
  \A n \in Numbers :
    /\ credited[n] <= 1
    /\ credited[n] > 0 => status[n] = "PROCESSED" /\ remote[n] = "PROCESSED"

\* What a user is shown never goes back: an order stays in the list of the user
\* it was accepted from, its status goes forward only and a final one stays,
\* although Update is unconditional, a restarted poll begins at NEW again, and
\* results wait in channels while others are written (database.go:40-65, 86-126,
\* service.go:74, 86-125).
StatusForward ==
  [][\A u \in Users : \A e \in List(u) :
       \E f \in List(u)' :
         /\ f.number = e.number
         /\ Rank(e.status) <= Rank(f.status)
         /\ e.status \in Final => f.status = e.status]_vars

\* What happens to an order, its credit included, is what OrderLife promises:
\* uploads that overlap, polls that are repeated after a restart, results and
\* events on their way, calls that fail with effect or without add no step to it
\* (service.go:27-114, database.go:22-65, balance/service.go:149-154, main.go:174-197).
FollowsLife == Life!Spec

\* "A number can be accepted once, from one user" (SPECIFICATION.md:66): one
\* request of a number gets 202, that of its owner; 200 and 409 tell the owner
\* from the others (service.go:37-66).
AnswersAgree ==
  \A r, q \in Requests :
    /\ answer[r] \in {"200", "202"} => owner[OrderOf[r]] = UserOf[r]
    /\ answer[r] = "409" => owner[OrderOf[r]] \notin {NoOne, UserOf[r]}
    /\ answer[r] = "202" /\ answer[q] = "202" /\ OrderOf[r] = OrderOf[q] => r = q

\* The poller never refuses a number as enqueued already: neither an upload that
\* has just stored the order, which would then be answered 500, nor the start of
\* the program, which would then end (service.go:59-64, main.go:192-197).
Enqueueable ==
  /\ \A r \in Requests : req[r] = "queueing" => feed[OrderOf[r]] = "idle"
  /\ \A n \in unprocessed : feed[n] = "idle"

\* As long as no database call has failed, every stored order without a final
\* status is followed while the program serves: a listener waits for its
\* results, or its upload is about to start one; none is forgotten between
\* Upload's two calls, a crash and the next start (service.go:52-84, main.go:187-197).
OrderFollowed ==
  phase = "serving" /\ faults = 0 =>
    \A n \in Numbers :
      Stored(n) /\ status[n] \notin Final =>
        \/ listener[n] # "off"
        \/ \E r \in Requests : OrderOf[r] = n /\ req[r] = "queueing"

\* If the program stays up after finitely many crashes and shutdowns, and no
\* database call fails, every stored order gets a final status (service.go:86-114,
\* main.go:187-197).
StoredIsSettled ==
  ([](faults = 0) /\ <>[](phase = "serving")) =>
    \A n \in Numbers :
      (Stored(n) /\ status[n] \notin Final) ~> (status[n] \in Final)

\* In a program that was not stopped yet, and until a database call fails, the
\* credit of an order stored as PROCESSED is made, or an event that will make it
\* is on its way: nothing is lost between the table and the bus, whatever results
\* of earlier polls the listener still handles (service.go:86-114,
\* balance/service.go:23, 149-154, main.go:174-197).
CreditOnItsWay ==
  phase = "serving" /\ runs <= 1 /\ faults = 0 =>
    \A n \in Numbers : status[n] = "PROCESSED" =>
      credited[n] = 1 \/ inflight[n] = 1 \/ listener[n] = "publishing"

\* In a program that is never stopped, and with no failing database call, a
\* processed order is credited: the bus always has its subscriber
\* (balance/service.go:23, main.go:72-84).
FirstRunCredits ==
  ([](runs <= 1 /\ faults = 0) /\ <>[](phase = "serving")) =>
    \A n \in Numbers : (Stored(n) /\ status[n] = "PROCESSED") ~> (credited[n] = 1)

\* The specification credits every eligible order (SPECIFICATION.md:16): once the
\* program stays up, a processed order has been credited or will be.
ProcessedIsCredited ==
  <>[](phase = "serving") =>
    \A n \in Numbers : (Stored(n) /\ status[n] = "PROCESSED") ~> (credited[n] = 1)

\* INVALID says that the accrual service refused the order (SPECIFICATION.md:161).
InvalidMeansRefused ==
  \A n \in Numbers : status[n] = "INVALID" => remote[n] = "INVALID"
=============================================================================
