------------------------ MODULE AccrualPollerProofs ------------------------
(***************************************************************************)
(* Proofs about AccrualPoller, for any number of calls of Enqueue, order    *)
(* numbers and 429 responses: its type invariant and the safety properties  *)
(* of its task list and of Close follow from the inductive invariant Inv.   *)
(***************************************************************************)
EXTENDS AccrualPoller, FiniteSetTheorems, FunctionTheorems, TLAPS

\* A task that may still make a request has attempts left.
AttemptsLeft ==
  \A t \in Tasks : work[t] \in {"none", "waiting", "timer"} => attempts[t] <= MaxAttempts

\* A task exists from the submission on.
Started ==
  \A t \in Tasks : work[t] # "none" <=> call[t] \in {"inserting", "returned"}

Holds(t) == call[t] \in {"submitting", "inserting"}

OneHolder == \A t, u \in Tasks : Holds(t) /\ Holds(u) => t = u

\* Two listed tasks have different numbers, and differ from the one whose
\* Enqueue holds the mutex; the mutex keeps its worker from finishing.
ListedApart ==
  /\ \A t, u \in Tasks : t \in list /\ u \in list /\ NumberOf[t] = NumberOf[u] => t = u
  /\ \A t, u \in Tasks : Holds(t) /\ u \in list => NumberOf[t] # NumberOf[u]
  /\ \A t \in Tasks : call[t] = "inserting" => work[t] # "done"

ListInv == Started /\ OneHolder /\ ListedUntilDone /\ ListedApart

\* Before Close only a task that is over has its channel closed, and it has.
ClosedWhenOver ==
  /\ \A t \in Tasks : work[t] \in {"deleting", "done"} => chClosed[t]
  /\ \A t \in Tasks : chClosed[t] /\ closer = "none" => work[t] \in {"deleting", "done"}

\* Close releases the pool first; when it is through, nobody inserts.
CloserInv ==
  /\ closer = "none" <=> ~poolClosed
  /\ closer = "closed" => \A t \in Tasks : call[t] # "inserting"

EndInv == ClosedWhenOver /\ CloserInv /\ NoPanicBeforeClose /\ ClosedAfterClose

Inv == TypeOK /\ AttemptsLeft /\ ListInv /\ EndInv

-----------------------------------------------------------------------------
(* What the tuning after a 429 computes.                                    *)

LEMMA RequestsType ==
  ASSUME NEW r \in Replies
  PROVE  ParseRateLimitedResponse(r).requests \in Nat
  BY PollerAssumption DEF ParseRateLimitedResponse, SecondsIn, Response, Unit

LEMMA TunedType ==
  ASSUME NEW r \in Replies, TypeOK
  PROVE  Tuned(r) \in Nat \ {0}
  BY RequestsType DEF Tuned, TypeOK

LEMMA RateType ==
  ASSUME NEW r \in Replies
  PROVE  RateAfter(r) \in Rates
  BY DEF RateAfter, Rates

LEMMA StatusOfType ==
  ASSUME NEW a \in AccrualStatus
  PROVE  StatusOf(a) \in Status
  BY DEF StatusOf, AccrualStatus, Status

-----------------------------------------------------------------------------
(* Steps of a worker or a timer that neither begin nor finish a task keep   *)
(* the list's invariant, and the other's if they close no channel.          *)

LEMMA WorkKeepsList ==
  ASSUME ListInv, UNCHANGED <<call, list>>,
         NEW t \in Tasks, TypeOK, work[t] \notin {"none", "done"},
         NEW w, w \notin {"none", "done"},
         work' = [work EXCEPT ![t] = w]
  PROVE  ListInv'
<1>1. \A u \in Tasks : /\ (work'[u] = "none") = (work[u] = "none")
                       /\ (work'[u] = "done") = (work[u] = "done")
  BY DEF TypeOK
<1>2. \A u \in Tasks : call'[u] = call[u] /\ Holds(u)' = Holds(u)
  BY DEF Holds
<1>3. Started' /\ OneHolder' /\ ListedApart'
  BY <1>1, <1>2 DEF ListInv, Started, OneHolder, ListedApart
<1>4. ListedUntilDone'
  BY <1>1, <1>2 DEF ListInv, ListedUntilDone
<1> QED BY <1>3, <1>4 DEF ListInv

LEMMA WorkKeepsEnd ==
  ASSUME EndInv, UNCHANGED <<call, chClosed, poolClosed, closer>>,
         NEW t \in Tasks, TypeOK, work[t] \notin {"deleting", "done"},
         NEW w, w \notin {"deleting", "done", "panicked"},
         work' = [work EXCEPT ![t] = w]
  PROVE  EndInv'
<1>1. \A u \in Tasks : /\ work'[u] = "panicked" => work[u] = "panicked"
                       /\ work'[u] \in {"deleting", "done"} <=> work[u] \in {"deleting", "done"}
  BY DEF TypeOK
<1> QED BY <1>1 DEF EndInv, ClosedWhenOver, CloserInv, NoPanicBeforeClose, ClosedAfterClose

\* A worker that retries, or gives up, leaves the types and the attempts right.
LEMMA RetryWork ==
  ASSUME TypeOK, NEW t \in Tasks, RetryLaterOrClose(t)
  PROVE  \E w \in {"sending", "timer"} :
           /\ work' = [work EXCEPT ![t] = w]
           /\ w = "timer" => attempts[t] <= MaxAttempts
           /\ out' \in [Tasks -> Results \cup {Nothing}]
           /\ returning' \in Nat
<1>1. CASE AttemptsUsedUp(t)
  BY <1>1 DEF RetryLaterOrClose, TypeOK, Results
<1>2. CASE ~AttemptsUsedUp(t)
  BY <1>2, PollerAssumption
     DEF RetryLaterOrClose, FreeWorker, AttemptsUsedUp, TypeOK, Results
<1> QED BY <1>1, <1>2

LEMMA InitInv == Init => Inv
<1> SUFFICES ASSUME Init PROVE Inv
  OBVIOUS
<1>1. TypeOK
  <2>1. /\ remote \in [Numbers -> AccrualStatus]
        /\ known \in [Tasks -> Status \ Final]
    BY DEF Init, AccrualStatus, Status, Final
  <2>2. /\ attempts \in [Tasks -> 0 .. MaxAttempts + 1]
        /\ tunings \in [Rates -> 0 .. MaxTunings]
        /\ capacity \in Nat \ {0}
        /\ idle \in Nat
    BY PollerAssumption DEF Init
  <2> QED BY <2>1, <2>2 DEF Init, TypeOK
<1>2. AttemptsLeft
  BY PollerAssumption DEF Init, AttemptsLeft
<1>3. ListInv
  BY DEF Init, ListInv, Started, OneHolder, Holds, ListedUntilDone, ListedApart
<1>4. EndInv
  BY DEF Init, EndInv, ClosedWhenOver, CloserInv, NoPanicBeforeClose, ClosedAfterClose
<1> QED BY <1>1, <1>2, <1>3, <1>4 DEF Inv

-----------------------------------------------------------------------------
(* The steps, one lemma for each action.                                    *)

LEMMA RetryInv ==
  ASSUME Inv, NEW t \in Tasks, RetryLaterOrClose(t),
         work[t] \in {"waiting", "requesting", "sending"},
         UNCHANGED <<enqueueVars, attempts, chClosed, poolClosed, closer>>
  PROVE  /\ work' \in [Tasks -> Running \cup {"none", "timer", "dropped", "done", "panicked"}]
         /\ out' \in [Tasks -> Results \cup {Nothing}]
         /\ returning' \in Nat
         /\ AttemptsLeft' /\ ListInv' /\ EndInv'
<1>1. PICK w \in {"sending", "timer"} :
        /\ work' = [work EXCEPT ![t] = w]
        /\ w = "timer" => attempts[t] <= MaxAttempts
        /\ out' \in [Tasks -> Results \cup {Nothing}]
        /\ returning' \in Nat
  BY RetryWork DEF Inv
<1>2. work' \in [Tasks -> Running \cup {"none", "timer", "dropped", "done", "panicked"}]
  BY <1>1 DEF Inv, TypeOK, Running
<1>3. AttemptsLeft'
  BY <1>1 DEF Inv, TypeOK, AttemptsLeft
<1>4. ListInv'
  BY <1>1, WorkKeepsList DEF Inv, enqueueVars
<1>5. EndInv'
  BY <1>1, WorkKeepsEnd DEF Inv, enqueueVars
<1> QED BY <1>1, <1>2, <1>3, <1>4, <1>5

LEMMA EnqueueStep ==
  ASSUME Inv, NEW t \in Tasks, Enqueue(t)
  PROVE  Inv'
<1> USE DEF enqueueVars, taskVars, chanVars, poolVars, limitVars
<1>1. TypeOK' /\ AttemptsLeft'
  BY DEF Inv, TypeOK, AttemptsLeft, Enqueue
<1>2. Started' /\ ListedUntilDone'
  BY DEF Inv, TypeOK, ListInv, Started, ListedUntilDone, Enqueue
<1>3. OneHolder'
  BY DEF Inv, TypeOK, ListInv, OneHolder, Holds, Enqueue, LockFree
<1>4. ListedApart'
  BY DEF Inv, TypeOK, ListInv, ListedApart, Holds, Enqueue, LockFree, Listed
<1>5. EndInv'
  BY DEF Inv, TypeOK, EndInv, ClosedWhenOver, CloserInv, NoPanicBeforeClose,
         ClosedAfterClose, Enqueue
<1> QED BY <1>1, <1>2, <1>3, <1>4, <1>5 DEF Inv, ListInv

LEMMA EnqueueSubmitStep ==
  ASSUME Inv, NEW t \in Tasks, EnqueueSubmit(t)
  PROVE  Inv'
<1> USE DEF chanVars, limitVars
<1>1. TypeOK'
  BY DEF Inv, TypeOK, EnqueueSubmit, TakeWorker, Running
<1>2. AttemptsLeft'
  BY DEF Inv, TypeOK, AttemptsLeft, ListInv, Started, EnqueueSubmit
<1>3. Started' /\ ListedUntilDone'
  BY DEF Inv, TypeOK, ListInv, Started, ListedUntilDone, EnqueueSubmit
<1>4. OneHolder' /\ ListedApart'
  BY DEF Inv, TypeOK, ListInv, OneHolder, ListedApart, Holds, EnqueueSubmit
<1>5. EndInv'
  BY DEF Inv, TypeOK, ListInv, Started, EndInv, ClosedWhenOver, CloserInv,
         NoPanicBeforeClose, ClosedAfterClose, EnqueueSubmit, CanSubmit
<1> QED BY <1>1, <1>2, <1>3, <1>4, <1>5 DEF Inv, ListInv

LEMMA EnqueueFailStep ==
  ASSUME Inv, NEW t \in Tasks, EnqueueFail(t)
  PROVE  Inv'
<1> USE DEF taskVars, chanVars, poolVars, limitVars
<1>1. TypeOK' /\ AttemptsLeft'
  BY DEF Inv, TypeOK, AttemptsLeft, EnqueueFail
<1>2. ListInv'
  BY DEF Inv, TypeOK, ListInv, Started, ListedUntilDone, OneHolder, ListedApart,
         Holds, EnqueueFail
<1>3. EndInv'
  BY DEF Inv, TypeOK, EndInv, ClosedWhenOver, CloserInv, NoPanicBeforeClose,
         ClosedAfterClose, EnqueueFail
<1> QED BY <1>1, <1>2, <1>3 DEF Inv

LEMMA EnqueueInsertStep ==
  ASSUME Inv, NEW t \in Tasks, EnqueueInsert(t)
  PROVE  Inv'
<1> USE DEF taskVars, chanVars, poolVars, limitVars
<1>1. list' = list \cup {t}
  BY DEF Inv, ListInv, ListedApart, Holds, EnqueueInsert, TypeOK
<1>2. TypeOK' /\ AttemptsLeft'
  BY DEF Inv, TypeOK, AttemptsLeft, EnqueueInsert
<1>3. Started' /\ OneHolder'
  BY DEF Inv, TypeOK, ListInv, Started, OneHolder, Holds, EnqueueInsert
<1>4. ListedUntilDone'
  BY <1>1 DEF Inv, TypeOK, ListInv, ListedUntilDone, ListedApart, EnqueueInsert
<1>5. ListedApart'
  BY <1>1 DEF Inv, TypeOK, ListInv, ListedApart, OneHolder, Holds, EnqueueInsert
<1>6. EndInv'
  BY DEF Inv, TypeOK, EndInv, ClosedWhenOver, CloserInv, NoPanicBeforeClose,
         ClosedAfterClose, EnqueueInsert
<1> QED BY <1>2, <1>3, <1>4, <1>5, <1>6 DEF Inv, ListInv

LEMMA WaitGrantedStep ==
  ASSUME Inv, NEW t \in Tasks, WaitGranted(t)
  PROVE  Inv'
<1> USE DEF enqueueVars, chanVars, poolVars
<1>1. TypeOK'
  <2>1. attempts' \in [Tasks -> 0 .. MaxAttempts + 1]
    BY PollerAssumption DEF Inv, TypeOK, AttemptsLeft, WaitGranted, CountAttempt
  <2> QED BY <2>1 DEF Inv, TypeOK, WaitGranted, Running
<1>2. AttemptsLeft'
  BY DEF Inv, TypeOK, AttemptsLeft, WaitGranted, CountAttempt
<1>3. ListInv'
  BY WorkKeepsList DEF Inv, WaitGranted
<1>4. EndInv'
  BY WorkKeepsEnd DEF Inv, WaitGranted
<1> QED BY <1>1, <1>2, <1>3, <1>4 DEF Inv

LEMMA WaitRefusedStep ==
  ASSUME Inv, NEW t \in Tasks, WaitRefused(t)
  PROVE  Inv'
<1> USE DEF enqueueVars, chanVars, limitVars
<1>1. TypeOK'
  BY RetryInv DEF Inv, TypeOK, WaitRefused
<1> QED BY <1>1, RetryInv DEF Inv, WaitRefused

LEMMA ResponseErrorStep ==
  ASSUME Inv, NEW t \in Tasks, ResponseError(t)
  PROVE  Inv'
<1> USE DEF enqueueVars, chanVars, limitVars
<1>1. TypeOK'
  BY RetryInv DEF Inv, TypeOK, ResponseError
<1> QED BY <1>1, RetryInv DEF Inv, ResponseError

LEMMA ResponseLimitedStep ==
  ASSUME Inv, NEW t \in Tasks, NEW r \in Replies, ResponseLimited(t, r)
  PROVE  Inv'
<1> USE DEF enqueueVars, chanVars
<1>1. TypeOK'
  <2>1. tunings' \in [Rates -> 0 .. MaxTunings]
    BY RateType, PollerAssumption DEF Inv, TypeOK, ResponseLimited
  <2>2. capacity' \in Nat \ {0}
    BY TunedType DEF Inv, ResponseLimited
  <2> QED BY <2>1, <2>2, RetryInv DEF Inv, TypeOK, ResponseLimited
<1> QED BY <1>1, RetryInv DEF Inv, ResponseLimited

LEMMA ResponseStatusStep ==
  ASSUME Inv, NEW t \in Tasks, ResponseStatus(t)
  PROVE  Inv'
<1> USE DEF enqueueVars, chanVars, limitVars
<1> DEFINE s == StatusOf(remote[NumberOf[t]])
<1>1. s \in Status
  BY StatusOfType, PollerAssumption DEF Inv, TypeOK
<1>2. CASE IsNews(t, s)
  <2>1. /\ known' = [known EXCEPT ![t] = IF s \in Final THEN @ ELSE s]
        /\ out' = [out EXCEPT ![t] = s]
        /\ work' = [work EXCEPT ![t] = "sending"]
        /\ returning' = returning
    BY <1>2 DEF ResponseStatus
  <2>2. known' \in [Tasks -> Status \ Final] /\ out' \in [Tasks -> Results \cup {Nothing}]
    BY <1>1, <2>1 DEF Inv, TypeOK, Results
  <2>3. TypeOK'
    BY <2>1, <2>2 DEF Inv, TypeOK, ResponseStatus, Running
  <2>4. AttemptsLeft'
    BY <2>1 DEF Inv, TypeOK, AttemptsLeft, ResponseStatus
  <2>5. ListInv'
    BY <2>1, WorkKeepsList DEF Inv, ResponseStatus
  <2>6. EndInv'
    BY <2>1, WorkKeepsEnd DEF Inv, ResponseStatus
  <2> QED BY <2>3, <2>4, <2>5, <2>6 DEF Inv
<1>3. CASE ~IsNews(t, s)
  <2>1. RetryLaterOrClose(t) /\ known' = known
    BY <1>3 DEF ResponseStatus
  <2>2. TypeOK'
    BY <2>1, RetryInv DEF Inv, TypeOK, ResponseStatus
  <2> QED BY <2>1, <2>2, RetryInv DEF Inv, ResponseStatus
<1> QED BY <1>2, <1>3

LEMMA SendStep ==
  ASSUME Inv, NEW t \in Tasks, Send(t)
  PROVE  Inv'
<1> USE DEF enqueueVars, limitVars
<1>1. chan' \in [Tasks -> Results \cup {Nothing}]
  BY DEF Inv, TypeOK, Send
<1>2. CASE out[t] \in Final \cup {"ERROR"}
  <2>1. /\ work' = [work EXCEPT ![t] = "closing"]
        /\ out' = [out EXCEPT ![t] = Nothing]
        /\ returning' = returning
    BY <1>2 DEF Send
  <2>2. TypeOK'
    BY <1>1, <2>1 DEF Inv, TypeOK, Send, Running
  <2>3. AttemptsLeft'
    BY <2>1 DEF Inv, TypeOK, AttemptsLeft, Send
  <2>4. ListInv'
    BY <2>1, WorkKeepsList DEF Inv, Send
  <2>5. EndInv'
    BY <2>1, WorkKeepsEnd DEF Inv, Send
  <2> QED BY <2>2, <2>3, <2>4, <2>5 DEF Inv
<1>3. CASE out[t] \notin Final \cup {"ERROR"}
  <2>1. RetryLaterOrClose(t)
    BY <1>3 DEF Send
  <2>2. TypeOK'
    BY <1>1, <2>1, RetryInv DEF Inv, TypeOK, Send
  <2> QED BY <2>1, <2>2, RetryInv DEF Inv, Send
<1> QED BY <1>2, <1>3

LEMMA CloseChanStep ==
  ASSUME Inv, NEW t \in Tasks, CloseChan(t)
  PROVE  Inv'
<1> USE DEF enqueueVars, poolVars, limitVars
<1>1. TypeOK' /\ AttemptsLeft'
  BY DEF Inv, TypeOK, AttemptsLeft, CloseChan, Running
<1>2. ListInv'
  BY WorkKeepsList DEF Inv, CloseChan
<1>3. EndInv'
  BY DEF Inv, TypeOK, EndInv, ClosedWhenOver, CloserInv, NoPanicBeforeClose,
         ClosedAfterClose, CloseChan
<1> QED BY <1>1, <1>2, <1>3 DEF Inv

\* A worker panics only on a channel that Close has closed.
LEMMA PanicStep ==
  ASSUME Inv, NEW t \in Tasks, Panic(t)
  PROVE  Inv'
<1> USE DEF enqueueVars, chanVars, poolVars, limitVars
<1>1. TypeOK' /\ AttemptsLeft'
  BY DEF Inv, TypeOK, AttemptsLeft, Panic
<1>2. ListInv'
  BY WorkKeepsList DEF Inv, Panic
<1>3. EndInv'
  BY DEF Inv, TypeOK, EndInv, ClosedWhenOver, CloserInv, NoPanicBeforeClose,
         ClosedAfterClose, Panic
<1> QED BY <1>1, <1>2, <1>3 DEF Inv

LEMMA DeleteSingleStep ==
  ASSUME Inv, NEW t \in Tasks, DeleteSingle(t)
  PROVE  Inv'
<1> USE DEF chanVars, limitVars
<1>1. TypeOK'
  BY DEF Inv, TypeOK, DeleteSingle, FreeWorker
<1>2. AttemptsLeft'
  BY DEF Inv, TypeOK, AttemptsLeft, DeleteSingle
<1>3. t \in list
  BY DEF Inv, TypeOK, ListInv, Started, ListedUntilDone, DeleteSingle, LockFree
<1>4. list' = list \ {t}
  BY <1>3 DEF Inv, TypeOK, ListInv, ListedApart, DeleteSingle
<1>5. Started' /\ OneHolder'
  BY DEF Inv, TypeOK, ListInv, Started, OneHolder, Holds, DeleteSingle
<1>6. ListedUntilDone'
  BY <1>4 DEF Inv, TypeOK, ListInv, ListedUntilDone, DeleteSingle
<1>7. ListedApart'
  BY <1>4 DEF Inv, TypeOK, ListInv, ListedApart, Holds, DeleteSingle, LockFree
<1>8. EndInv'
  BY DEF Inv, TypeOK, EndInv, ClosedWhenOver, CloserInv, NoPanicBeforeClose,
         ClosedAfterClose, DeleteSingle
<1> QED BY <1>1, <1>2, <1>5, <1>6, <1>7, <1>8 DEF Inv, ListInv

LEMMA ResubmitStep ==
  ASSUME Inv, NEW t \in Tasks, Resubmit(t)
  PROVE  Inv'
<1> USE DEF enqueueVars, chanVars, limitVars
<1>1. TypeOK'
  BY DEF Inv, TypeOK, Resubmit, TakeWorker, Running
<1>2. AttemptsLeft'
  BY DEF Inv, TypeOK, AttemptsLeft, Resubmit
<1>3. ListInv'
  BY WorkKeepsList DEF Inv, Resubmit
<1>4. EndInv'
  BY WorkKeepsEnd DEF Inv, Resubmit
<1> QED BY <1>1, <1>2, <1>3, <1>4 DEF Inv

LEMMA ResubmitFailStep ==
  ASSUME Inv, NEW t \in Tasks, ResubmitFail(t)
  PROVE  Inv'
<1> USE DEF enqueueVars, chanVars, poolVars, limitVars
<1>1. TypeOK' /\ AttemptsLeft'
  BY DEF Inv, TypeOK, AttemptsLeft, ResubmitFail
<1>2. ListInv'
  BY WorkKeepsList DEF Inv, ResubmitFail
<1>3. EndInv'
  BY WorkKeepsEnd DEF Inv, ResubmitFail
<1> QED BY <1>1, <1>2, <1>3 DEF Inv

\* Steps that concern the pool, the limiter, a listener or the accrual service
\* only: what the rest of the invariant speaks of is left alone.
LEMMA OtherVars ==
  ASSUME Inv, UNCHANGED <<call, list, work, attempts, chClosed, poolClosed, closer>>
  PROVE  AttemptsLeft' /\ ListInv' /\ EndInv'
  BY DEF Inv, AttemptsLeft, ListInv, Started, OneHolder, Holds, ListedUntilDone,
         ListedApart, EndInv, ClosedWhenOver, CloserInv, NoPanicBeforeClose, ClosedAfterClose

LEMMA PoolStep == Inv /\ (ParkWorker \/ Expire \/ Leave) => Inv'
<1> SUFFICES ASSUME Inv, ParkWorker \/ Expire \/ Leave PROVE Inv'
  OBVIOUS
<1> USE DEF enqueueVars, taskVars, chanVars, limitVars, ParkWorker, Expire, Leave
<1>1. TypeOK'
  BY DEF Inv, TypeOK
<1> QED BY <1>1, OtherVars DEF Inv

LEMMA InstallRateStep ==
  ASSUME Inv, NEW k \in Rates, InstallRate(k)
  PROVE  Inv'
<1> USE DEF enqueueVars, taskVars, chanVars, poolVars
<1>1. TypeOK'
  BY PollerAssumption DEF Inv, TypeOK, InstallRate
<1> QED BY <1>1, OtherVars DEF Inv, InstallRate

LEMMA ReceiveStep ==
  ASSUME Inv, NEW t \in Tasks, Receive(t)
  PROVE  Inv'
<1> USE DEF enqueueVars, taskVars, poolVars, limitVars
<1>1. TypeOK'
  BY DEF Inv, TypeOK, Receive
<1> QED BY <1>1, OtherVars DEF Inv, Receive

LEMMA RemoteAdvanceStep ==
  ASSUME Inv, NEW n \in Numbers, RemoteAdvance(n)
  PROVE  Inv'
<1> USE DEF enqueueVars, taskVars, chanVars, poolVars, limitVars
<1>1. \A a \in AccrualStatus : LaterStatuses(a) \subseteq AccrualStatus
  BY DEF LaterStatuses, AccrualStatus, Final
<1>2. TypeOK'
  BY <1>1 DEF Inv, TypeOK, RemoteAdvance
<1> QED BY <1>2, OtherVars DEF Inv, RemoteAdvance

LEMMA ReleaseStep == Inv /\ Release => Inv'
<1> SUFFICES ASSUME Inv, Release PROVE Inv'
  OBVIOUS
<1> USE DEF enqueueVars, taskVars, chanVars, limitVars
<1>1. TypeOK' /\ AttemptsLeft'
  BY DEF Inv, TypeOK, AttemptsLeft, Release
<1>2. ListInv'
  BY DEF Inv, ListInv, Started, OneHolder, Holds, ListedUntilDone, ListedApart, Release
<1>3. EndInv'
  BY DEF Inv, EndInv, ClosedWhenOver, CloserInv, NoPanicBeforeClose,
         ClosedAfterClose, Release
<1> QED BY <1>1, <1>2, <1>3 DEF Inv

\* When Close has the mutex, a returned task is listed or it is over.
LEMMA CloseChannelsStep == Inv /\ CloseChannels => Inv'
<1> SUFFICES ASSUME Inv, CloseChannels PROVE Inv'
  OBVIOUS
<1> USE DEF enqueueVars, taskVars, poolVars, limitVars
<1> DEFINE before == {t \in list : chClosed[t]}
<1>1. PICK S \in SUBSET (list \ before) :
        /\ before = {} => S = list
        /\ chClosed' = [t \in Tasks |-> chClosed[t] \/ t \in S]
        /\ closer' = IF before = {} THEN "closed" ELSE "panicked"
  BY DEF CloseChannels
<1>2. \A t \in Tasks : chClosed[t] => chClosed'[t]
  BY <1>1
<1>3. TypeOK' /\ AttemptsLeft'
  BY <1>1 DEF Inv, TypeOK, AttemptsLeft, CloseChannels
<1>4. ListInv'
  BY DEF Inv, ListInv, Started, OneHolder, Holds, ListedUntilDone, ListedApart, CloseChannels
<1>5. ClosedAfterClose'
  BY <1>1 DEF Inv, TypeOK, ListInv, ListedUntilDone, EndInv, ClosedWhenOver,
              ClosedAfterClose, CloseChannels
<1>6. ClosedWhenOver' /\ CloserInv' /\ NoPanicBeforeClose'
  BY <1>1, <1>2 DEF Inv, EndInv, ClosedWhenOver, CloserInv, NoPanicBeforeClose,
                    CloseChannels, LockFree
<1> QED BY <1>3, <1>4, <1>5, <1>6 DEF Inv, EndInv

LEMMA NextInv == Inv /\ [Next]_vars => Inv'
<1> SUFFICES ASSUME Inv, [Next]_vars PROVE Inv'
  OBVIOUS
<1>1. ASSUME NEW t \in Tasks, Enqueuing(t) PROVE Inv'
  BY <1>1, EnqueueStep, EnqueueSubmitStep, EnqueueFailStep, EnqueueInsertStep
     DEF Enqueuing
<1>2. ASSUME NEW t \in Tasks, Worker(t) PROVE Inv'
  BY <1>2, WaitGrantedStep, WaitRefusedStep, ResponseErrorStep, ResponseStatusStep,
     ResponseLimitedStep, SendStep, CloseChanStep, PanicStep, DeleteSingleStep
     DEF Worker
<1>3. ASSUME NEW t \in Tasks, RetryTimer(t) \/ Receive(t) PROVE Inv'
  BY <1>3, ResubmitStep, ResubmitFailStep, ReceiveStep DEF RetryTimer
<1>4. CASE UNCHANGED vars
  <2>1. TypeOK'
    BY <1>4 DEF Inv, TypeOK, vars, enqueueVars, taskVars, chanVars, poolVars, limitVars
  <2> QED BY <1>4, <2>1, OtherVars
          DEF Inv, vars, enqueueVars, taskVars, chanVars, poolVars, limitVars
<1> QED BY <1>1, <1>2, <1>3, <1>4, InstallRateStep, RemoteAdvanceStep, PoolStep,
           ReleaseStep, CloseChannelsStep DEF Next

-----------------------------------------------------------------------------
(* The theorems.                                                            *)

\* The inductive invariant holds in every run of the poller.
THEOREM Invariance == Spec => []Inv
  BY InitInv, NextInv, PTL DEF Spec

\* Every variable of the poller keeps its type; in particular no task makes more
\* than MaxAttempts + 1 requests.
THEOREM TypeCorrect == Spec => []TypeOK
<1>1. Inv => TypeOK
  BY DEF Inv
<1> QED BY <1>1, Invariance, PTL

\* The task list holds exactly the tasks in hand: nothing is left behind and
\* nothing is lost.
THEOREM ListedExactly == Spec => []ListedUntilDone
<1>1. Inv => ListedUntilDone
  BY DEF Inv, ListInv
<1> QED BY <1>1, Invariance, PTL

\* A number has one task at work at the most.
THEOREM OneTask == Spec => []OneTaskPerNumber
<1>1. Inv => OneTaskPerNumber
  <2> SUFFICES ASSUME Inv, NEW t \in Tasks, NEW u \in Tasks,
                      NumberOf[t] = NumberOf[u],
                      work[t] \in Running \cup {"timer"},
                      work[u] \in Running \cup {"timer"}
               PROVE  t = u
    BY DEF OneTaskPerNumber
  <2>1. /\ call[t] = "inserting" \/ t \in list
        /\ call[u] = "inserting" \/ u \in list
    BY DEF Inv, ListInv, Started, ListedUntilDone, Running
  <2> QED BY <2>1 DEF Inv, ListInv, OneHolder, Holds, ListedApart
<1> QED BY <1>1, Invariance, PTL

\* No worker panics before Close.
THEOREM NoEarlyPanic == Spec => []NoPanicBeforeClose
<1>1. Inv => NoPanicBeforeClose
  BY DEF Inv, EndInv
<1> QED BY <1>1, Invariance, PTL

\* A Close that returns leaves no channel open that a listener waits on.
THEOREM CloseIsComplete == Spec => []ClosedAfterClose
<1>1. Inv => ClosedAfterClose
  BY DEF Inv, EndInv
<1> QED BY <1>1, Invariance, PTL
-----------------------------------------------------------------------------
(* What it takes to make Enqueue wait.                                      *)

Asked == {NumberOf[t] : t \in Tasks}

LEMMA AskedFinite == IsFiniteSet(Asked)
<1> DEFINE f == [t \in Tasks |-> NumberOf[t]]
<1>1. f \in [Tasks -> Asked] /\ \A n \in Asked : \E t \in Tasks : f[t] = n
  BY DEF Asked
<1> HIDE DEF f
<1>2. f \in Surjection(Tasks, Asked)
  BY <1>1, Fun_IsSurj
<1> QED BY <1>2, PollerAssumption, FS_Surjection

\* The workers that are busy have numbers of their own, other than the one a call
\* of Enqueue holds the mutex for.
LEMMA BusyApart ==
  ASSUME Inv, NEW t \in Tasks, call[t] = "submitting"
  PROVE  /\ \A u \in Busy : NumberOf[u] \in Asked \ {NumberOf[t]}
         /\ \A u, v \in Busy : NumberOf[u] = NumberOf[v] => u = v
<1>1. \A u \in Busy : u \in list
  <2> SUFFICES ASSUME NEW u \in Busy PROVE u \in list
    OBVIOUS
  <2>1. u \in Tasks /\ work[u] \in Running
    BY DEF Busy
  <2>2. call[u] = "inserting" \/ (call[u] = "returned" /\ work[u] # "done")
    BY <2>1 DEF Inv, ListInv, Started, Running
  <2>3. call[u] # "inserting"
    BY <2>1 DEF Inv, ListInv, OneHolder, Holds
  <2> QED BY <2>1, <2>2, <2>3 DEF Inv, ListInv, ListedUntilDone
<1>2. \A u \in Busy : u \in Tasks /\ NumberOf[u] \in Asked
  BY DEF Busy, Asked
<1> QED BY <1>1, <1>2 DEF Inv, ListInv, ListedApart, Holds

\* In a pool with as many workers as there are order numbers asked for, Enqueue
\* waits for no task with the mutex held, only for a goroutine whose task is over:
\* the deadlock of mutex and pool takes a pool that a 429 has made smaller than that.
THEOREM WideEnoughWaitsForNoTask == Spec => []WaitsForNoTask
<1>1. Inv => WaitsForNoTask
  <2> SUFFICES ASSUME Inv, Cardinality(Asked) <= capacity,
                      NEW t \in Tasks, call[t] = "submitting"
               PROVE  CanSubmit \/ poolClosed \/ returning + leaving > 0
    BY DEF WaitsForNoTask, Asked
  <2> DEFINE others == Asked \ {NumberOf[t]}
             f == [u \in Busy |-> NumberOf[u]]
  <2>1. IsFiniteSet(Busy) /\ Cardinality(Busy) \in Nat
    <3>1. Busy \in SUBSET Tasks
      BY DEF Busy
    <3> QED BY <3>1, PollerAssumption, FS_Subset, FS_CardinalityType
  <2>2. IsFiniteSet(others) /\ Cardinality(others) = Cardinality(Asked) - 1
    <3>1. NumberOf[t] \in Asked
      BY DEF Asked
    <3> QED BY <3>1, AskedFinite, FS_RemoveElement
  <2>3. Cardinality(Asked) \in Nat /\ Cardinality(others) \in Nat /\ capacity \in Nat
    BY <2>2, AskedFinite, FS_CardinalityType DEF Inv, TypeOK
  <2>4. f \in [Busy -> others] /\ \A u, v \in Busy : f[u] = f[v] => u = v
    BY BusyApart
  <2> HIDE DEF f
  <2>5. ~(Cardinality(others) < Cardinality(Busy))
    <3> HIDE DEF others
    <3> SUFFICES ASSUME Cardinality(others) < Cardinality(Busy) PROVE FALSE
      OBVIOUS
    <3>1. \E x, y \in Busy : x # y /\ f[x] = f[y]
      BY <2>1, <2>2, <2>4, FS_PigeonHole
    <3> QED BY <2>4, <3>1
  <2>6. Cardinality(Busy) < capacity
    BY <2>1, <2>2, <2>3, <2>5
  <2>7. idle \in Nat /\ returning \in Nat /\ leaving \in Nat
    BY DEF Inv, TypeOK
  <2> QED BY <2>1, <2>3, <2>6, <2>7 DEF CanSubmit, Goroutines
<1> QED BY <1>1, Invariance, PTL

-----------------------------------------------------------------------------
(* What a 429 does to the limiter.                                          *)

LEMMA Quotient ==
  ASSUME NEW a \in Nat, NEW b \in Nat \ {0}
  PROVE  a \div b = 0 <=> a < b
  OBVIOUS

\* The rate a 429 leaves is zero when its text is not understood, or names more
\* requests than its unit of time has seconds.
LEMMA ZeroRate ==
  ASSUME NEW r \in Replies
  PROVE  RateAfter(r) = "zero" <=> ~r.bodyOK \/ SecondsIn(r.unit) < RequestsIn(r)
<1> DEFINE p == ParseRateLimitedResponse(r)
<1>1. r.bodyOK \in BOOLEAN /\ SecondsIn(r.unit) \in Nat /\ RequestsIn(r) \in Nat \ {0}
  BY PollerAssumption DEF Response, SecondsIn, Unit, RequestsIn
<1>2. CASE ~r.bodyOK
  <2>1. p.requests = 1 /\ p.period = 60
    BY <1>2 DEF ParseRateLimitedResponse
  <2>2. InstalledLimit(p) = 0
    BY <2>1, Quotient DEF InstalledLimit
  <2> QED BY <1>2, <2>2 DEF RateAfter
<1>3. CASE r.bodyOK
  <2>1. p.requests = SecondsIn(r.unit) /\ p.period = RequestsIn(r)
    BY <1>3 DEF ParseRateLimitedResponse
  <2>2. InstalledLimit(p) = 0 <=> SecondsIn(r.unit) < RequestsIn(r)
    BY <1>1, <2>1, Quotient DEF InstalledLimit
  <2> QED BY <1>3, <2>2 DEF RateAfter
<1> QED BY <1>1, <1>2, <1>3

\* Only a 429 and the timer it leaves change the limiter's rate.
LEMMA LimiterSteps ==
  ASSUME [Next]_vars
  PROVE  \/ \E t \in Tasks : \E r \in Replies : ResponseLimited(t, r)
         \/ \E k \in Rates : InstallRate(k)
         \/ UNCHANGED <<limit, tunings>>
<1> USE DEF limitVars
<1>1. ASSUME NEW t \in Tasks, Worker(t), ~\E r \in Replies : ResponseLimited(t, r)
      PROVE  UNCHANGED <<limit, tunings>>
  BY <1>1 DEF Worker, WaitGranted, WaitRefused, ResponseError, ResponseStatus, Send,
              CloseChan, Panic, DeleteSingle
<1>2. ASSUME NEW t \in Tasks, Enqueuing(t) \/ RetryTimer(t) \/ Receive(t)
      PROVE  UNCHANGED <<limit, tunings>>
  BY <1>2 DEF Enqueuing, Enqueue, EnqueueSubmit, EnqueueFail, EnqueueInsert, RetryTimer,
              Resubmit, ResubmitFail, Receive
<1>3. ASSUME (\E n \in Numbers : RemoteAdvance(n)) \/ ParkWorker \/ Expire \/ Leave
             \/ Release \/ CloseChannels \/ UNCHANGED vars
      PROVE  UNCHANGED <<limit, tunings>>
  BY <1>3 DEF RemoteAdvance, ParkWorker, Expire, Leave, Release, CloseChannels, vars
<1> QED BY <1>1, <1>2, <1>3 DEF Next

NoZeroRate == limit # "zero" /\ tunings["zero"] = 0

\* The limiter's rate becomes zero, which ends all requests, only after a 429 that
\* is not understood or that names more requests than its unit has seconds; other
\* 429s leave a rate.
THEOREM RateIsNeverZero ==
  (\A r \in Replies : r.bodyOK /\ RequestsIn(r) <= SecondsIn(r.unit)) =>
    (Spec => [](limit # "zero"))
<1> SUFFICES ASSUME \A r \in Replies : r.bodyOK /\ RequestsIn(r) <= SecondsIn(r.unit)
             PROVE  Spec => [](limit # "zero")
  OBVIOUS
<1>1. ASSUME NEW r \in Replies PROVE RateAfter(r) = "paced"
  <2>1. SecondsIn(r.unit) \in Nat /\ RequestsIn(r) \in Nat
    BY PollerAssumption DEF Response, SecondsIn, Unit, RequestsIn
  <2> QED BY <2>1, ZeroRate DEF RateAfter
<1>2. Init => NoZeroRate
  BY DEF Init, NoZeroRate, Rates
<1>3. Inv /\ NoZeroRate /\ [Next]_vars => NoZeroRate'
  <2> SUFFICES ASSUME Inv, NoZeroRate, [Next]_vars PROVE NoZeroRate'
    OBVIOUS
  <2>1. tunings \in [Rates -> 0 .. MaxTunings]
    BY DEF Inv, TypeOK
  <2>2. ASSUME NEW t \in Tasks, NEW r \in Replies, ResponseLimited(t, r) PROVE NoZeroRate'
    BY <1>1, <2>1, <2>2 DEF ResponseLimited, NoZeroRate, Rates
  <2>3. ASSUME NEW k \in Rates, InstallRate(k) PROVE NoZeroRate'
    BY <2>1, <2>3 DEF InstallRate, NoZeroRate, Rates
  <2>4. CASE UNCHANGED <<limit, tunings>>
    BY <2>4 DEF NoZeroRate
  <2> QED BY <2>2, <2>3, <2>4, LimiterSteps
<1>4. NoZeroRate => limit # "zero"
  BY DEF NoZeroRate
<1> QED BY <1>2, <1>3, <1>4, Invariance, PTL DEF Spec

\* One timer at the most is to restore the rate.
OneTimer ==
  \A k, l \in Rates : tunings[k] > 0 /\ tunings[l] > 0 => k = l /\ tunings[k] = 1

\* The limiter lets requests through again before the time the last 429 asked for
\* has passed only while the timers of two 429s overlap.
THEOREM OverlapLiftsBlock == Spec /\ []OneTimer => []BlockedUntilRestored
<1>1. Init => BlockedUntilRestored
  BY DEF Init, BlockedUntilRestored
<1>2. Inv /\ BlockedUntilRestored /\ OneTimer /\ [Next]_vars => BlockedUntilRestored'
  <2> SUFFICES ASSUME Inv, BlockedUntilRestored, OneTimer, [Next]_vars
               PROVE  BlockedUntilRestored'
    OBVIOUS
  <2>1. tunings \in [Rates -> 0 .. MaxTunings] /\ MaxTunings \in Nat
    BY PollerAssumption DEF Inv, TypeOK
  <2>2. ASSUME NEW t \in Tasks, NEW r \in Replies, ResponseLimited(t, r)
        PROVE  BlockedUntilRestored'
    BY <2>2 DEF ResponseLimited, BlockedUntilRestored
  <2>3. ASSUME NEW k \in Rates, InstallRate(k) PROVE BlockedUntilRestored'
    <3>1. tunings[k] = 1 /\ \A l \in Rates : l # k => ~(tunings[l] > 0)
      BY <2>1, <2>3 DEF InstallRate, OneTimer
    <3>2. \A l \in Rates : ~(tunings'[l] > 0)
      BY <2>1, <2>3, <3>1 DEF InstallRate
    <3> QED BY <3>2 DEF BlockedUntilRestored
  <2>4. CASE UNCHANGED <<limit, tunings>>
    BY <2>4 DEF BlockedUntilRestored
  <2> QED BY <2>2, <2>3, <2>4, LimiterSteps
<1> QED BY <1>1, <1>2, Invariance, PTL DEF Spec
=============================================================================
