--------------------------- MODULE AccrualPoller ---------------------------
(***************************************************************************)
(* The poller of internal/service/order/accrual/poller.go: calls of Enqueue *)
(* that hold the task list's mutex while they submit to a bounded goroutine *)
(* pool, workers that wait for the rate limiter, ask the accrual service    *)
(* and send what changed, retry timers, the limiter's tuning after a 429,   *)
(* and Close.  Every step is what one goroutine does between two points at  *)
(* which another one can matter.                                            *)
(***************************************************************************)
EXTENDS OrderStatus, RateLimitReply, FiniteSets

CONSTANTS
  Tasks,        \* the calls of Enqueue; each makes one task
  Numbers,      \* the order numbers
  NumberOf,     \* the number each call is made for
  Nothing,      \* the value of an empty channel
  MaxAttempts,  \* ACCRUAL_MAX_RETRIES
  PoolSize,     \* ants.DefaultAntsPoolSize
  Replies,      \* the 429 responses the accrual service may give
  MaxTunings    \* bound: limiter restorations pending at once

ASSUME PollerAssumption ==
  /\ NumberOf \in [Tasks -> Numbers]
  /\ Nothing \notin Status \cup {"ERROR"}
  /\ IsFiniteSet(Tasks)
  /\ MaxAttempts \in Nat
  /\ PoolSize \in Nat \ {0}
  /\ Replies \subseteq Response
  /\ \A r \in Replies : r.number # 0   \* 0 would divide by zero
  /\ MaxTunings \in Nat

VARIABLES
  remote,      \* what the accrual service would report now for each number
  call,        \* where each call of Enqueue is
  list,        \* taskList.tasks
  work,        \* where each task is: in the pool, in a timer, or over
  attempts,    \* task.attempts
  known,       \* task.knownStatus
  out,         \* the result the task's worker is about to send
  chan,        \* the buffer of task.resultChan
  chClosed,    \* task.resultChan has been closed
  capacity,    \* the pool's capacity
  idle,        \* pool goroutines parked for reuse
  returning,   \* pool goroutines that have ended a task and are not parked yet
  leaving,     \* pool goroutines that will end
  poolClosed,  \* the pool has been released
  limit,       \* the limiter's rate: no limit, blocked, zero, or some rate
  burst,       \* the limiter's burst, which a zero rate uses up
  tunings,     \* timers that will install a rate, counted by the rate
  closer       \* where Close is

enqueueVars == <<call, list>>
taskVars    == <<work, attempts, known, out>>
chanVars    == <<chan, chClosed>>
poolVars    == <<capacity, idle, returning, leaving, poolClosed>>
limitVars   == <<limit, burst, tunings>>
vars == <<remote, enqueueVars, taskVars, chanVars, poolVars, limitVars, closer>>

Results == Status \cup {"ERROR"}

Running == {"waiting", "requesting", "sending", "closing", "deleting"}

Rates == {"zero", "paced"}

TypeOK ==
  /\ remote \in [Numbers -> AccrualStatus]
  /\ call \in [Tasks -> {"idle", "submitting", "inserting", "returned", "failed"}]
  /\ list \subseteq Tasks
  /\ work \in [Tasks -> Running \cup {"none", "timer", "dropped", "done", "panicked"}]
  /\ attempts \in [Tasks -> 0 .. MaxAttempts + 1]
  /\ known \in [Tasks -> Status \ Final]
  /\ out \in [Tasks -> Results \cup {Nothing}]
  /\ chan \in [Tasks -> Results \cup {Nothing}]
  /\ chClosed \in [Tasks -> BOOLEAN]
  /\ capacity \in Nat \ {0}
  /\ idle \in Nat /\ returning \in Nat /\ leaving \in Nat
  /\ poolClosed \in BOOLEAN
  /\ limit \in {"inf", "blocked"} \cup Rates
  /\ burst \in {0, 1}
  /\ tunings \in [Rates -> 0 .. MaxTunings]
  /\ closer \in {"none", "released", "closed", "panicked"}

Init ==
  /\ remote = [n \in Numbers |-> "unregistered"]
  /\ call = [t \in Tasks |-> "idle"]
  /\ list = {}
  /\ work = [t \in Tasks |-> "none"]
  /\ attempts = [t \in Tasks |-> 0]
  /\ known = [t \in Tasks |-> "NEW"]
  /\ out = [t \in Tasks |-> Nothing]
  /\ chan = [t \in Tasks |-> Nothing]
  /\ chClosed = [t \in Tasks |-> FALSE]
  /\ capacity = PoolSize
  /\ idle = 0 /\ returning = 0 /\ leaving = 0
  /\ poolClosed = FALSE
  /\ limit = "inf"
  /\ burst = 1
  /\ tunings = [k \in Rates |-> 0]
  /\ closer = "none"

-----------------------------------------------------------------------------
(* The goroutine pool (ants, behind internal/support/pool).                 *)

Busy == {t \in Tasks : work[t] \in Running}

\* All of the pool's goroutines, up to their end.
Goroutines == Cardinality(Busy) + idle + returning + leaving

\* Submit finds a goroutine: a parked one, or a new one below the capacity.
\* A released pool refuses instead, the callers it blocks included.
CanSubmit == ~poolClosed /\ (idle > 0 \/ Goroutines < capacity)

TakeWorker == idle' = IF idle > 0 THEN idle - 1 ELSE 0

\* The task has returned; its goroutine counts as running until it is parked.
FreeWorker == returning' = returning + 1

\* A goroutine whose task has ended is parked, unless the pool is over its
\* capacity or released.
ParkWorker ==
  /\ returning > 0
  /\ returning' = returning - 1
  /\ IF poolClosed \/ Goroutines > capacity
     THEN leaving' = leaving + 1 /\ UNCHANGED idle
     ELSE idle' = idle + 1 /\ UNCHANGED leaving
  /\ UNCHANGED <<remote, enqueueVars, taskVars, chanVars, capacity, poolClosed,
                 limitVars, closer>>

\* Parked goroutines expire.
Expire ==
  /\ idle > 0
  /\ idle' = idle - 1
  /\ leaving' = leaving + 1
  /\ UNCHANGED <<remote, enqueueVars, taskVars, chanVars, capacity, returning,
                 poolClosed, limitVars, closer>>

\* A goroutine ends, and counts no more.
Leave ==
  /\ leaving > 0
  /\ leaving' = leaving - 1
  /\ UNCHANGED <<remote, enqueueVars, taskVars, chanVars, capacity, idle, returning,
                 poolClosed, limitVars, closer>>

-----------------------------------------------------------------------------
(* Enqueue.  The calls past Lock hold the mutex until they return.          *)

\* Mutant: deleteSingle and Close forget the mutex.
LockForgotten == TRUE

LockFree == \A t \in Tasks : call[t] \notin {"submitting", "inserting"}

\* Mutant: Enqueue forgets the check.
ListedForgotten(n) == FALSE

Listed(n) == \E t \in list : NumberOf[t] = n

\* Lock, and the check for a task of the same number.
Enqueue(t) ==
  /\ call[t] = "idle"
  /\ LockFree
  /\ call' = [call EXCEPT ![t] =
                IF Listed(NumberOf[t]) THEN "failed" ELSE "submitting"]
  /\ UNCHANGED <<remote, list, taskVars, chanVars, poolVars, limitVars, closer>>

EnqueueSubmit(t) ==
  /\ call[t] = "submitting"
  /\ CanSubmit
  /\ TakeWorker
  /\ work' = [work EXCEPT ![t] = "waiting"]
  /\ call' = [call EXCEPT ![t] = "inserting"]
  /\ UNCHANGED <<remote, list, attempts, known, out, chanVars, capacity, returning,
                 leaving, poolClosed, limitVars, closer>>

EnqueueFail(t) ==
  /\ call[t] = "submitting"
  /\ poolClosed
  /\ call' = [call EXCEPT ![t] = "failed"]
  /\ UNCHANGED <<remote, list, taskVars, chanVars, poolVars, limitVars, closer>>

EnqueueInsert(t) ==
  /\ call[t] = "inserting"
  /\ list' = {u \in list : NumberOf[u] # NumberOf[t]} \cup {t}
  /\ call' = [call EXCEPT ![t] = "returned"]
  /\ UNCHANGED <<remote, taskVars, chanVars, poolVars, limitVars, closer>>

-----------------------------------------------------------------------------
(* processTask, run by a worker of the pool.                                *)

\* Mutant: one request more.
AttemptsUsedUpLate(t) == attempts[t] > MaxAttempts + 1

AttemptsUsedUp(t) == attempts[t] > MaxAttempts

\* retryLaterOrCloseTask and maybeRetryLater: a timer will submit the task
\* again and the worker is free, or the worker goes on to send the error.
RetryLaterOrClose(t) ==
  IF AttemptsUsedUp(t)
  THEN /\ work' = [work EXCEPT ![t] = "sending"]
       /\ out' = [out EXCEPT ![t] = "ERROR"]
       /\ UNCHANGED returning
  ELSE /\ work' = [work EXCEPT ![t] = "timer"]
       /\ out' = [out EXCEPT ![t] = Nothing]
       /\ FreeWorker

\* Mutant: the attempt is not counted.
CountAttemptForgotten(t) == UNCHANGED attempts

CountAttempt(t) == attempts' = [attempts EXCEPT ![t] = @ + 1]

\* limiter.Wait lets the request through.  Between two 429s the limit is the
\* smallest positive float64; the wait it stands for overflows a Duration, so
\* whether that is "never" or "now" depends on the processor.
WaitGranted(t) ==
  /\ work[t] = "waiting"
  /\ limit = "inf" \/ burst = 1
  /\ burst' = IF limit = "zero" THEN 0 ELSE burst
  /\ CountAttempt(t)
  /\ work' = [work EXCEPT ![t] = "requesting"]
  /\ UNCHANGED <<remote, enqueueVars, known, out, chanVars, poolVars, limit,
                 tunings, closer>>

\* It would wait past the deadline, or the burst is used up.
WaitRefused(t) ==
  /\ work[t] = "waiting"
  /\ limit \in {"blocked", "paced"} \/ (limit = "zero" /\ burst = 0)
  /\ RetryLaterOrClose(t)
  /\ UNCHANGED <<remote, enqueueVars, attempts, known, chanVars, capacity, idle,
                 leaving, poolClosed, limitVars, closer>>

\* No response, an unexpected code, or a status with no meaning.
ResponseError(t) ==
  /\ work[t] = "requesting"
  /\ RetryLaterOrClose(t)
  /\ UNCHANGED <<remote, enqueueVars, attempts, known, chanVars, capacity, idle,
                 leaving, poolClosed, limitVars, closer>>

\* Pool.Tune ignores a size below one and a size it has already.
Tuned(r) == LET n == ParseRateLimitedResponse(r).requests
            IN  IF n > 0 THEN n ELSE capacity

RateAfter(r) ==
  IF InstalledLimit(ParseRateLimitedResponse(r)) = 0 THEN "zero" ELSE "paced"

\* A 429: tuneRateLimiting blocks the limiter, leaves a timer that installs
\* the new rate, resizes the pool; then the task is tried again as after an error.
ResponseLimited(t, r) ==
  /\ work[t] = "requesting"
  /\ tunings[RateAfter(r)] < MaxTunings
  /\ limit' = "blocked"
  /\ tunings' = [tunings EXCEPT ![RateAfter(r)] = @ + 1]
  /\ capacity' = Tuned(r)
  /\ RetryLaterOrClose(t)
  /\ UNCHANGED <<remote, enqueueVars, attempts, known, chanVars, idle, leaving,
                 poolClosed, burst, closer>>

\* Mutant: knownStatus is not consulted.
IsNewsAgain(t, s) == s # "NEW"

\* What notifyAboutChanges sends.
IsNews(t, s) == s \in Final \/ s # known[t]

\* A status: notifyAboutChanges has something to send, or not.
ResponseStatus(t) ==
  LET s == StatusOf(remote[NumberOf[t]]) IN
  /\ work[t] = "requesting"
  /\ IF IsNews(t, s)
     THEN /\ known' = [known EXCEPT ![t] = IF s \in Final THEN @ ELSE s]
          /\ out' = [out EXCEPT ![t] = s]
          /\ work' = [work EXCEPT ![t] = "sending"]
          /\ UNCHANGED returning
     ELSE /\ RetryLaterOrClose(t)
          /\ UNCHANGED known
  /\ UNCHANGED <<remote, enqueueVars, attempts, chanVars, capacity, idle,
                 leaving, poolClosed, limitVars, closer>>

\* The send waits until the listener has taken the previous result.
Send(t) ==
  /\ work[t] = "sending"
  /\ ~chClosed[t]
  /\ chan[t] = Nothing
  /\ chan' = [chan EXCEPT ![t] = out[t]]
  /\ IF out[t] \in Final \cup {"ERROR"}
     THEN /\ work' = [work EXCEPT ![t] = "closing"]
          /\ out' = [out EXCEPT ![t] = Nothing]
          /\ UNCHANGED returning
     ELSE RetryLaterOrClose(t)
  /\ UNCHANGED <<remote, enqueueVars, attempts, known, chClosed, capacity, idle,
                 leaving, poolClosed, limitVars, closer>>

\* Mutant: processTask goes on to retry after the final result.
CloseChanAndRetry(t) ==
  /\ work[t] = "closing"
  /\ ~chClosed[t]
  /\ chClosed' = [chClosed EXCEPT ![t] = TRUE]
  /\ work' = [work EXCEPT ![t] = "timer"]
  /\ FreeWorker
  /\ UNCHANGED <<remote, enqueueVars, attempts, known, out, chan, capacity, idle,
                 leaving, poolClosed, limitVars, closer>>

CloseChan(t) ==
  /\ work[t] = "closing"
  /\ ~chClosed[t]
  /\ chClosed' = [chClosed EXCEPT ![t] = TRUE]
  /\ work' = [work EXCEPT ![t] = "deleting"]
  /\ UNCHANGED <<remote, enqueueVars, attempts, known, out, chan, poolVars,
                 limitVars, closer>>

\* Sending on, or closing, a channel that Close has closed; the pool recovers
\* the panic and the rest of processTask does not run.
Panic(t) ==
  /\ work[t] \in {"sending", "closing"}
  /\ chClosed[t]
  /\ work' = [work EXCEPT ![t] = "panicked"]
  /\ leaving' = leaving + 1
  /\ UNCHANGED <<remote, enqueueVars, attempts, known, out, chanVars, capacity, idle,
                 returning, poolClosed, limitVars, closer>>

\* taskList.deleteSingle: it removes by number whatever is listed.
DeleteSingle(t) ==
  /\ work[t] = "deleting"
  /\ LockFree
  /\ list' = {u \in list : NumberOf[u] # NumberOf[t]}
  /\ work' = [work EXCEPT ![t] = "done"]
  /\ FreeWorker
  /\ UNCHANGED <<remote, call, attempts, known, out, chanVars, capacity, idle,
                 leaving, poolClosed, limitVars, closer>>

-----------------------------------------------------------------------------
(* Timers, the listeners of the order service, Close, the accrual service.  *)

\* The retry timer has fired and its goroutine gets through Submit.
Resubmit(t) ==
  /\ work[t] = "timer"
  /\ CanSubmit
  /\ TakeWorker
  /\ work' = [work EXCEPT ![t] = "waiting"]
  /\ UNCHANGED <<remote, enqueueVars, attempts, known, out, chanVars, capacity, returning,
                 leaving, poolClosed, limitVars, closer>>

\* Submit fails, which is only logged: nobody has the task any more.
ResubmitFail(t) ==
  /\ work[t] = "timer"
  /\ poolClosed
  /\ work' = [work EXCEPT ![t] = "dropped"]
  /\ UNCHANGED <<remote, enqueueVars, attempts, known, out, chanVars, poolVars,
                 limitVars, closer>>

\* Mutant: the timer leaves the limit as it is.
InstallRateForgotten(k) ==
  /\ tunings[k] > 0
  /\ tunings' = [tunings EXCEPT ![k] = @ - 1]
  /\ UNCHANGED <<remote, enqueueVars, taskVars, chanVars, poolVars, limit, burst, closer>>

\* The timer tuneRateLimiting left.
InstallRate(k) ==
  /\ tunings[k] > 0
  /\ tunings' = [tunings EXCEPT ![k] = @ - 1]
  /\ limit' = k
  /\ UNCHANGED <<remote, enqueueVars, taskVars, chanVars, poolVars, burst, closer>>

Receive(t) ==
  /\ call[t] = "returned"
  /\ chan[t] # Nothing
  /\ chan' = [chan EXCEPT ![t] = Nothing]
  /\ UNCHANGED <<remote, enqueueVars, taskVars, chClosed, poolVars, limitVars, closer>>

\* Close: release the pool, without waiting for its workers ...
Release ==
  /\ closer = "none"
  /\ closer' = "released"
  /\ poolClosed' = TRUE
  /\ idle' = 0
  /\ leaving' = leaving + idle
  /\ UNCHANGED <<remote, enqueueVars, taskVars, chanVars, capacity, returning, limitVars>>

\* ... then, under the mutex, close the channel of every listed task.  Closing
\* one that its worker has closed already panics, after some of the others.
CloseChannels ==
  /\ closer = "released"
  /\ LockFree
  /\ LET closedBefore == {t \in list : chClosed[t]} IN
     \E S \in SUBSET (list \ closedBefore) :
       /\ closedBefore = {} => S = list
       /\ chClosed' = [t \in Tasks |-> chClosed[t] \/ t \in S]
       /\ closer' = IF closedBefore = {} THEN "closed" ELSE "panicked"
  /\ UNCHANGED <<remote, enqueueVars, taskVars, chan, poolVars, limitVars>>

RemoteAdvance(n) ==
  /\ \E a \in LaterStatuses(remote[n]) : remote' = [remote EXCEPT ![n] = a]
  /\ UNCHANGED <<enqueueVars, taskVars, chanVars, poolVars, limitVars, closer>>

-----------------------------------------------------------------------------
Worker(t) ==
  \/ WaitGranted(t) \/ WaitRefused(t)
  \/ ResponseError(t) \/ ResponseStatus(t) \/ \E r \in Replies : ResponseLimited(t, r)
  \/ Send(t) \/ CloseChan(t) \/ Panic(t) \/ DeleteSingle(t)

Enqueuing(t) == Enqueue(t) \/ EnqueueSubmit(t) \/ EnqueueFail(t) \/ EnqueueInsert(t)

RetryTimer(t) == Resubmit(t) \/ ResubmitFail(t)

Next ==
  \/ \E t \in Tasks : Enqueuing(t) \/ Worker(t) \/ RetryTimer(t) \/ Receive(t)
  \/ \E k \in Rates : InstallRate(k)
  \/ \E n \in Numbers : RemoteAdvance(n)
  \/ ParkWorker \/ Expire \/ Leave \/ Release \/ CloseChannels

Spec == Init /\ [][Next]_vars

\* A goroutine that can go on does so and a timer fires; a limiter with a rate
\* does not refuse the same task for ever.  Nothing obliges a caller to call
\* Enqueue, the accrual service to move on, or the program to be stopped.
Fairness ==
  /\ \A t \in Tasks :
       /\ WF_vars(call[t] # "idle" /\ Enqueuing(t))
       /\ WF_vars(Worker(t))
       /\ SF_vars(limit = "paced" /\ WaitGranted(t))
       /\ WF_vars(RetryTimer(t))
       /\ WF_vars(Receive(t))
  /\ WF_vars(ParkWorker) /\ WF_vars(Leave)
  /\ \A k \in Rates : WF_vars(InstallRate(k))
  /\ WF_vars(closer = "released" /\ CloseChannels)

FairSpec == Spec /\ Fairness

-----------------------------------------------------------------------------
(* Properties.                                                              *)

\* Outside the mutex the task list holds exactly the tasks that Enqueue has
\* returned and whose worker has not taken them off (poller.go:49-54, 100): a
\* fast worker can not leave an entry behind by finishing before Enqueue
\* inserts, which would make the number refused for ever, nor can one worker
\* remove the entry of a later task of the same number.
ListedUntilDone ==
  list = {t \in Tasks : call[t] = "returned" /\ work[t] # "done"}

\* Two tasks of one number are never at work together, in the pool or in a
\* timer (poller.go:81-83): the accrual service is not asked twice over and two
\* listeners do not write the same order.
OneTaskPerNumber ==
  \A t, u \in Tasks :
    /\ NumberOf[t] = NumberOf[u]
    /\ work[t] \in Running \cup {"timer"}
    /\ work[u] \in Running \cup {"timer"}
    => t = u

\* No worker sends on, or closes, a closed channel while the poller runs
\* (poller.go:159, 273-277, 310-330); after Close has begun it can happen, and
\* the pool recovers it.
NoPanicBeforeClose == (\E t \in Tasks : work[t] = "panicked") => closer # "none"

\* When Close returns, the channel of every successful Enqueue is closed, so
\* no listener waits on it for ever: also for a call that was submitting when
\* the pool was released, and for a task whose timer fired too late
\* (poller.go:105-119, 289-294).
ClosedAfterClose ==
  closer = "closed" => \A t \in Tasks : call[t] = "returned" => chClosed[t]

\* In a pool with as many workers as there are order numbers to ask for, Enqueue
\* never waits, the mutex held, for a task to end, whatever resized the pool in
\* the meantime (poller.go:77-100): the tasks that run have different numbers, none
\* of them the caller's.  What it may wait for is a goroutine whose task is over,
\* and which needs no mutex any more to be parked or to end.
WaitsForNoTask ==
  Cardinality({NumberOf[t] : t \in Tasks}) <= capacity =>
    \A t \in Tasks :
      call[t] = "submitting" => CanSubmit \/ poolClosed \/ returning + leaving > 0

\* What the listeners see of the poller: the feed is open from the submission
\* on, and a status about to be sent is not announced yet.
feed ==
  [t \in Tasks |-> IF chClosed[t] THEN "closed"
                   ELSE IF work[t] = "none" THEN "idle"
                   ELSE IF work[t] = "closing" THEN "ended"
                   ELSE "open"]

announced ==
  [t \in Tasks |-> IF out[t] \in Status \ Final THEN "NEW" ELSE known[t]]

Feed == INSTANCE AccrualFeed WITH known <- announced, stopped <- poolClosed

\* The poller keeps the promise of order.AccrualPoller: whatever the responses,
\* rate limits and timers do, a feed announces changes only and in their order,
\* ends with one final status or one error, and is closed after that
\* (poller.go:127-164, 269-334; "poller notifies only about *changes*",
\* poller_test.go:69).
FeedSafety == Feed!Spec

\* Until the poller is stopped every accepted task comes to its end: its feed
\* does not stay open for ever (poller.go:127-164, 282-297).
FeedLiveness == Feed!Fairness

\* Every call of Enqueue returns; "enqueue may take a while if all workers are
\* busy" (poller.go:94), but not for ever.
EnqueueReturns ==
  \A t \in Tasks : call[t] = "submitting" ~> call[t] \in {"returned", "failed"}

\* Rate limiting delays requests and does not end them: a task that waits for
\* the limiter makes another request, or the poller is stopped (poller.go:211
\* "block new requests until rate limitation has passed").
RequestsResume ==
  \A t \in Tasks : work[t] = "waiting" ~> (work[t] = "requesting" \/ poolClosed)

\* As long as the time a 429 asks for has not passed no request is let through
\* (poller.go:211 "block new requests until rate limitation has passed"): the
\* limit is back only when no timer is left that is to restore it.
BlockedUntilRestored == (\E k \in Rates : tunings[k] > 0) => limit = "blocked"
=============================================================================
