---------------------- MODULE AccrualPollerRefinement ----------------------
(***************************************************************************)
(* The poller implements AccrualFeed: every step of AccrualPoller is a step *)
(* of the feeds the order service sees, or leaves them as they are.         *)
(***************************************************************************)
EXTENDS AccrualPollerProofs

\* A worker has a result in hand exactly while it sends it: a change to
\* PROCESSING it has just noted, the accrual service's final status, or an error.
OutInv ==
  \A t \in Tasks :
    /\ work[t] \notin {"sending", "panicked"} => out[t] = Nothing
    /\ work[t] = "sending" => out[t] # Nothing
    /\ out[t] \in Status \ Final => out[t] = "PROCESSING" /\ known[t] = "PROCESSING"
    /\ out[t] \in Final => remote[NumberOf[t]] = out[t]
    /\ known[t] = "PROCESSING" =>
         remote[NumberOf[t]] \in {"PROCESSING", "INVALID", "PROCESSED"}

RInv == Inv /\ OutInv

-----------------------------------------------------------------------------
(* The statuses.                                                            *)

LEMMA LaterStatusesForward ==
  ASSUME NEW a \in AccrualStatus, NEW b \in LaterStatuses(a)
  PROVE  /\ b \in AccrualStatus
         /\ a \notin Final
         /\ a = "PROCESSING" => b \in Final
  BY DEF LaterStatuses, AccrualStatus, Final

LEMMA StatusOfCases ==
  ASSUME NEW a \in AccrualStatus
  PROVE  /\ StatusOf(a) \in {"NEW", "PROCESSING", "INVALID", "PROCESSED"}
         /\ StatusOf(a) # "NEW" => StatusOf(a) = a
         /\ StatusOf(a) = "NEW" => a \notin {"PROCESSING", "INVALID", "PROCESSED"}
  BY DEF StatusOf, AccrualStatus

LEMMA OutInit == Init => OutInv
  BY PollerAssumption DEF Init, OutInv, Status, Final

LEMMA RetryOut ==
  ASSUME RInv, NEW t \in Tasks, RetryLaterOrClose(t),
         UNCHANGED <<remote, known>>
  PROVE  OutInv'
<1> USE PollerAssumption DEF RInv, Inv, TypeOK, OutInv
<1>1. CASE AttemptsUsedUp(t)
  BY <1>1 DEF RetryLaterOrClose, Status, Final
<1>2. CASE ~AttemptsUsedUp(t)
  BY <1>2 DEF RetryLaterOrClose, Status, Final
<1> QED BY <1>1, <1>2

-----------------------------------------------------------------------------
(* The feeds as functions, before and after a step.                         *)

FeedOf(w, closed) ==
  IF closed THEN "closed"
  ELSE IF w = "none" THEN "idle"
  ELSE IF w = "closing" THEN "ended" ELSE "open"

\* A step that leaves the channels and the accrual service alone and changes
\* work and out only within what the feeds do not show is a stutter.
LEMMA Hidden ==
  ASSUME \A t \in Tasks : FeedOf(work'[t], chClosed'[t]) = FeedOf(work[t], chClosed[t]),
         announced' = announced, UNCHANGED <<remote, chan, poolClosed>>
  PROVE  UNCHANGED Feed!vars
<1>1. feed' = feed
  BY DEF feed, FeedOf
<1> QED BY <1>1 DEF Feed!vars

-----------------------------------------------------------------------------
(* The steps.                                                               *)

LEMMA InitRefines == Init => Feed!Init
  BY DEF Init, Feed!Init, feed, announced, Status, Final

LEMMA EnqueueRefines ==
  ASSUME RInv, NEW t \in Tasks, Enqueue(t) \/ EnqueueFail(t) \/ EnqueueInsert(t)
  PROVE  OutInv' /\ UNCHANGED Feed!vars
<1> USE DEF Enqueue, EnqueueFail, EnqueueInsert, taskVars, chanVars, poolVars
<1>1. OutInv'
  BY DEF RInv, OutInv
<1>2. announced' = announced
  BY DEF announced
<1> QED BY <1>1, <1>2, Hidden

\* The mutex, and the check under it, make the new feed the only live one.
LEMMA SubmitRefines ==
  ASSUME RInv, NEW t \in Tasks, EnqueueSubmit(t)
  PROVE  OutInv' /\ Feed!Accept(t)
<1> USE DEF EnqueueSubmit, chanVars
<1>1. OutInv'
  BY DEF RInv, Inv, TypeOK, OutInv, ListInv, Started
<1>2. closer = "none" /\ ~poolClosed
  BY DEF RInv, Inv, EndInv, CloserInv, CanSubmit
<1>3. work[t] = "none" /\ ~chClosed[t]
  BY <1>2 DEF RInv, Inv, TypeOK, ListInv, Started, EndInv, ClosedWhenOver
<1>4. feed[t] = "idle" /\ feed' = [feed EXCEPT ![t] = "open"]
  BY <1>3 DEF feed, RInv, Inv, TypeOK
<1>5. ASSUME NEW u \in Tasks, NumberOf[u] = NumberOf[t], work[u] # "none"
      PROVE  chClosed[u]
  <2>1. call[u] = "returned"
    BY <1>5 DEF RInv, Inv, ListInv, Started, OneHolder, Holds
  <2>2. u \notin list
    BY <1>5 DEF RInv, Inv, ListInv, ListedApart, Holds
  <2> QED BY <2>1, <2>2 DEF RInv, Inv, ListInv, ListedUntilDone, EndInv, ClosedWhenOver
<1>6. \A u \in Tasks : NumberOf[u] = NumberOf[t] => ~Feed!Live(u)
  BY <1>5 DEF Feed!Live, feed
<1>7. announced' = announced
  BY DEF announced
<1> QED BY <1>1, <1>2, <1>4, <1>6, <1>7 DEF Feed!Accept

LEMMA WaitRefines ==
  ASSUME RInv, NEW t \in Tasks, WaitGranted(t) \/ Resubmit(t) \/ ResubmitFail(t)
  PROVE  OutInv' /\ UNCHANGED Feed!vars
<1> USE DEF WaitGranted, Resubmit, ResubmitFail, enqueueVars, chanVars, poolVars
<1>1. OutInv'
  BY DEF RInv, Inv, TypeOK, OutInv
<1>2. \A u \in Tasks : FeedOf(work'[u], chClosed'[u]) = FeedOf(work[u], chClosed[u])
  BY DEF RInv, Inv, TypeOK, FeedOf
<1>3. announced' = announced
  BY DEF announced
<1> QED BY <1>1, <1>2, <1>3, Hidden

\* Until it sends, a worker that retries or gives up shows nothing.
LEMMA RetryRefines ==
  ASSUME RInv, NEW t \in Tasks, RetryLaterOrClose(t),
         work[t] \in {"waiting", "requesting"},
         UNCHANGED <<remote, known, chan, chClosed, poolClosed>>
  PROVE  OutInv' /\ UNCHANGED Feed!vars
<1>1. PICK w \in {"sending", "timer"} : work' = [work EXCEPT ![t] = w]
  BY RetryWork DEF RInv, Inv
<1>2. \A u \in Tasks : FeedOf(work'[u], chClosed'[u]) = FeedOf(work[u], chClosed[u])
  BY <1>1 DEF RInv, Inv, TypeOK, FeedOf
<1>3. \A u \in Tasks : out'[u] \in Status \ Final <=> out[u] \in Status \ Final
  BY PollerAssumption
     DEF RetryLaterOrClose, RInv, Inv, TypeOK, OutInv, Status, Final
<1>4. announced' = announced
  BY <1>3 DEF announced
<1> QED BY <1>2, <1>4, Hidden, RetryOut

LEMMA ResponseRefines ==
  ASSUME RInv, NEW t \in Tasks,
         WaitRefused(t) \/ ResponseError(t) \/ \E r \in Replies : ResponseLimited(t, r)
  PROVE  OutInv' /\ UNCHANGED Feed!vars
  BY RetryRefines DEF WaitRefused, ResponseError, ResponseLimited, enqueueVars, chanVars

\* A change is noted before it is sent, and announced when it is sent.
LEMMA StatusRefines ==
  ASSUME RInv, NEW t \in Tasks, ResponseStatus(t)
  PROVE  OutInv' /\ UNCHANGED Feed!vars
<1> USE DEF enqueueVars, chanVars
<1> DEFINE s == StatusOf(remote[NumberOf[t]])
<1>1. /\ s \in {"NEW", "PROCESSING", "INVALID", "PROCESSED"}
      /\ s # "NEW" => s = remote[NumberOf[t]]
      /\ s = "NEW" => known[t] = "NEW"
      /\ known[t] \in {"NEW", "PROCESSING"}
      /\ out[t] = Nothing
  BY StatusOfCases, PollerAssumption
     DEF RInv, Inv, TypeOK, OutInv, ResponseStatus, Status, Final
<1>2. CASE IsNews(t, s)
  <2>1. /\ known' = [known EXCEPT ![t] = IF s \in Final THEN @ ELSE s]
        /\ out' = [out EXCEPT ![t] = s]
        /\ work' = [work EXCEPT ![t] = "sending"]
        /\ UNCHANGED <<remote, chan, chClosed, poolClosed>>
    BY <1>2 DEF ResponseStatus
  <2>2. s \notin Final => s = "PROCESSING" /\ known[t] = "NEW"
    BY <1>1, <1>2 DEF IsNews, Final
  <2>3. OutInv'
    BY <1>1, <2>1, <2>2, PollerAssumption
       DEF RInv, Inv, TypeOK, OutInv, Status, Final
  <2>4. \A u \in Tasks : FeedOf(work'[u], chClosed'[u]) = FeedOf(work[u], chClosed[u])
    BY <2>1 DEF RInv, Inv, TypeOK, FeedOf, ResponseStatus
  <2>5. ASSUME NEW u \in Tasks
        PROVE  (IF out'[u] \in Status \ Final THEN "NEW" ELSE known'[u])
               = (IF out[u] \in Status \ Final THEN "NEW" ELSE known[u])
    BY <1>1, <2>1, <2>2, PollerAssumption DEF RInv, Inv, TypeOK, Status, Final
  <2>6. announced' = announced
    BY <2>5 DEF announced
  <2> QED BY <2>1, <2>3, <2>4, <2>6, Hidden
<1>3. CASE ~IsNews(t, s)
  BY <1>3, RetryRefines DEF ResponseStatus
<1> QED BY <1>2, <1>3

LEMMA SendRefines ==
  ASSUME RInv, NEW t \in Tasks, Send(t)
  PROVE  OutInv' /\ Feed!Next
<1> USE DEF enqueueVars
<1>1. /\ work[t] = "sending" /\ ~chClosed[t] /\ chan[t] = Nothing
      /\ chan' = [chan EXCEPT ![t] = out[t]]
      /\ UNCHANGED <<remote, known, chClosed, poolClosed>>
  BY DEF Send
<1>2. feed[t] = "open"
  BY <1>1 DEF feed
<1>3. out[t] \in Results
  BY <1>1 DEF RInv, Inv, TypeOK, OutInv
<1>4. CASE out[t] \in Final \cup {"ERROR"}
  <2>1. /\ work' = [work EXCEPT ![t] = "closing"]
        /\ out' = [out EXCEPT ![t] = Nothing]
    BY <1>4 DEF Send
  <2>2. OutInv'
    BY <1>1, <2>1, PollerAssumption DEF RInv, Inv, TypeOK, OutInv, Status, Final
  <2>3. feed' = [feed EXCEPT ![t] = "ended"]
    BY <1>1, <2>1 DEF RInv, Inv, TypeOK, feed
  <2>4. \A u \in Tasks : out'[u] \in Status \ Final <=> out[u] \in Status \ Final
    BY <1>4, <2>1, PollerAssumption DEF RInv, Inv, TypeOK, Status, Final
  <2>5. announced' = announced
    BY <1>1, <2>4 DEF announced
  <2>6. out[t] \in Final => out[t] = StatusOf(remote[NumberOf[t]])
    BY DEF RInv, OutInv, StatusOf, Final
  <2>7. Feed!EmitLast(t, out[t])
    BY <1>1, <1>2, <2>3, <2>5, <2>6
       DEF Feed!EmitLast, Feed!Final, Feed!StatusOf, StatusOf, Final
  <2> QED BY <1>4, <2>2, <2>7 DEF Feed!Next, Feed!Final, Final
<1>5. CASE out[t] \notin Final \cup {"ERROR"}
  <2>1. out[t] = "PROCESSING" /\ known[t] = "PROCESSING"
    BY <1>3, <1>5 DEF RInv, OutInv, Results
  <2>2. RetryLaterOrClose(t)
    BY <1>5 DEF Send
  <2>3. PICK w \in {"sending", "timer"} : work' = [work EXCEPT ![t] = w]
    BY <2>2, RetryWork DEF RInv, Inv
  <2>4. OutInv'
    BY <1>1, <2>2, RetryOut
  <2>5. feed' = feed
    BY <1>1, <2>3 DEF RInv, Inv, TypeOK, feed
  <2>6. \A u \in Tasks : u # t => out'[u] = out[u]
    BY <2>2 DEF RetryLaterOrClose, RInv, Inv, TypeOK
  <2>7. out'[t] \notin Status \ Final
    BY <2>2, PollerAssumption DEF RetryLaterOrClose, RInv, Inv, TypeOK, Status, Final
  <2>8. announced' = [announced EXCEPT ![t] = "PROCESSING"] /\ announced[t] = "NEW"
    BY <1>1, <2>1, <2>6, <2>7 DEF announced, Status, Final
  <2>9. remote[NumberOf[t]] \in {"PROCESSING", "INVALID", "PROCESSED"}
    BY <2>1 DEF RInv, OutInv
  <2>10. Feed!Emit(t, "PROCESSING")
    <3>1. /\ Feed!Rank("NEW") = 0 /\ Feed!Rank("PROCESSING") = 1
          /\ Feed!Rank(Feed!StatusOf(remote[NumberOf[t]])) \in {1, 2}
      BY <2>9 DEF Feed!Rank, Feed!StatusOf, Feed!Final
    <3> QED BY <1>1, <1>2, <2>1, <2>5, <2>8, <3>1 DEF Feed!Emit, Feed!Final
  <2> QED BY <2>4, <2>10 DEF Feed!Next, Feed!Status, Feed!Final
<1> QED BY <1>4, <1>5

LEMMA CloseChanRefines ==
  ASSUME RInv, NEW t \in Tasks, CloseChan(t)
  PROVE  OutInv' /\ Feed!CloseFeed(t)
<1> USE DEF CloseChan, enqueueVars, poolVars
<1>1. OutInv'
  BY DEF RInv, Inv, TypeOK, OutInv
<1>2. feed[t] = "ended" /\ feed' = [feed EXCEPT ![t] = "closed"]
  BY DEF RInv, Inv, TypeOK, feed
<1>3. announced' = announced
  BY DEF announced
<1> QED BY <1>1, <1>2, <1>3 DEF Feed!CloseFeed

\* What is left of a task whose channel is closed is not seen.
LEMMA OverRefines ==
  ASSUME RInv, NEW t \in Tasks, Panic(t) \/ DeleteSingle(t)
  PROVE  OutInv' /\ UNCHANGED Feed!vars
<1> USE DEF Panic, DeleteSingle, enqueueVars, chanVars, poolVars
<1>1. OutInv'
  BY DEF RInv, Inv, TypeOK, OutInv
<1>2. \A u \in Tasks : FeedOf(work'[u], chClosed'[u]) = FeedOf(work[u], chClosed[u])
  BY DEF RInv, Inv, TypeOK, EndInv, ClosedWhenOver, FeedOf
<1>3. announced' = announced
  BY DEF announced
<1> QED BY <1>1, <1>2, <1>3, Hidden

LEMMA PoolRefines ==
  ASSUME RInv, ParkWorker \/ Expire \/ Leave \/ \E k \in Rates : InstallRate(k)
  PROVE  OutInv' /\ UNCHANGED Feed!vars
<1> USE DEF ParkWorker, Expire, Leave, InstallRate, enqueueVars, taskVars, chanVars, poolVars
<1>1. OutInv'
  BY DEF RInv, OutInv
<1>2. announced' = announced
  BY DEF announced
<1> QED BY <1>1, <1>2, Hidden

LEMMA ReceiveRefines ==
  ASSUME RInv, NEW t \in Tasks, Receive(t)
  PROVE  OutInv' /\ Feed!Receive(t)
<1> USE DEF Receive, enqueueVars, taskVars, poolVars
<1>1. OutInv'
  BY DEF RInv, OutInv
<1>2. feed' = feed /\ announced' = announced
  BY DEF feed, announced
<1> QED BY <1>1, <1>2 DEF Feed!Receive

LEMMA ReleaseRefines ==
  ASSUME RInv, Release
  PROVE  OutInv' /\ Feed!Stop
<1> USE DEF Release, enqueueVars, taskVars, chanVars
<1>1. OutInv'
  BY DEF RInv, OutInv
<1>2. feed' = feed /\ announced' = announced
  BY DEF feed, announced
<1> QED BY <1>1, <1>2 DEF Feed!Stop, RInv, Inv, EndInv, CloserInv

\* Close closes live feeds only.
LEMMA CloseChannelsRefines ==
  ASSUME RInv, CloseChannels
  PROVE  OutInv' /\ [Feed!Next]_Feed!vars
<1> USE DEF enqueueVars, taskVars, poolVars
<1> DEFINE before == {t \in list : chClosed[t]}
<1>1. OutInv'
  BY DEF CloseChannels, RInv, OutInv
<1>2. announced' = announced
  BY DEF CloseChannels, announced
<1>3. PICK S \in SUBSET (list \ before) :
        chClosed' = [t \in Tasks |-> chClosed[t] \/ t \in S]
  BY DEF CloseChannels
<1>4. S \in SUBSET Tasks
  BY DEF RInv, Inv, TypeOK
<1>5. feed' = [t \in Tasks |-> IF t \in S THEN "closed" ELSE feed[t]]
  BY <1>3, <1>4 DEF CloseChannels, feed, RInv, Inv, TypeOK
<1>6. \A t \in S : Feed!Live(t)
  BY <1>4 DEF Feed!Live, feed, RInv, Inv, TypeOK, ListInv, ListedUntilDone, Started
<1>7. poolClosed /\ poolClosed' = poolClosed /\ remote' = remote /\ chan' = chan
  BY DEF CloseChannels, RInv, Inv, TypeOK, EndInv, CloserInv
<1>8. CASE S = {}
  <2>1. feed' = feed
    BY <1>5, <1>8 DEF feed
  <2> QED BY <1>1, <1>2, <1>7, <2>1 DEF Feed!vars
<1>9. CASE S # {}
  <2>1. Feed!Abandon(S)
    BY <1>2, <1>5, <1>6, <1>7, <1>9 DEF Feed!Abandon
  <2> QED BY <1>1, <1>4, <2>1 DEF Feed!Next
<1> QED BY <1>8, <1>9

\* A final status of the accrual service stays, and PROCESSING is not taken back.
LEMMA RemoteAdvanceRefines ==
  ASSUME RInv, NEW n \in Numbers, RemoteAdvance(n)
  PROVE  OutInv' /\ Feed!Advance(n)
<1> USE DEF RemoteAdvance, enqueueVars, taskVars, chanVars, poolVars
<1>1. PICK a \in LaterStatuses(remote[n]) : remote' = [remote EXCEPT ![n] = a]
  OBVIOUS
<1>2. /\ remote[n] \in AccrualStatus /\ a \in AccrualStatus
      /\ remote[n] \notin Final
      /\ remote[n] = "PROCESSING" => a \in Final
  BY LaterStatusesForward DEF RInv, Inv, TypeOK
<1>3. OutInv'
  BY <1>1, <1>2, PollerAssumption DEF RInv, Inv, TypeOK, OutInv, Final
<1>4. feed' = feed /\ announced' = announced
  BY DEF feed, announced
<1>5. a \in Feed!LaterStatuses(remote[n])
  BY DEF Feed!LaterStatuses, LaterStatuses, Feed!AccrualStatus, AccrualStatus,
         Feed!Final, Final
<1> QED BY <1>1, <1>3, <1>4, <1>5 DEF Feed!Advance

LEMMA NextRefines == RInv /\ [Next]_vars => RInv' /\ [Feed!Next]_Feed!vars
<1> SUFFICES ASSUME RInv, [Next]_vars PROVE RInv' /\ [Feed!Next]_Feed!vars
  OBVIOUS
<1>1. Inv'
  BY NextInv DEF RInv
<1>2. ASSUME NEW t \in Tasks, Enqueuing(t) PROVE OutInv' /\ [Feed!Next]_Feed!vars
  BY <1>2, EnqueueRefines, SubmitRefines DEF Enqueuing, Feed!Next
<1>3. ASSUME NEW t \in Tasks, Worker(t) PROVE OutInv' /\ [Feed!Next]_Feed!vars
  BY <1>3, WaitRefines, ResponseRefines, StatusRefines, SendRefines,
     CloseChanRefines, OverRefines DEF Worker, Feed!Next
<1>4. ASSUME NEW t \in Tasks, RetryTimer(t) PROVE OutInv' /\ [Feed!Next]_Feed!vars
  BY <1>4, WaitRefines DEF RetryTimer
<1>5. ASSUME NEW t \in Tasks, Receive(t) PROVE OutInv' /\ [Feed!Next]_Feed!vars
  BY <1>5, ReceiveRefines DEF Feed!Next
<1>6. ASSUME NEW n \in Numbers, RemoteAdvance(n) PROVE OutInv' /\ [Feed!Next]_Feed!vars
  BY <1>6, RemoteAdvanceRefines DEF Feed!Next
<1>7. ASSUME Release PROVE OutInv' /\ [Feed!Next]_Feed!vars
  BY <1>7, ReleaseRefines DEF Feed!Next
<1>8. ASSUME UNCHANGED vars PROVE OutInv' /\ [Feed!Next]_Feed!vars
  <2> USE <1>8 DEF vars, enqueueVars, taskVars, chanVars, poolVars
  <2>1. OutInv'
    BY DEF RInv, OutInv
  <2>2. announced' = announced /\ feed' = feed
    BY DEF announced, feed
  <2> QED BY <2>1, <2>2 DEF Feed!vars
<1> QED BY <1>1, <1>2, <1>3, <1>4, <1>5, <1>6, <1>7, <1>8, PoolRefines,
           CloseChannelsRefines DEF Next, RInv

\* The poller implements the feeds: what listeners receive is what AccrualFeed
\* allows, for every number of tasks and every behaviour of the accrual service.
THEOREM ImplementsFeed == Spec => FeedSafety
<1>1. Init => RInv
  BY InitInv, OutInit DEF RInv
<1>2. Spec => Feed!Init /\ [][Feed!Next]_Feed!vars
  BY <1>1, InitRefines, NextRefines, PTL DEF Spec
<1> QED BY <1>2 DEF FeedSafety, Feed!Spec
=============================================================================
